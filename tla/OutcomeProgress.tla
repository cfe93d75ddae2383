-------------------------- MODULE OutcomeProgress ---------------------------
(***************************************************************************)
(* Progress: each application answers the oldest of what it owes, or       *)
(* nothing, the waiters are looked at whenever something was answered, and *)
(* the shell's tables follow the schedule's.  Every step but an event's    *)
(* arrival, a waiter's and the stop makes it (OutcomeSteps).  Here it is   *)
(* shown to keep TableInv and IdleInv and to be a step of the listener's   *)
(* promise, FocusOutcomes (ProgressKeeps).                                 *)
(***************************************************************************)
EXTENDS OutcomeRules

USE GraceAssumption, ScheduleAssumption

-----------------------------------------------------------------------------
(* The history of events. *)

\* done is the history es with the events in ms, and no other, given the outcome how.
Answered(es, ms, how, done) ==
    /\ DOMAIN done = DOMAIN es
    /\ \A m \in DOMAIN es : /\ done[m].pid = es[m].pid
                            /\ done[m].outcome = IF m \in ms THEN how ELSE es[m].outcome
                            /\ m \notin ms => done[m] = es[m]
    /\ \A p : OwedOf(done, p) = OwedOf(es, p) \ ms

\* Answering events that are owed answers those, each once, and no other.
LEMMA AnswerOwed ==
    ASSUME NEW es \in Seq(Events), NEW ms, NEW how \in {"answered", "replaced"},
           \A m \in DOMAIN es : m \in ms => es[m].outcome = "owed"
    PROVE  Answered(es, ms, how, Answer(es, ms, how))
<1> DEFINE done == Answer(es, ms, how)
<1>1. DOMAIN done = DOMAIN es
  BY DEF Answer
<1>2. ASSUME NEW m \in DOMAIN es
      PROVE  /\ done[m].pid = es[m].pid
             /\ done[m].outcome = IF m \in ms THEN how ELSE es[m].outcome
             /\ m \notin ms => done[m] = es[m]
  <2>1. es[m] \in Events
    OBVIOUS
  <2>2. CASE m \in ms
    <3>1. done[m] = [es[m] EXCEPT !.outcome = how]
      BY <2>2 DEF Answer
    <3> QED BY <2>1, <2>2, <3>1 DEF Events
  <2>3. CASE m \notin ms
    BY <2>3 DEF Answer
  <2> QED BY <2>2, <2>3
<1> HIDE DEF done
<1>3. \A p : OwedOf(done, p) = OwedOf(es, p) \ ms
  BY <1>1, <1>2 DEF OwedOf
<1> QED BY <1>1, <1>2, <1>3 DEF Answered, done

\* Answering nothing changes nothing.
LEMMA AnswerNothing ==
    ASSUME NEW es \in Seq(Events), NEW how PROVE Answer(es, {}, how) = es
  BY DEF Answer

\* Answering some events, then others, is answering them together.
LEMMA AnswerTwice ==
    ASSUME NEW es \in Seq(Events), NEW ms, NEW ns, NEW how, ms \intersect ns = {}
    PROVE  Answer(Answer(es, ms, how), ns, how) = Answer(es, ms \union ns, how)
<1>2. ASSUME NEW m \in DOMAIN es
      PROVE  Answer(Answer(es, ms, how), ns, how)[m] = Answer(es, ms \union ns, how)[m]
  BY DEF Answer
<1>3. /\ DOMAIN Answer(Answer(es, ms, how), ns, how) = DOMAIN es
      /\ DOMAIN Answer(es, ms \union ns, how) = DOMAIN es
  BY DEF Answer
<1> QED BY Zenon, <1>2, <1>3 DEF Answer

\* done is the history es once an event of the application p has arrived, those it
\* replaces have given way and those dropped with it were answered.
Grown(es, p, replaced, dropped, done) ==
    LET m == Len(es) + 1
    IN  /\ Len(done) = m /\ DOMAIN done = 1..m /\ done[m].pid = p
        /\ done[m].outcome = IF m \in dropped THEN "answered" ELSE "owed"
        /\ \A n \in DOMAIN es :
              /\ done[n].pid = es[n].pid
              /\ done[n].outcome = IF n \in dropped THEN "answered"
                                   ELSE IF n \in replaced THEN "replaced" ELSE es[n].outcome
              /\ n \notin dropped \union replaced => done[n] = es[n]
        /\ OwedOf(done, p) = IF dropped = {} THEN (OwedOf(es, p) \ replaced) \union {m} ELSE {}
        /\ \A q \in Pids \ {p} : OwedOf(done, q) = OwedOf(es, q)

\* What an event's arrival does to the history.
LEMMA PushedHistory ==
    ASSUME NEW es \in Seq(Events), NEW p \in Pids, NEW replaced, replaced \subseteq OwedOf(es, p),
           NEW dropped,
           dropped = {} \/ dropped = (OwedOf(es, p) \ replaced) \union {Len(es) + 1},
           NEW done,
           done = Answer(Answer(Append(es, [pid |-> p, outcome |-> "owed"]), replaced, "replaced"),
                         dropped, "answered")
    PROVE  Grown(es, p, replaced, dropped, done)
<1> DEFINE m == Len(es) + 1
           new == [pid |-> p, outcome |-> "owed"]
           pushed == Append(es, new)
           given == Answer(pushed, replaced, "replaced")
<1>0. new \in Events /\ new.pid = p /\ new.outcome = "owed"
  BY DEF Events
<1> HIDE DEF new
<1>1. /\ pushed \in Seq(Events) /\ DOMAIN pushed = 1..m /\ pushed[m] = new
      /\ \A n \in DOMAIN es : pushed[n] = es[n] /\ n \in 1..m /\ n < m
      /\ m \in Nat /\ m \in 1..m /\ Len(pushed) = m /\ DOMAIN es = 1..Len(es)
  BY <1>0
<1>2. \A n \in replaced : n \in DOMAIN es /\ es[n].pid = p /\ es[n].outcome = "owed"
  BY DEF OwedOf
<1> HIDE DEF pushed, m
<1>3. m \notin DOMAIN es /\ \A n \in 1..m : n \in DOMAIN es \/ n = m
  BY <1>1 DEF m
<1>4. OwedOf(pushed, p) = OwedOf(es, p) \union {m} /\ \A q \in Pids \ {p} : OwedOf(pushed, q) = OwedOf(es, q)
  <2>1. \A n \in DOMAIN pushed : (n \in DOMAIN es /\ pushed[n] = es[n]) \/ (n = m /\ pushed[n] = new)
    BY <1>1, <1>3
  <2>2. m \in DOMAIN pushed /\ \A n \in DOMAIN es : n \in DOMAIN pushed /\ pushed[n] = es[n] /\ n # m
    BY <1>1, <1>3
  <2>3. \A n : n \in OwedOf(pushed, p) <=> n \in OwedOf(es, p) \/ n = m
    BY <1>0, <1>1, <2>1, <2>2 DEF OwedOf
  <2>4. \A q \in Pids \ {p} : \A n : n \in OwedOf(pushed, q) <=> n \in OwedOf(es, q)
    BY <1>0, <2>1, <2>2 DEF OwedOf
  <2> QED BY Zenon, <2>3, <2>4
<1>5. /\ given \in Seq(Events) /\ Len(given) = m /\ DOMAIN given = 1..m
      /\ \A n \in 1..m : /\ given[n].pid = pushed[n].pid
                         /\ given[n].outcome = IF n \in replaced THEN "replaced" ELSE pushed[n].outcome
                         /\ n \notin replaced => given[n] = pushed[n]
      /\ \A q : OwedOf(given, q) = OwedOf(pushed, q) \ replaced
  <2>1. \A n \in DOMAIN pushed : n \in replaced => pushed[n].outcome = "owed"
    BY <1>1, <1>2
  <2>2. given \in Seq(Events) /\ Len(given) = m
    BY Zenon, <1>1, AnswerType
  <2>3. Answered(pushed, replaced, "replaced", given)
    BY Zenon, <1>1, <2>1, AnswerOwed
  <2> HIDE DEF given
  <2> QED BY Zenon, <1>1, <2>2, <2>3 DEF Answered
<1> HIDE DEF given
<1>6. \A n \in dropped : n \in 1..m /\ given[n].pid = p /\ given[n].outcome = "owed"
  <2>1. dropped \subseteq OwedOf(given, p)
    BY <1>2, <1>3, <1>4, <1>5 DEF m
  <2> QED BY <1>5, <2>1 DEF OwedOf
<1>7. /\ Len(done) = m /\ DOMAIN done = 1..m
      /\ \A n \in 1..m : /\ done[n].pid = given[n].pid
                         /\ done[n].outcome = IF n \in dropped THEN "answered" ELSE given[n].outcome
                         /\ n \notin dropped => done[n] = given[n]
      /\ \A q : OwedOf(done, q) = OwedOf(given, q) \ dropped
  <2>1. \A n \in DOMAIN given : n \in dropped => given[n].outcome = "owed"
    BY <1>6
  <2>2. done = Answer(given, dropped, "answered")
    BY DEF given, pushed, new
  <2>3. Len(done) = m
    BY Zenon, <1>5, <2>2, AnswerType
  <2>4. Answered(given, dropped, "answered", done)
    <3>1. Answered(given, dropped, "answered", Answer(given, dropped, "answered"))
      BY Zenon, <1>5, <2>1, AnswerOwed
    <3> QED BY ONLY <2>2, <3>1
  <2> QED BY <1>5, <2>3, <2>4 DEF Answered
<1>8. OwedOf(done, p) = IF dropped = {} THEN (OwedOf(es, p) \ replaced) \union {m} ELSE {}
  <2>1. m \notin replaced
    BY <1>2, <1>3
  <2>2. OwedOf(done, p) = ((OwedOf(es, p) \union {m}) \ replaced) \ dropped
    BY <1>4, <1>5, <1>7
  <2> QED BY Zenon, <2>1, <2>2 DEF m
<1>9. ASSUME NEW q \in Pids \ {p} PROVE OwedOf(done, q) = OwedOf(es, q)
  <2>1. OwedOf(done, q) = (OwedOf(es, q) \ replaced) \ dropped
    BY <1>4, <1>5, <1>7
  <2>2. \A n \in OwedOf(es, q) : n \in DOMAIN es /\ es[n].pid # p
    BY DEF OwedOf
  <2>3. \A n \in OwedOf(es, q) : n \notin replaced /\ n \notin dropped
    BY <1>1, <1>2, <1>5, <1>6, <2>2
  <2> QED BY Zenon, <2>1, <2>3
<1>10. ASSUME NEW n \in DOMAIN es
       PROVE  /\ done[n].pid = es[n].pid
              /\ done[n].outcome = IF n \in dropped THEN "answered"
                                   ELSE IF n \in replaced THEN "replaced" ELSE es[n].outcome
              /\ n \notin dropped \union replaced => done[n] = es[n]
  BY <1>1, <1>5, <1>7
<1>11. /\ done[m].pid = p /\ done[m].outcome = IF m \in dropped THEN "answered" ELSE "owed"
  <2>1. m \in 1..m /\ m \notin replaced
    BY <1>1, <1>2, <1>3
  <2> QED BY <1>0, <1>1, <1>5, <1>7, <2>1
<1> QED BY <1>7, <1>8, <1>9, <1>10, <1>11 DEF Grown, m

-----------------------------------------------------------------------------
(* The idle line. *)

\* The applications' tables account for the events owed in es.
Accounts(as, hs, es) ==
    /\ hs \subseteq Pids
    /\ \A p \in Pids : /\ as[p] \in Apps /\ InOrder(as[p]) /\ OwedBy(as[p]) = OwedOf(es, p)
                       /\ p \in hs \/ as[p] = NoApp

\* The event at the front of an application is the oldest it owes
\* (Application::front).
LEMMA FrontIsOldest ==
    ASSUME NEW a \in Apps, InOrder(a), 0 \notin OwedBy(a), NEW before \in Nat
    PROVE  Front(a) = 0 \/ before < Front(a) <=> \A m \in OwedBy(a) : before < m
<1>1. CASE Accepts(a.flight, a.flight.request)
  <2>1. OwedBy(a) = MarkersOf(a.queue) \union {a.flight.item} /\ Running(a.flight)
    BY <1>1, OwedByParts
  <2>2. a.flight.item \in Nat /\ \A m \in MarkersOf(a.queue) : a.flight.item < m /\ m \in Nat
    BY <2>1, MarkersType DEF InOrder, Apps, Flights
  <2>3. Front(a) = a.flight.item
    BY <1>1 DEF Front
  <2> QED BY <2>1, <2>2, <2>3
<1>2. CASE ~Accepts(a.flight, a.flight.request) /\ a.queue # {}
  <2>1. OwedBy(a) = MarkersOf(a.queue)
    BY <1>2 DEF OwedBy
  <2>2. Oldest(a.queue) \in a.queue /\ \A e \in a.queue : Oldest(a.queue).marker <= e.marker
    BY <1>2, OldestType
  <2>3. Front(a) = Oldest(a.queue).marker
    BY <1>2 DEF Front
  <2>4. Front(a) \in OwedBy(a) /\ \A m \in OwedBy(a) : Front(a) <= m /\ m \in Nat
    BY <2>1, <2>2, <2>3, MarkersType DEF MarkersOf
  <2> QED BY <2>4
<1>3. CASE ~Accepts(a.flight, a.flight.request) /\ a.queue = {}
  BY <1>3 DEF OwedBy, MarkersOf, Front
<1> QED BY <1>1, <1>2, <1>3

\* So what is looked at for a waiter is whether an event before it is owed
\* (Schedule::nothing_before).
LEMMA NothingBeforeMeans ==
    ASSUME NEW as, NEW hs, NEW es \in Seq(Events), Accounts(as, hs, es), NEW before \in Nat
    PROVE  NothingBefore(before, as, hs) <=>
              \A m \in DOMAIN es : es[m].outcome = "owed" => before < m
<1>1. ASSUME NEW m \in DOMAIN es PROVE m \in Nat \ {0} /\ es[m].pid \in Pids
  <2>1. es[m] \in Events /\ m \in 1..Len(es)
    OBVIOUS
  <2> QED BY <2>1 DEF Events
<1>2. ASSUME NEW p \in Pids
      PROVE  Front(as[p]) = 0 \/ before < Front(as[p]) <=> \A m \in OwedOf(es, p) : before < m
  <2>1. as[p] \in Apps /\ InOrder(as[p]) /\ OwedBy(as[p]) = OwedOf(es, p)
    BY Zenon DEF Accounts
  <2>2. 0 \notin OwedBy(as[p])
    BY <1>1, <2>1 DEF OwedOf
  <2> QED BY Zenon, <2>1, <2>2, FrontIsOldest
<1>3. ASSUME NEW p \in Pids \ hs PROVE OwedOf(es, p) = {}
  <2>1. OwedBy(NoApp) = {}
    BY DEF OwedBy, NoApp, MarkersOf, Accepts, RunningOf, Running, New
  <2> QED BY Zenon, <2>1 DEF Accounts
<1>4. NothingBefore(before, as, hs) <=> \A p \in Pids : \A m \in OwedOf(es, p) : before < m
  BY Zenon, <1>2, <1>3 DEF NothingBefore, Accounts
<1> QED BY Zenon, <1>1, <1>4 DEF OwedOf

\* A set of places that has every place before each of its own is a prefix.
LEMMA PrefixOf ==
    ASSUME NEW len \in Nat, NEW places \in SUBSET (1..len),
           \A i \in places : \A j \in 1..i : j \in places
    PROVE  \E n \in 0..len : /\ places = 1..n /\ Cardinality(places) = n
                             /\ n < len => n + 1 \notin places
<1>1. \A n \in Nat : Cardinality(1..n) = n
  BY FS_Interval
<1>2. CASE places = 1..len
  BY <1>1, <1>2
<1>3. CASE places # 1..len
  <2> DEFINE others == (1..len) \ places
  <2>0. others # {} /\ others \subseteq 1..len
    BY Zenon, <1>3
  <2> HIDE DEF others
  <2>1. others # {} /\ others \in SUBSET Times /\ NoTime \notin others
    BY <2>0 DEF Times, NoTime
  <2>2. Soonest(others) \in others /\ \A i \in others : Soonest(others) <= i
    BY <2>1, SoonestTime DEF Soonest
  <2>3. PICK n \in 0..len : n + 1 = Soonest(others)
    <3>1. \A i \in 1..len : i - 1 \in 0..len /\ (i - 1) + 1 = i
      OBVIOUS
    <3> QED BY Zenon, <2>0, <2>2, <3>1
  <2>4. \A i \in 1..n : i \in places
    BY <2>2, <2>3 DEF others
  <2>5. \A i \in places : i \in 1..n
    BY <2>2, <2>3 DEF others
  <2>6. places = 1..n
    BY Zenon, <2>4, <2>5
  <2> QED BY <1>1, <2>2, <2>3, <2>6 DEF others
<1> QED BY <1>2, <1>3

\* What is left of the line behind its first n waiters.
LEMMA RestOfLine ==
    ASSUME NEW line \in Seq(Waits), NEW n \in 0..Len(line)
    PROVE  LET rest == SubSeq(line, n + 1, Len(line))
           IN  /\ rest \in Seq(Waits) /\ Len(rest) = Len(line) - n
               /\ \A i \in DOMAIN rest : n + i \in DOMAIN line /\ rest[i] = line[n + i]
<1> DEFINE rest == SubSeq(line, n + 1, Len(line))
<1>1. \A i \in (n + 1)..Len(line) : line[i] \in Waits
  OBVIOUS
<1>2. /\ rest \in Seq(Waits)
      /\ Len(rest) = IF n + 1 <= Len(line) THEN Len(line) - (n + 1) + 1 ELSE 0
      /\ \A i \in 1..(Len(line) - (n + 1) + 1) : rest[i] = line[(n + 1) + i - 1]
  BY <1>1, SubSeqProperties
<1> HIDE DEF rest
<1>3. Len(rest) = Len(line) - n
  BY <1>2
<1>4. DOMAIN rest = 1..(Len(line) - n) /\ DOMAIN line = 1..Len(line)
  BY <1>2, <1>3
<1>5. ASSUME NEW i \in DOMAIN rest PROVE n + i \in DOMAIN line /\ rest[i] = line[n + i]
  <2>1. i \in 1..(Len(line) - (n + 1) + 1) /\ (n + 1) + i - 1 = n + i
    BY <1>4, <1>5
  <2>2. n + i \in DOMAIN line
    BY <1>4, <1>5
  <2>3. rest[i] = line[(n + 1) + i - 1]
    BY Zenon, <1>2, <2>1
  <2> QED BY <2>1, <2>2, <2>3
<1> QED BY <1>2, <1>3, <1>5 DEF rest

\* With the first n run, those that have run still came first.
LEMMA NumberedOn ==
    ASSUME NEW line \in Seq(Waits), NEW closures, NEW done, NEW n \in 0..Len(line),
           Numbered(line, closures, done)
    PROVE  LET rest == SubSeq(line, n + 1, Len(line))
               ids  == {line[i].waiter : i \in 1..n}
           IN  /\ Numbered(rest, closures \ ids, done \union (ids \intersect closures))
               /\ ids \subseteq closures
<1> DEFINE k == Cardinality(done)
           rest == SubSeq(line, n + 1, Len(line))
           ids == {line[i].waiter : i \in 1..n}
<1>1. /\ k \in Nat /\ done = 1..k /\ closures = (k + 1)..(k + Len(line))
      /\ \A i \in 1..Len(line) : line[i].waiter = k + i
  BY DEF Numbered
<1>2. /\ Len(rest) = Len(line) - n /\ rest \in Seq(Waits)
      /\ \A i \in DOMAIN rest : n + i \in DOMAIN line /\ rest[i] = line[n + i]
  BY RestOfLine
<1> HIDE DEF k, rest
<1>3. ids = (k + 1)..(k + n)
  <2>1. \A i \in 1..n : line[i].waiter = k + i
    BY <1>1
  <2>2. ids = {k + i : i \in 1..n}
    BY <2>1
  <2>3. \A x \in (k + 1)..(k + n) : x - k \in 1..n /\ x = k + (x - k)
    BY <1>1
  <2>4. \A i \in 1..n : k + i \in (k + 1)..(k + n)
    BY <1>1
  <2> HIDE DEF ids
  <2> QED BY <2>2, <2>3, <2>4
<1> HIDE DEF ids
<1>4. /\ closures \ ids = ((k + n) + 1)..((k + n) + Len(rest)) /\ ids \subseteq closures
      /\ done \union (ids \intersect closures) = 1..(k + n)
  BY <1>1, <1>2, <1>3
<1>5. k + n \in Nat /\ Cardinality(1..(k + n)) = k + n
  <2>1. k + n \in Nat
    BY <1>1
  <2> QED BY <2>1, FS_Interval
<1>6. ASSUME NEW i \in DOMAIN rest PROVE rest[i].waiter = (k + n) + i
  <2>1. i \in Nat /\ n + i \in 1..Len(line) /\ rest[i] = line[n + i]
    BY <1>2
  <2>2. line[n + i].waiter = k + (n + i)
    BY <1>1, <2>1
  <2> QED BY <1>1, <2>1, <2>2
<1> QED BY Zenon, <1>4, <1>5, <1>6 DEF Numbered, rest, ids

\* The first waiters of line have run, every event of es before each having its
\* outcome, and the next, if one is left, waits for an event owed.
Served(line, es) ==
    /\ Sorted(idle', Len(es))
    /\ stopping => waiters' = {}
    /\ ~stopping => Numbered(idle', waiters', ran') /\ Caused(idle', es)
    /\ \E n \in 0..Len(line) :
          /\ \A i \in 1..n, m \in DOMAIN es : m <= line[i].before => es[m].outcome # "owed"
          /\ idle' = SubSeq(line, n + 1, Len(line))
          /\ ran' = IF stopping THEN ran ELSE ran \union {line[i].waiter : i \in 1..n}

\* The waiters looked at: those every event before which has its outcome run, from
\* the front, and the next still waits for one (Schedule::wake_idle_waiters).
LEMMA LineServed ==
    ASSUME NEW line \in Seq(Waits), NEW closures, NEW as, NEW hs, NEW es \in Seq(Events),
           Accounts(as, hs, es), Sorted(line, Len(es)), stopping \in BOOLEAN,
           stopping => closures = {}, ~stopping => Numbered(line, closures, ran),
           WakeIdleWaiters(line, closures, as, hs)
    PROVE  Served(line, es)
<1> DEFINE runs == {i \in DOMAIN line : \A j \in 1..i : NothingBefore(line[j].before, as, hs)}
<1>0. DOMAIN line = 1..Len(line) /\ \A i \in 1..Len(line) : line[i] \in Waits
  OBVIOUS
<1>1. DOMAIN line = 1..Len(line) /\ \A i \in 1..Len(line) : line[i].before \in Nat
  BY <1>0 DEF Waits
<1>2. ASSUME NEW i \in runs, NEW j \in 1..i PROVE j \in runs
  <2>1. j \in DOMAIN line /\ \A l \in 1..j : l \in 1..i
    BY <1>1
  <2> QED BY Zenon, <2>1
<1>3. PICK n \in 0..Len(line) : runs = 1..n /\ Cardinality(runs) = n /\ (n < Len(line) => n + 1 \notin runs)
  <2>1. runs \in SUBSET (1..Len(line))
    BY Zenon, <1>1
  <2>2. Len(line) \in Nat
    OBVIOUS
  <2> HIDE DEF runs
  <2> QED BY Zenon, <1>2, <2>1, <2>2, PrefixOf
<1> DEFINE ids == {line[i].waiter : i \in 1..n}
<1>4. /\ idle' = SubSeq(line, n + 1, Len(line)) /\ waiters' = closures \ ids
      /\ ran' = ran \union (ids \intersect closures)
  BY Zenon, <1>3 DEF WakeIdleWaiters
<1>5. /\ idle' \in Seq(Waits) /\ Len(idle') = Len(line) - n
      /\ \A i \in DOMAIN idle' : n + i \in DOMAIN line /\ idle'[i] = line[n + i]
  BY <1>4, RestOfLine
<1>6. ASSUME NEW i \in 1..n PROVE NothingBefore(line[i].before, as, hs)
  <2>1. i \in runs
    BY Zenon, <1>3
  <2>2. i \in 1..i
    OBVIOUS
  <2> QED BY Zenon, <2>1, <2>2
<1>7. \A i \in 1..n, m \in DOMAIN es : m <= line[i].before => es[m].outcome # "owed"
  <2> SUFFICES ASSUME NEW i \in 1..n, NEW m \in DOMAIN es, es[m].outcome = "owed"
               PROVE  ~(m <= line[i].before)
    OBVIOUS
  <2>1. line[i].before \in Nat /\ m \in Nat
    BY <1>1
  <2>2. line[i].before < m
    BY Zenon, <1>6, <2>1, NothingBeforeMeans
  <2> QED BY <2>1, <2>2
<1>8. Sorted(idle', Len(es))
  <2>1. ASSUME NEW i \in DOMAIN idle' PROVE idle'[i].before <= Len(es)
    BY <1>5 DEF Sorted
  <2>2. ASSUME NEW i \in DOMAIN idle', NEW j \in DOMAIN idle', i <= j
        PROVE  idle'[i].before <= idle'[j].before
    <3>1. n + i <= n + j
      BY <1>5, <2>2
    <3> QED BY <1>5, <3>1 DEF Sorted
  <2> QED BY <2>1, <2>2 DEF Sorted
<1>9. n < Len(line) => ~NothingBefore(line[n + 1].before, as, hs)
  <2>1. n < Len(line) => n + 1 \in DOMAIN line /\ \A j \in 1..(n + 1) : j \in 1..n \/ j = n + 1
    BY <1>1
  <2> QED BY Zenon, <1>3, <1>6, <2>1
<1>10. Caused(idle', es)
  <2> SUFFICES ASSUME NEW i \in DOMAIN idle'
               PROVE  \E m \in DOMAIN es : es[m].outcome = "owed" /\ m <= idle'[i].before
    BY DEF Caused
  <2>1. i \in 1..(Len(line) - n) /\ n + i \in DOMAIN line /\ idle'[i] = line[n + i]
    BY <1>5
  <2>2. n < Len(line) /\ n + 1 \in DOMAIN line /\ n + 1 <= n + i
    BY <1>1, <2>1
  <2>3. PICK m \in DOMAIN es : es[m].outcome = "owed" /\ ~(line[n + 1].before < m)
    BY Zenon, <1>1, <1>9, <2>2, NothingBeforeMeans
  <2>4. line[n + 1].before <= line[n + i].before
    BY <2>1, <2>2 DEF Sorted
  <2>5. m \in Nat /\ line[n + 1].before \in Nat /\ line[n + i].before \in Nat
    BY <1>1, <2>1, <2>2
  <2>6. m <= line[n + i].before
    BY SMTT(60), <2>3, <2>4, <2>5
  <2> QED BY <2>1, <2>3, <2>6
<1>11. ~stopping => /\ Numbered(idle', waiters', ran') /\ ids \subseteq closures
  BY Zenon, <1>4, NumberedOn
<1> HIDE DEF runs, ids
<1>12. ran' = IF stopping THEN ran ELSE ran \union ids
  BY <1>4, <1>11
<1> QED BY Zenon, <1>4, <1>7, <1>8, <1>10, <1>11, <1>12 DEF Served, ids

\* A waiter that comes is the next in number.
LEMMA NumberedJoins ==
    ASSUME NEW line \in Seq(Waits), NEW closures, NEW done, Numbered(line, closures, done),
           NEW before \in Nat
    PROVE  LET id == Cardinality(done) + Len(line) + 1
           IN  /\ Cardinality(closures \union done) + 1 = id /\ id \in Nat
               /\ Numbered(Append(line, [before |-> before, waiter |-> id]), closures \union {id}, done)
<1> DEFINE k == Cardinality(done)
           id == k + Len(line) + 1
           w == [before |-> before, waiter |-> id]
           longer == Append(line, w)
<1>1. /\ k \in Nat /\ done = 1..k /\ closures = (k + 1)..(k + Len(line))
      /\ \A i \in 1..Len(line) : line[i].waiter = k + i
      /\ Len(line) \in Nat
  BY DEF Numbered
<1> HIDE DEF k
<1>2. id \in Nat /\ k + Len(line) \in Nat
  BY <1>1
<1>3. closures \union done = 1..(k + Len(line))
  BY <1>1
<1>4. Cardinality(closures \union done) = k + Len(line)
  <2>1. \A n \in Nat : Cardinality(1..n) = n
    BY FS_Interval
  <2> HIDE DEF id
  <2> QED BY Zenon, <1>2, <1>3, <2>1
<1>5. closures \union {id} = (k + 1)..(k + (Len(line) + 1))
  BY <1>1
<1>6. w \in Waits /\ w.waiter = id
  BY <1>2 DEF Waits
<1> HIDE DEF w
<1>7. /\ Len(longer) = Len(line) + 1 /\ DOMAIN longer = 1..(Len(line) + 1)
      /\ longer[Len(line) + 1] = w /\ \A i \in 1..Len(line) : longer[i] = line[i]
  BY <1>6
<1> HIDE DEF longer
<1>8. \A i \in 1..(Len(line) + 1) : longer[i].waiter = k + i
  <2> SUFFICES ASSUME NEW i \in 1..(Len(line) + 1) PROVE longer[i].waiter = k + i
    OBVIOUS
  <2>1. CASE i \in 1..Len(line)
    BY <1>1, <1>7, <2>1
  <2>2. CASE i = Len(line) + 1
    BY <1>1, <1>6, <1>7, <2>2
  <2>3. i \in 1..Len(line) \/ i = Len(line) + 1
    BY SMTT(30), <1>1
  <2> QED BY Zenon, <2>1, <2>2, <2>3
<1>9. Numbered(longer, closures \union {id}, done)
  BY <1>1, <1>5, <1>7, <1>8 DEF Numbered, k
<1> HIDE DEF id
<1>10. Cardinality(closures \union done) + 1 = id
  BY <1>1, <1>4 DEF id
<1> QED BY <1>2, <1>9, <1>10 DEF longer, w, id, k

\* And waits for every event so far, so the line stays sorted.
LEMMA SortedJoins ==
    ASSUME NEW line \in Seq(Waits), NEW count \in Nat, Sorted(line, count), NEW w \in Waits,
           w.before = count
    PROVE  Sorted(Append(line, w), count)
<1> DEFINE longer == Append(line, w)
<1>1. /\ DOMAIN longer = 1..(Len(line) + 1) /\ Len(line) \in Nat /\ DOMAIN line = 1..Len(line)
      /\ longer[Len(line) + 1] = w /\ \A i \in 1..Len(line) : longer[i] = line[i]
  OBVIOUS
<1> HIDE DEF longer
<1>2. \A i \in 1..Len(line) : longer[i].before <= count
  BY <1>1 DEF Sorted
<1>3. \A i \in 1..(Len(line) + 1) : i \in 1..Len(line) \/ i = Len(line) + 1
  BY <1>1
<1>4. ASSUME NEW i \in 1..(Len(line) + 1), NEW j \in 1..(Len(line) + 1), i <= j
      PROVE  longer[i].before <= longer[j].before
  <2>1. CASE j \in 1..Len(line)
    <3>1. i \in 1..Len(line)
      BY <1>1, <1>4, <2>1
    <3> QED BY <1>1, <1>4, <2>1, <3>1 DEF Sorted
  <2>2. CASE j = Len(line) + 1
    BY <1>1, <1>2, <1>3, <2>2
  <2> QED BY <1>3, <2>1, <2>2
<1>5. Sorted(longer, count)
  BY <1>1, <1>2, <1>3, <1>4 DEF Sorted
<1> QED BY <1>5 DEF longer

-----------------------------------------------------------------------------
(* Progress: the steps that answer events, or change nothing that is owed. *)

\* Each application p answers the events in outs[p], the waiters are looked at if
\* any were, and the shell's tables follow the schedule's.
Progress(outs) ==
    /\ \A p \in Pids : Moves(apps[p], apps'[p], outs[p], stopping)
    /\ events' = Answer(events, UNION {outs[p] : p \in Pids}, "answered")
    /\ stopping' = stopping
    /\ records' = held'
    /\ \A p \in Pids : watched'[p] = apps'[p].flight.request
    /\ \A t \in threads' : t.pc \in Busy => t.request.generation = t.generation
    /\ \/ WakeIdleWaiters(idle, waiters, apps', held')
       \/ idle' = idle /\ waiters' = waiters /\ ran' = ran /\ \A p \in Pids : outs[p] = {}

\* Progress keeps the tables and the idle line, and is a step of the promise.
LEMMA ProgressKeeps ==
    ASSUME TypeOK, TypeOK', ThreadInv', TableInv, IdleInv, NEW outs, Progress(outs)
    PROVE  TableInv' /\ IdleInv' /\ Promise!Step
<1> DEFINE ms == UNION {outs[p] : p \in Pids}
<1>1. /\ events \in Seq(Events) /\ events' \in Seq(Events) /\ stopping \in BOOLEAN
      /\ idle \in Seq(Waits) /\ stopping' = stopping
  BY DEF TypeOK, Progress
<1>2. ASSUME NEW p \in Pids
      PROVE  /\ outs[p] \subseteq OwedOf(events, p)
             /\ OwedBy(apps'[p]) = OwedOf(events, p) \ outs[p]
             /\ \A m \in outs[p], n \in OwedBy(apps'[p]) : m < n
             /\ Sound(apps'[p], stopping) /\ Follows(apps[p], apps'[p])
             /\ OwedBy(apps[p]) = OwedOf(events, p)
             /\ Running(apps[p].flight) => apps[p].flight.item <= Len(events)
  BY SMTT(120) DEF Progress, Moves, Settled, TableInv
<1>3. \A m \in ms : m \in DOMAIN events /\ events[m].outcome = "owed"
  BY SMTT(60), <1>2 DEF OwedOf
<1>4. /\ DOMAIN events' = DOMAIN events /\ Len(events') = Len(events)
      /\ \A m \in DOMAIN events :
            /\ events'[m].pid = events[m].pid
            /\ events'[m].outcome = IF m \in ms THEN "answered" ELSE events[m].outcome
            /\ m \notin ms => events'[m] = events[m]
      /\ \A p : OwedOf(events', p) = OwedOf(events, p) \ ms
  <2>1. events' = Answer(events, ms, "answered")
    BY DEF Progress
  <2>2. Len(events') = Len(events)
    BY <1>1, <2>1, AnswerType
  <2> HIDE DEF ms
  <2>3. Answered(events, ms, "answered", events')
    BY Zenon, <1>1, <1>3, <2>1, AnswerOwed
  <2> QED BY <1>1, <2>2, <2>3 DEF Answered
<1>5. ASSUME NEW p \in Pids
      PROVE  OwedOf(events', p) = OwedBy(apps'[p]) /\ OwedOf(events, p) \intersect ms = outs[p]
  <2>1. OwedOf(events, p) \intersect ms = outs[p]
    BY SMTT(120), <1>2 DEF OwedOf
  <2> HIDE DEF ms
  <2> QED BY Zenon, <1>2, <1>4, <2>1
<1> HIDE DEF ms
<1>6. TableInv'
  <2>1. records' = held' /\ \A p \in Pids : watched'[p] = apps'[p].flight.request
    BY DEF Progress
  <2>2. \A m \in DOMAIN events' : events'[m].outcome # "twice"
    BY <1>4 DEF TableInv, Markers
  <2>3. ASSUME NEW p \in Pids, Running(apps'[p].flight)
        PROVE  apps'[p].flight.item <= Len(events')
    <3>1. \A m \in OwedOf(events, p) : m <= Len(events)
      BY <1>1 DEF OwedOf
    <3> QED BY <1>2, <1>4, <2>3, <3>1 DEF Follows
  <2>4. \A t \in threads' : t.pc \in Busy => t.request.generation = t.generation
    BY DEF Progress
  <2> QED BY <1>1, <1>2, <1>5, <2>1, <2>2, <2>3, <2>4 DEF TableInv, Markers
<1>7. Accounts(apps', held', events')
  <2>1. \A p \in Pids : InOrder(apps'[p]) /\ OwedBy(apps'[p]) = OwedOf(events', p)
    BY <1>2, <1>5 DEF Sound
  <2>2. \A p \in Pids : apps'[p] \in Apps /\ (p \in held' \/ apps'[p] = NoApp)
    BY DEF TypeOK, ThreadInv, Consistent
  <2> QED BY <2>1, <2>2 DEF Accounts, TypeOK
<1>8. IdleInv' /\ \E n \in 0..Len(idle) : Promise!Serve(idle, n)
  <2>1. /\ Sorted(idle, Len(events')) /\ (stopping => waiters = {})
        /\ ~stopping => Numbered(idle, waiters, ran) /\ Caused(idle, events)
    BY <1>4 DEF IdleInv
  <2>2. CASE WakeIdleWaiters(idle, waiters, apps', held')
    <3>1. Served(idle, events')
      BY Zenon, <1>1, <1>7, <2>1, <2>2, LineServed
    <3>2. IdleInv'
      BY <1>1, <3>1 DEF IdleInv, Served
    <3> QED BY Zenon, <1>4, <3>1, <3>2 DEF Served, Promise!Serve, Promise!Settles
  <2>3. CASE idle' = idle /\ waiters' = waiters /\ ran' = ran /\ \A p \in Pids : outs[p] = {}
    <3>1. ms = {}
      BY <2>3 DEF ms
    <3>2. Caused(idle, events) => Caused(idle, events')
      BY <1>4, <3>1 DEF Caused
    <3>3. IdleInv'
      BY <1>1, <2>1, <2>3, <3>2 DEF IdleInv
    <3>4. Promise!Serve(idle, 0)
      <4>1. idle' = SubSeq(idle, 0 + 1, Len(idle))
        BY SMTT(60), <1>1, <2>3, SubSeqFull
      <4>2. ran \union {idle[i].waiter : i \in 1..0} = ran
        OBVIOUS
      <4> QED BY <2>3, <4>1, <4>2 DEF Promise!Serve
    <3>5. 0 \in 0..Len(idle)
      BY <1>1
    <3> QED BY <3>3, <3>4, <3>5
  <2> QED BY <2>2, <2>3 DEF Progress
<1>9. Promise!Outcomes
  <2>1. ASSUME NEW m \in DOMAIN events, events[m].outcome = "owed", events'[m].outcome # "owed"
        PROVE  Promise!InItsTurn(m)
    <3> DEFINE p == events[m].pid
    <3>1. p \in Pids
      <4>1. events[m] \in Events
        BY <1>1
      <4> QED BY <4>1 DEF Events
    <3>2. m \in ms /\ events'[m].outcome = "answered"
      BY <1>4, <2>1
    <3>3. m \in outs[p]
      BY <1>5, <2>1, <3>1, <3>2 DEF OwedOf
    <3>4. ASSUME NEW n \in 1..m, events'[n].pid = events'[m].pid, events'[n].outcome = "owed"
          PROVE  FALSE
      <4>1. n \in OwedOf(events', p)
        BY SMTT(60), <1>1, <1>4, <3>4 DEF OwedOf
      <4>2. m < n
        BY SMTT(60), <1>2, <1>5, <3>1, <3>3, <4>1
      <4> QED BY <1>1, <4>2
    <3> QED BY <3>2, <3>4 DEF Promise!InItsTurn, Promise!Settles
  <2>2. \A m \in DOMAIN events : events[m].outcome # "owed" => events'[m] = events[m]
    BY <1>3, <1>4
  <2>3. Len(events') \in Len(events)..(Len(events) + 1)
    BY SMTT(60), <1>1, <1>4
  <2> QED BY <1>4, <2>1, <2>2, <2>3 DEF Promise!Outcomes, Promise!Settles
<1> QED BY <1>1, <1>6, <1>8, <1>9 DEF Promise!Step

\* An application answers the events in out, and the others stay as they are.
LEMMA OneProgress ==
    ASSUME TableInv, NEW p \in Pids, NEW out,
           Moves(apps[p], apps'[p], out, stopping), \A q \in Pids \ {p} : apps'[q] = apps[q],
           events' = Answer(events, out, "answered"), stopping' = stopping, records' = held',
           \A q \in Pids \ {p} : watched'[q] = watched[q], watched'[p] = apps'[p].flight.request,
           \A t \in threads' : t.pc \in Busy => t.request.generation = t.generation,
           \/ WakeIdleWaiters(idle, waiters, apps', held')
           \/ idle' = idle /\ waiters' = waiters /\ ran' = ran /\ out = {}
    PROVE  \E outs : Progress(outs)
<1> DEFINE outs == [q \in Pids |-> IF q = p THEN out ELSE {}]
<1>1. ASSUME NEW q \in Pids PROVE Moves(apps[q], apps'[q], outs[q], stopping)
  <2>1. CASE q = p
    BY <2>1
  <2>2. CASE q # p
    <3>1. Sound(apps[q], stopping) /\ apps'[q] = apps[q] /\ outs[q] = {}
      BY Zenon, <2>2 DEF TableInv
    <3> QED BY <3>1 DEF Moves, Settled, Follows
  <2> QED BY <2>1, <2>2
<1>2. UNION {outs[q] : q \in Pids} = out
  OBVIOUS
<1>3. \A q \in Pids : watched'[q] = apps'[q].flight.request
  BY DEF TableInv
<1>4. out = {} => \A q \in Pids : outs[q] = {}
  OBVIOUS
<1> HIDE DEF outs
<1>5. Progress(outs)
  BY Zenon, <1>1, <1>2, <1>3, <1>4 DEF Progress
<1> QED BY <1>5

\* A step that leaves the tables and the history as they are is no more than that.
LEMMA StillProgress ==
    ASSUME TypeOK, TableInv, UNCHANGED <<apps, held, stopping, idle, waiters, ran, events, records, watched>>,
           \A t \in threads' : t.pc \in Busy => t.request.generation = t.generation
    PROVE  \E outs : Progress(outs)
<1> DEFINE outs == [q \in Pids |-> {}]
<1>1. ASSUME NEW q \in Pids PROVE Moves(apps[q], apps'[q], outs[q], stopping)
  <2>1. Sound(apps[q], stopping) /\ apps'[q] = apps[q] /\ outs[q] = {}
    BY Zenon DEF TableInv
  <2> QED BY <2>1 DEF Moves, Settled, Follows
<1>2. events' = Answer(events, UNION {outs[q] : q \in Pids}, "answered")
  <2>1. UNION {outs[q] : q \in Pids} = {} /\ events \in Seq(Events) /\ events' = events
    BY DEF TypeOK
  <2> HIDE DEF outs
  <2> QED BY Zenon, <2>1, AnswerNothing
<1>3. \A q \in Pids : outs[q] = {}
  OBVIOUS
<1> HIDE DEF outs
<1>4. Progress(outs)
  BY Zenon, <1>1, <1>2, <1>3 DEF Progress, TableInv
<1> QED BY <1>4

\* Letting an application go, or leaving it as b, keeps the shell's records the
\* schedule's.
LEMMA LetGoTables ==
    ASSUME TypeOK, TableInv, NEW p \in held, NEW b \in Apps, NEW out,
           Moves(apps[p], b, out, stopping), Running(b.flight) => b.threaded, LetGoIfSpent(p, b)
    PROVE  /\ Moves(apps[p], apps'[p], out, stopping)
           /\ \A q \in Pids \ {p} : apps'[q] = apps[q]
           /\ records' = held' /\ apps'[p].flight.request = b.flight.request
<1>1. p \in Pids /\ apps \in [Pids -> Apps] /\ records = held
  BY Zenon DEF TypeOK, TableInv
<1>2. CASE Spent(b)
  <2>1. apps' = [apps EXCEPT ![p] = NoApp] /\ held' = held \ {p} /\ records' = records \ {p}
    BY <1>2 DEF LetGoIfSpent
  <2>2. Moves(apps[p], NoApp, out, stopping) /\ b.flight.request = NoRequest /\ NoApp.flight.request = NoRequest
    BY Zenon, <1>2, LetGoMoves
  <2> QED BY <1>1, <2>1, <2>2
<1>3. CASE ~Spent(b)
  <2>1. apps' = [apps EXCEPT ![p] = b] /\ held' = held /\ records' = records
    BY <1>3 DEF LetGoIfSpent
  <2> QED BY <1>1, <2>1
<1> QED BY <1>2, <1>3

\* A read under way has its thread.
LEMMA ReadIsManned ==
    ASSUME ThreadInv, NEW p \in Pids
    PROVE  Running(apps[p].flight) => apps[p].threaded
  BY DEF ThreadInv, Consistent, Reads, Placed

=============================================================================
