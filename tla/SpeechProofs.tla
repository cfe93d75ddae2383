---------------------------- MODULE SpeechProofs ----------------------------
(***************************************************************************)
(* The speech queue thread accounts for every utterance and keeps what was *)
(* cancelled, has expired or came after a pause from being heard, for any  *)
(* number of utterances, keys and foci.  The invariant Sound speaks of the *)
(* record the thread's operators work on; the lemmas take them one by one. *)
(***************************************************************************)
EXTENDS Speech, SequenceTheorems, FiniteSetTheorems, WellFoundedInduction, TLAPS

Queues ==
    [next : Seq(Utterances), queued : Seq(Utterances), inFlight : Utterances \cup {0},
     handedOn : SUBSET Utterances, paused : BOOLEAN, focus : Foci \cup {"none"},
     through : Keys \cup {0}, marked : SUBSET Utterances, running : BOOLEAN,
     held : SUBSET Utterances]

States ==
    [q : Queues, generation : Nat, under : [Utterances -> Int],
     ended : [Utterances -> {0, 1}], cut : [Utterances -> {0, 1}]]

Distinct(s) == \A i, j \in DOMAIN s : s[i] = s[j] => i = j

InLine(st) == ToSet(st.q.next) \cup ToSet(st.q.queued)
Handed(st) == {u \in Utterances : st.under[u] >= 0}
EndedHere(st) == {u \in Utterances : st.ended[u] = 1}

\* The lanes hold no utterance twice.
Lined(st) ==
    /\ Distinct(st.q.next) /\ Distinct(st.q.queued)
    /\ ToSet(st.q.next) \cap ToSet(st.q.queued) = {}

\* Those spoken, p, are each in one place; box are those in the inbox.
Places(st, p, box) ==
    /\ p = box \cup InLine(st) \cup Handed(st) \cup EndedHere(st)
    /\ box \cap InLine(st) = {} /\ box \cap Handed(st) = {} /\ box \cap EndedHere(st) = {}
    /\ InLine(st) \cap Handed(st) = {} /\ InLine(st) \cap EndedHere(st) = {}
    /\ Handed(st) \cap EndedHere(st) = {}

\* Marks are cut once, and only of what did not complete; t is what is told.
MarksOf(st, t) ==
    \A u \in Utterances :
        /\ u \in st.q.marked => st.cut[u] = 0 /\ st.under[u] >= 0
        /\ st.cut[u] = 1 => st.ended[u] = 1 \/ t[u].ending \in {"Cancelled", "Failed"}
        /\ st.ended[u] = 1 /\ HasMarks(u) => st.cut[u] = 1

\* Only what was handed on is told of.
ToldOf(st, t) ==
    \A u \in Utterances : t[u].ends = 1 \/ t[u].ending # "none" => st.under[u] >= 0

\* What counts as handed on is of the generation now.
Current(st) ==
    /\ \A u \in Utterances : st.under[u] <= st.generation
    /\ \A u \in st.q.handedOn : st.under[u] = st.generation

Fence(st) ==
    \A u \in Utterances : Fenced(st, u) => u \notin InLine(st) /\ st.under[u] # st.generation

Worth(st) == \A u \in st.q.handedOn : Holds(u, st.q.focus)

Older(st) ==
    st.q.paused => InLine(st) \cup {u \in Utterances : st.under[u] = st.generation} \subseteq st.q.held

Sound(st, t, p, box) ==
    /\ st \in States /\ Lined(st) /\ Places(st, p, box) /\ MarksOf(st, t) /\ ToldOf(st, t)
    /\ Current(st) /\ Fence(st) /\ Worth(st) /\ Older(st)

-----------------------------------------------------------------------------
(* The lanes change, and those of their utterances no longer in them, v,   *)
(* are in hand (counted with those of the inbox) until they are placed.    *)
Relaned(st, a, b) == [st EXCEPT !.q.next = a, !.q.queued = b]

\* Taking utterances from the lanes keeps the rest, while they are in hand.
LEMMA PullSound ==
    ASSUME NEW st, NEW t, NEW p, NEW box, Sound(st, t, p, box),
           NEW a \in Seq(Utterances), NEW b \in Seq(Utterances), NEW v,
           Distinct(a), Distinct(b), ToSet(a) \cap ToSet(b) = {},
           InLine(st) = v \cup ToSet(a) \cup ToSet(b),
           v \cap (ToSet(a) \cup ToSet(b)) = {}
    PROVE  Sound(Relaned(st, a, b), t, p, box \cup v)
<1> DEFINE c == Relaned(st, a, b)
<1>1. st \in States
  BY DEF Sound
<1>2. /\ c \in States /\ c.q.next = a /\ c.q.queued = b
      /\ c.q.handedOn = st.q.handedOn /\ c.q.paused = st.q.paused /\ c.q.focus = st.q.focus
      /\ c.q.through = st.q.through /\ c.q.marked = st.q.marked /\ c.q.held = st.q.held
      /\ c.generation = st.generation /\ c.under = st.under /\ c.ended = st.ended /\ c.cut = st.cut
  BY <1>1 DEF Relaned, States, Queues
<1> HIDE DEF c
<1>3. InLine(c) = ToSet(a) \cup ToSet(b) /\ Handed(c) = Handed(st) /\ EndedHere(c) = EndedHere(st)
  BY <1>2 DEF InLine, Handed, EndedHere
<1>4. Lined(c)
  BY <1>2 DEF Lined
<1>5. Places(c, p, box \cup v)
  BY <1>3 DEF Sound, Places
<1>6. MarksOf(c, t) /\ ToldOf(c, t) /\ Current(c) /\ Worth(c)
  BY <1>2 DEF Sound, MarksOf, ToldOf, Current, Worth
<1>7. Fence(c) /\ Older(c)
  BY <1>2, <1>3 DEF Sound, Fence, Fenced, Older
<1> QED
  BY <1>2, <1>4, <1>5, <1>6, <1>7 DEF Sound, c

\* What end_waiting writes.
Counted(f, us) == [u \in Utterances |-> IF u \in us THEN f[u] + 1 ELSE f[u]]
CountedMarks(f, us) == [u \in Utterances |-> IF u \in us /\ HasMarks(u) THEN f[u] + 1 ELSE f[u]]

\* What ending waiting utterances does, field by field (end_waiting).
LEMMA EndIs ==
    ASSUME NEW st \in States, NEW us
    PROVE  LET c == EndWaiting(st, us)
           IN  /\ c.q = st.q /\ c.generation = st.generation /\ c.under = st.under
               /\ c.ended = Counted(st.ended, us) /\ c.cut = CountedMarks(st.cut, us)
               /\ c.ended \in [Utterances -> {0, 1}] /\ c.cut \in [Utterances -> {0, 1}] => c \in States
<1> DEFINE c == EndWaiting(st, us)
           e == Counted(st.ended, us)
           k == CountedMarks(st.cut, us)
<1>1. c = [st EXCEPT !.ended = e, !.cut = k]
  BY DEF EndWaiting, Counted, CountedMarks
<1> HIDE DEF c, e, k
<1>2. /\ c.q = st.q /\ c.generation = st.generation /\ c.under = st.under
      /\ c.ended = e /\ c.cut = k
      /\ e \in [Utterances -> {0, 1}] /\ k \in [Utterances -> {0, 1}] => c \in States
  BY <1>1 DEF States
<1> QED
  BY <1>2 DEF c, e, k

(* end_waiting and fenced_off end utterances in hand, with their marks.    *)
LEMMA EndSound ==
    ASSUME NEW st, NEW t, NEW p, NEW box, Sound(st, t, p, box),
           NEW us, us \subseteq box, us \subseteq Utterances
    PROVE  Sound(EndWaiting(st, us), t, p, box \ us) /\ EndWaiting(st, us).q = st.q
<1> DEFINE c == EndWaiting(st, us)
<1>1. st \in States
  BY DEF Sound
<1>2. \A u \in us : st.ended[u] = 0 /\ st.cut[u] = 0 /\ u \notin st.q.marked
  <2> TAKE u \in us
  <2>1. u \in Utterances /\ u \notin Handed(st) /\ u \notin EndedHere(st)
    BY DEF Sound, Places
  <2>2. st.ended[u] # 1 /\ ~(st.under[u] >= 0)
    BY <2>1 DEF Handed, EndedHere
  <2>3. st.ended[u] \in {0, 1} /\ st.cut[u] \in {0, 1}
    BY <1>1, <2>1 DEF States
  <2>4. st.cut[u] # 1 /\ u \notin st.q.marked
    BY <2>1, <2>2 DEF Sound, MarksOf, ToldOf
  <2> QED
    BY <2>2, <2>3, <2>4
<1> DEFINE e == Counted(st.ended, us)
           k == CountedMarks(st.cut, us)
<1>a. /\ c.q = st.q /\ c.generation = st.generation /\ c.under = st.under
      /\ c.ended = e /\ c.cut = k
      /\ c.ended \in [Utterances -> {0, 1}] /\ c.cut \in [Utterances -> {0, 1}] => c \in States
  BY <1>1, EndIs
<1>b. /\ e \in [Utterances -> {0, 1}] /\ k \in [Utterances -> {0, 1}]
      /\ \A u \in Utterances : /\ e[u] = IF u \in us THEN 1 ELSE st.ended[u]
                               /\ k[u] = IF u \in us /\ HasMarks(u) THEN 1 ELSE st.cut[u]
  BY <1>1, <1>2 DEF States, Counted, CountedMarks
<1> HIDE DEF c, e, k
<1>3. /\ c.q = st.q /\ c.generation = st.generation /\ c.under = st.under
      /\ c.ended = e /\ c.cut = k /\ c \in States
  BY <1>a, <1>b
<1>4. \A u \in Utterances : /\ c.ended[u] = IF u \in us THEN 1 ELSE st.ended[u]
                            /\ c.cut[u] = IF u \in us /\ HasMarks(u) THEN 1 ELSE st.cut[u]
  BY <1>3, <1>b
<1>5. c \in States
  BY <1>3
<1>6. InLine(c) = InLine(st) /\ Handed(c) = Handed(st) /\ EndedHere(c) = EndedHere(st) \cup us
  BY <1>3, <1>4 DEF InLine, Handed, EndedHere
<1>7. Lined(c)
  BY <1>3 DEF Sound, Lined
<1>8. Places(c, p, box \ us)
  BY <1>6 DEF Sound, Places
<1>9. MarksOf(c, t)
  BY <1>2, <1>3, <1>4 DEF Sound, MarksOf
<1>10. ToldOf(c, t) /\ Current(c) /\ Worth(c)
  BY <1>3 DEF Sound, ToldOf, Current, Worth
<1>11. Fence(c) /\ Older(c)
  BY <1>3, <1>6 DEF Sound, Fence, Fenced, Older
<1> QED
  BY <1>3, <1>5, <1>7, <1>8, <1>9, <1>10, <1>11 DEF Sound, c

\* What stop_handed_on writes.
LEMMA StopIs ==
    ASSUME NEW st \in States
    PROVE  LET c == StopHandedOn(st)
           IN  /\ c \in States /\ c.q.next = st.q.next /\ c.q.queued = st.q.queued
               /\ c.q.handedOn = {} /\ c.q.paused = FALSE /\ c.q.focus = st.q.focus
               /\ c.q.through = st.q.through /\ c.q.marked = st.q.marked /\ c.q.held = st.q.held
               /\ c.generation = st.generation + 1 /\ c.under = st.under
               /\ c.ended = st.ended /\ c.cut = st.cut
<1> DEFINE c == StopHandedOn(st)
<1>1. /\ c = [st EXCEPT !.q = c.q, !.generation = c.generation]
      /\ c.q = [st.q EXCEPT !.handedOn = {}, !.paused = FALSE] /\ c.generation = st.generation + 1
  BY DEF StopHandedOn, States
<1> HIDE DEF c
<1>2. /\ c.q \in Queues /\ c.q.next = st.q.next /\ c.q.queued = st.q.queued
      /\ c.q.handedOn = {} /\ c.q.paused = FALSE /\ c.q.focus = st.q.focus
      /\ c.q.through = st.q.through /\ c.q.marked = st.q.marked /\ c.q.held = st.q.held
  <2>1. st.q \in Queues
    BY DEF States
  <2> QED
    BY <1>1, <2>1 DEF Queues
<1>3. st.generation \in Nat /\ c.generation \in Nat
  BY <1>1 DEF States
<1>4. c \in States /\ c.under = st.under /\ c.ended = st.ended /\ c.cut = st.cut
  BY <1>1, <1>2, <1>3 DEF States
<1> QED
  BY <1>1, <1>2, <1>4 DEF c

(* stop_handed_on raises the generation: nothing handed on counts any more.*)
LEMMA StopSound ==
    ASSUME NEW st, NEW t, NEW p, NEW box, Sound(st, t, p, box)
    PROVE  /\ Sound(StopHandedOn(st), t, p, box)
           /\ \A u \in Utterances : /\ StopHandedOn(st).under[u] < StopHandedOn(st).generation
                                    /\ StopHandedOn(st).under[u] # StopHandedOn(st).generation
<1> DEFINE c == StopHandedOn(st)
<1>1. st \in States
  BY DEF Sound
<1>2. /\ c \in States /\ c.q.next = st.q.next /\ c.q.queued = st.q.queued
      /\ c.q.handedOn = {} /\ c.q.paused = FALSE /\ c.q.through = st.q.through
      /\ c.q.marked = st.q.marked
      /\ c.generation = st.generation + 1 /\ c.under = st.under
      /\ c.ended = st.ended /\ c.cut = st.cut
  BY <1>1, StopIs
<1> HIDE DEF c
<1>3. InLine(c) = InLine(st) /\ Handed(c) = Handed(st) /\ EndedHere(c) = EndedHere(st)
  BY <1>2 DEF InLine, Handed, EndedHere
<1>4. Lined(c) /\ Places(c, p, box) /\ MarksOf(c, t) /\ ToldOf(c, t)
  <2>1. Lined(c) /\ Places(c, p, box)
    BY <1>2, <1>3 DEF Sound, Lined, Places
  <2>2. MarksOf(c, t) /\ ToldOf(c, t)
    BY <1>2 DEF Sound, MarksOf, ToldOf
  <2> QED
    BY <2>1, <2>2
<1>5. ASSUME NEW u \in Utterances
      PROVE  c.under[u] < c.generation /\ c.under[u] <= c.generation /\ c.under[u] # c.generation
  <2> DEFINE x == st.under[u]
             g == st.generation
  <2>1. x \in Int /\ g \in Int /\ x <= g
    BY <1>1 DEF Sound, Current, States
  <2>2. c.under[u] = x /\ c.generation = g + 1
    BY <1>2
  <2> HIDE DEF x, g
  <2> QED
    BY <2>1, <2>2
<1>6. \A u \in Utterances :
          c.under[u] < c.generation /\ c.under[u] <= c.generation /\ c.under[u] # c.generation
  BY <1>5
<1>7. Current(c) /\ Worth(c) /\ Older(c)
  BY <1>2, <1>6 DEF Current, Worth, Older
<1>8. Fence(c)
  BY <1>2, <1>3, <1>6 DEF Sound, Fence, Fenced
<1> QED
  BY <1>2, <1>4, <1>6, <1>7, <1>8 DEF Sound, c

(* An utterance in hand is handed on under the generation now.             *)
HandedOver(st, u) ==
    [st EXCEPT !.q.handedOn = @ \cup {u}, !.q.inFlight = u,
               !.q.marked = IF HasMarks(u) THEN @ \cup {u} ELSE @, !.under[u] = st.generation]

\* An utterance pulled from the line is handed to the synth thread (pump).
LEMMA HandSound ==
    ASSUME NEW st, NEW t, NEW p, NEW box, Sound(st, t, p, box),
           NEW u \in Utterances, u \in box, Holds(u, st.q.focus), ~Fenced(st, u),
           st.q.paused => u \in st.q.held
    PROVE  Sound(HandedOver(st, u), t, p, box \ {u})
<1> DEFINE c == HandedOver(st, u)
<1>1. st \in States
  BY DEF Sound
<1>2. /\ u \notin Handed(st) /\ u \notin EndedHere(st) /\ u \notin InLine(st)
      /\ ~(st.under[u] >= 0) /\ st.ended[u] # 1 /\ st.cut[u] # 1
  <2>1. u \notin Handed(st) /\ u \notin EndedHere(st) /\ u \notin InLine(st)
    BY DEF Sound, Places
  <2>2. st.ended[u] # 1 /\ ~(st.under[u] >= 0)
    BY <2>1 DEF Handed, EndedHere
  <2> QED
    BY <2>1, <2>2 DEF Sound, MarksOf, ToldOf
<1>3. st.cut[u] = 0
  BY <1>1, <1>2 DEF States
<1> DEFINE mk == IF HasMarks(u) THEN st.q.marked \cup {u} ELSE st.q.marked
<1>4. /\ c \in States /\ c.q.next = st.q.next /\ c.q.queued = st.q.queued
      /\ c.q.handedOn = st.q.handedOn \cup {u} /\ c.q.paused = st.q.paused
      /\ c.q.through = st.q.through /\ c.q.focus = st.q.focus /\ c.q.held = st.q.held
      /\ c.q.marked \subseteq st.q.marked \cup {u}
      /\ c.generation = st.generation /\ c.under = [st.under EXCEPT ![u] = st.generation]
      /\ c.ended = st.ended /\ c.cut = st.cut
  <2>1. /\ c = [st EXCEPT !.q = c.q, !.under = c.under]
        /\ c.q = [st.q EXCEPT !.handedOn = st.q.handedOn \cup {u}, !.inFlight = u, !.marked = mk]
        /\ c.under = [st.under EXCEPT ![u] = st.generation]
    BY <1>1 DEF HandedOver, States
  <2> HIDE DEF c
  <2>2. /\ c.q \in Queues /\ c.q.next = st.q.next /\ c.q.queued = st.q.queued
        /\ c.q.handedOn = st.q.handedOn \cup {u} /\ c.q.paused = st.q.paused
        /\ c.q.through = st.q.through /\ c.q.focus = st.q.focus /\ c.q.held = st.q.held
        /\ c.q.marked \subseteq st.q.marked \cup {u}
    <3>1. st.q \in Queues
      BY <1>1 DEF States
    <3>2. mk \subseteq st.q.marked \cup {u}
      OBVIOUS
    <3> HIDE DEF mk
    <3>3. mk \in SUBSET Utterances /\ st.q.handedOn \cup {u} \in SUBSET Utterances
      BY <3>1, <3>2 DEF Queues
    <3> QED
      BY <2>1, <3>1, <3>2, <3>3 DEF Queues
  <2>3. c.under \in [Utterances -> Int]
    BY <1>1, <2>1 DEF States
  <2> QED
    BY <1>1, <2>1, <2>2, <2>3 DEF States
<1>5. /\ st.generation \in Nat
      /\ \A v \in Utterances : c.under[v] = IF v = u THEN st.generation ELSE st.under[v]
  BY <1>1, <1>4 DEF States
<1> HIDE DEF c
<1>6. InLine(c) = InLine(st) /\ Handed(c) = Handed(st) \cup {u} /\ EndedHere(c) = EndedHere(st)
  BY <1>4, <1>5 DEF InLine, Handed, EndedHere
<1>7. Lined(c)
  BY <1>4 DEF Sound, Lined
<1>8. Places(c, p, box \ {u})
  BY <1>2, <1>6 DEF Sound, Places
<1>9. MarksOf(c, t)
  BY <1>3, <1>4, <1>5 DEF Sound, MarksOf
<1>10. ToldOf(c, t) /\ Current(c) /\ Worth(c)
  BY <1>4, <1>5 DEF Sound, ToldOf, Current, Worth
<1>11. Fence(c) /\ Older(c)
  BY <1>4, <1>5, <1>6 DEF Sound, Fence, Fenced, Older
<1> QED
  BY <1>4, <1>7, <1>8, <1>9, <1>10, <1>11 DEF Sound, c

\* Two sequences with the same elements on two sets of indices.
LEMMA SameElements ==
    ASSUME NEW f, NEW g, NEW S, NEW T,
           \A i \in S : \E j \in T : f[i] = g[j],
           \A j \in T : \E i \in S : g[j] = f[i]
    PROVE  {f[i] : i \in S} = {g[j] : j \in T}
  OBVIOUS

(* The first k of a line of two lanes leave it: what stays is the rest of  *)
(* each lane, and no utterance is in both parts.                           *)
LEMMA LineSplit ==
    ASSUME NEW a \in Seq(Utterances), NEW b \in Seq(Utterances),
           Distinct(a), Distinct(b), ToSet(a) \cap ToSet(b) = {},
           NEW k \in Nat \ {0}
    PROVE  LET line == a \o b
               na == SubSeq(a, k + 1, Len(a))
               nb == IF k > Len(a) THEN SubSeq(b, k - Len(a) + 1, Len(b)) ELSE b
           IN  /\ na \in Seq(Utterances) /\ nb \in Seq(Utterances)
               /\ Distinct(na) /\ Distinct(nb) /\ ToSet(na) \cap ToSet(nb) = {}
               /\ Distinct(line) /\ ToSet(line) = ToSet(a) \cup ToSet(b)
               /\ ToSet(na) \cup ToSet(nb) = {line[i] : i \in {j \in DOMAIN line : j > k}}
<1> DEFINE line == a \o b
           n == Len(a)
           m == Len(b)
           na == SubSeq(a, k + 1, n)
           nb == IF k > n THEN SubSeq(b, k - n + 1, m) ELSE b
           lo == IF k > n THEN k - n ELSE 0
<1>1. /\ n \in Nat /\ m \in Nat /\ DOMAIN a = 1..n /\ DOMAIN b = 1..m
      /\ DOMAIN line = 1..(n + m) /\ line \in Seq(Utterances)
      /\ \A i \in 1..n : line[i] = a[i]
      /\ \A i \in 1..m : line[n + i] = b[i]
  OBVIOUS
<1>2. na \in Seq(Utterances) /\ ToSet(na) = {a[i] : i \in (k + 1)..n} /\ Distinct(na)
  <2>1. CASE k + 1 <= n
    <3>1. /\ na \in Seq(Utterances) /\ DOMAIN na = 1..(n - k)
          /\ \A i \in 1..(n - k) : na[i] = a[k + i]
      BY <1>1, <2>1
    <3>2. \A i \in (k + 1)..n : i - k \in 1..(n - k) /\ na[i - k] = a[i]
      BY <1>1, <3>1
    <3>3. ToSet(na) = {a[i] : i \in (k + 1)..n}
      <4>1. \A i \in (k + 1)..n : \E j \in DOMAIN na : a[i] = na[j]
        BY <3>1, <3>2
      <4>2. \A j \in DOMAIN na : k + j \in (k + 1)..n /\ na[j] = a[k + j]
        BY <1>1, <3>1
      <4>3. \A j \in DOMAIN na : \E i \in (k + 1)..n : na[j] = a[i]
        BY <4>2
      <4> HIDE DEF na, n
      <4>4. {na[j] : j \in DOMAIN na} = {a[i] : i \in (k + 1)..n}
        BY <4>1, <4>3, SameElements
      <4> QED
        BY <4>4 DEF ToSet
    <3>4. Distinct(na)
      BY <1>1, <3>1 DEF Distinct
    <3> QED
      BY <3>1, <3>3, <3>4
  <2>2. CASE ~(k + 1 <= n)
    <3>1. na = <<>> /\ (k + 1)..n = {}
      BY <1>1, <2>2
    <3> QED
      BY <3>1 DEF ToSet, Distinct
  <2> QED
    BY <2>1, <2>2
<1>3. nb \in Seq(Utterances) /\ ToSet(nb) = {b[i] : i \in (lo + 1)..m} /\ Distinct(nb)
  <2>1. CASE k > n /\ k - n + 1 <= m
    <3>1. /\ nb \in Seq(Utterances) /\ DOMAIN nb = 1..(m - lo)
          /\ \A i \in 1..(m - lo) : nb[i] = b[lo + i]
      BY <1>1, <2>1
    <3>2. \A i \in (lo + 1)..m : i - lo \in 1..(m - lo) /\ nb[i - lo] = b[i]
      BY <1>1, <2>1, <3>1
    <3>3. ToSet(nb) = {b[i] : i \in (lo + 1)..m}
      <4>1. \A i \in (lo + 1)..m : \E j \in DOMAIN nb : b[i] = nb[j]
        BY <3>1, <3>2
      <4>2. \A j \in DOMAIN nb : lo + j \in (lo + 1)..m /\ nb[j] = b[lo + j]
        BY <1>1, <2>1, <3>1
      <4>3. \A j \in DOMAIN nb : \E i \in (lo + 1)..m : nb[j] = b[i]
        BY <4>2
      <4> HIDE DEF nb, m, lo
      <4>4. {nb[j] : j \in DOMAIN nb} = {b[i] : i \in (lo + 1)..m}
        BY <4>1, <4>3, SameElements
      <4> QED
        BY <4>4 DEF ToSet
    <3>4. Distinct(nb)
      BY <1>1, <2>1, <3>1 DEF Distinct
    <3> QED
      BY <3>1, <3>3, <3>4
  <2>2. CASE k > n /\ ~(k - n + 1 <= m)
    <3>1. nb = <<>> /\ (lo + 1)..m = {}
      BY <1>1, <2>2
    <3> QED
      BY <3>1 DEF ToSet, Distinct
  <2>3. CASE ~(k > n)
    <3>1. nb = b /\ lo = 0
      BY <2>3
    <3> HIDE DEF lo
    <3>2. lo + 1 = 1
      BY <3>1
    <3>3. (lo + 1)..m = DOMAIN b
      BY <1>1, <3>2
    <3> QED
      BY <3>1, <3>3 DEF ToSet
  <2> QED
    BY <2>1, <2>2, <2>3
<1>4. ToSet(a) = {a[i] : i \in 1..n} /\ ToSet(b) = {b[i] : i \in 1..m}
  BY <1>1 DEF ToSet
<1>5. ToSet(na) \subseteq ToSet(a) /\ ToSet(nb) \subseteq ToSet(b)
  <2>1. (k + 1)..n \subseteq 1..n /\ (lo + 1)..m \subseteq 1..m
    BY <1>1
  <2> QED
    BY <1>2, <1>3, <1>4, <2>1
<1>6. \A i \in DOMAIN line : \/ i \in 1..n /\ line[i] = a[i] /\ line[i] \in ToSet(a)
                             \/ i - n \in 1..m /\ line[i] = b[i - n] /\ line[i] \in ToSet(b)
  <2> TAKE i \in DOMAIN line
  <2>1. CASE i <= n
    BY <1>1, <1>4, <2>1
  <2>2. CASE i > n
    <3>1. i - n \in 1..m /\ n + (i - n) = i
      BY <1>1, <2>2
    <3> QED
      BY <1>1, <1>4, <3>1
  <2> QED
    BY <1>1, <2>1, <2>2
<1>7. Distinct(line)
  <2> SUFFICES ASSUME NEW i \in DOMAIN line, NEW j \in DOMAIN line, line[i] = line[j]
               PROVE  i = j
    BY DEF Distinct
  <2>1. CASE i \in 1..n /\ line[i] = a[i] /\ line[i] \in ToSet(a)
    <3>1. j \in 1..n /\ line[j] = a[j]
      BY <1>6, <2>1
    <3> QED
      BY <1>1, <2>1, <3>1 DEF Distinct
  <2>2. CASE i - n \in 1..m /\ line[i] = b[i - n] /\ line[i] \in ToSet(b)
    <3>1. j - n \in 1..m /\ line[j] = b[j - n]
      BY <1>6, <2>2
    <3>2. i - n = j - n
      BY <1>1, <2>2, <3>1 DEF Distinct
    <3> QED
      BY <1>1, <3>2
  <2> QED
    BY <1>6, <2>1, <2>2
<1>8. ToSet(line) = ToSet(a) \cup ToSet(b)
  <2>1. ToSet(line) = {line[i] : i \in DOMAIN line}
    BY DEF ToSet
  <2>2. \A i \in 1..n : i \in DOMAIN line /\ line[i] = a[i]
    BY <1>1
  <2>3. \A i \in 1..m : n + i \in DOMAIN line /\ line[n + i] = b[i]
    BY <1>1
  <2> HIDE DEF line, n, m
  <2>4. ToSet(line) \subseteq ToSet(a) \cup ToSet(b)
    BY <1>6, <2>1
  <2>5. ToSet(a) \subseteq ToSet(line)
    BY <1>4, <2>1, <2>2
  <2>6. ToSet(b) \subseteq ToSet(line)
    BY <1>4, <2>1, <2>3
  <2> QED
    BY <2>4, <2>5, <2>6
<1>9. ToSet(na) \cup ToSet(nb) = {line[i] : i \in {j \in DOMAIN line : j > k}}
  <2>1. \A i \in (k + 1)..n : i \in DOMAIN line /\ i > k /\ line[i] = a[i]
    BY <1>1
  <2>2. \A i \in (lo + 1)..m : n + i \in DOMAIN line /\ n + i > k /\ line[n + i] = b[i]
    BY <1>1
  <2>3. \A i \in DOMAIN line : i > k => \/ i \in (k + 1)..n /\ line[i] = a[i]
                                        \/ i - n \in (lo + 1)..m /\ line[i] = b[i - n]
    BY <1>1, <1>6
  <2> HIDE DEF line, n, m, na, nb, lo
  <2> DEFINE after == {j \in DOMAIN line : j > k}
  <2>4. ToSet(na) \subseteq {line[i] : i \in after}
    BY <1>2, <2>1
  <2>5. ToSet(nb) \subseteq {line[i] : i \in after}
    BY <1>3, <2>2
  <2>6. {line[i] : i \in after} \subseteq ToSet(na) \cup ToSet(nb)
    BY <1>2, <1>3, <2>3
  <2> QED
    BY <2>4, <2>5, <2>6
<1> QED
  BY <1>2, <1>3, <1>5, <1>7, <1>8, <1>9

\* A set of naturals has a first one.
LEMMA FirstOf ==
    ASSUME NEW T \in SUBSET Nat, T # {}
    PROVE  \E x \in T : \A y \in T : x <= y
<1>1. \E x \in T : \A y \in T : ~(<<y, x>> \in OpToRel(<, Nat))
  BY NatLessThanWellFounded, WFMin
<1>2. \A x, y \in Nat : x < y => <<x, y>> \in OpToRel(<, Nat)
  BY Zenon DEF OpToRel
<1>3. \E x \in T : \A y \in T : ~(y < x)
  BY Zenon, <1>1, <1>2
<1> QED
  BY <1>3

(* pump ends those whose turn came after their focus had moved on, and     *)
(* hands on the first that is worth hearing.                               *)
LEMMA PumpSound ==
    ASSUME NEW st, NEW t, NEW p, NEW box, Sound(st, t, p, box)
    PROVE  Sound(Pump(st), t, p, box)
<1> DEFINE a == st.q.next
           b == st.q.queued
           line == a \o b
           good == {i \in DOMAIN line : Holds(line[i], st.q.focus)}
           k == IF good = {} THEN Len(line) + 1 ELSE CHOOSE i \in good : \A j \in good : i <= j
           na == SubSeq(a, k + 1, Len(a))
           nb == IF k > Len(a) THEN SubSeq(b, k - Len(a) + 1, Len(b)) ELSE b
           gone == ToSet(SubSeq(line, 1, k - 1))
           rest == EndWaiting(Relaned(st, na, nb), gone)
<1>4. Pump(st) = IF st.q.inFlight # 0 THEN st ELSE IF k > Len(line) THEN rest ELSE HandedOver(rest, line[k])
  BY DEF Pump, HandedOver, Relaned
<1>1. /\ st \in States /\ a \in Seq(Utterances) /\ b \in Seq(Utterances)
      /\ Distinct(a) /\ Distinct(b) /\ ToSet(a) \cap ToSet(b) = {} /\ InLine(st) = ToSet(a) \cup ToSet(b)
  BY DEF Sound, States, Queues, Lined, InLine
<1> HIDE DEF a, b
<1>2. /\ line \in Seq(Utterances) /\ DOMAIN line = 1..Len(line) /\ Len(line) \in Nat
  BY <1>1
<1> HIDE DEF line
<1>3. /\ k \in Nat \ {0} /\ k <= Len(line) + 1
      /\ k <= Len(line) => k \in DOMAIN line /\ Holds(line[k], st.q.focus)
  <2>1. CASE good = {}
    <3>1. k = Len(line) + 1
      BY <2>1
    <3> HIDE DEF k
    <3> QED
      BY <1>2, <3>1
  <2>2. CASE good # {}
    <3>1. good \in SUBSET Nat
      BY <1>2
    <3>2. \E i \in good : \A j \in good : i <= j
      <4> HIDE DEF good
      <4> QED
        BY <2>2, <3>1, FirstOf
    <3>3. k \in good
      <4> HIDE DEF good
      <4> QED
        BY <2>2, <3>2
    <3> HIDE DEF k
    <3> QED
      BY <1>2, <3>3
  <2> QED
    BY <2>1, <2>2
<1> HIDE DEF k, rest
<1>5. /\ na \in Seq(Utterances) /\ nb \in Seq(Utterances)
      /\ Distinct(na) /\ Distinct(nb) /\ ToSet(na) \cap ToSet(nb) = {}
      /\ Distinct(line) /\ ToSet(line) = InLine(st)
      /\ ToSet(na) \cup ToSet(nb) = {line[i] : i \in {j \in DOMAIN line : j > k}}
  BY <1>1, <1>3, LineSplit DEF line
<1> DEFINE v == {line[i] : i \in {j \in DOMAIN line : j <= k}}
<1> HIDE DEF line, na, nb
<1>6. InLine(st) = v \cup ToSet(na) \cup ToSet(nb) /\ v \cap (ToSet(na) \cup ToSet(nb)) = {}
  <2>1. InLine(st) = {line[i] : i \in DOMAIN line}
    BY <1>5 DEF ToSet
  <2>2. \A i \in DOMAIN line : i <= k \/ i > k
    BY <1>2, <1>3
  <2>3. \A i, j \in DOMAIN line : i <= k /\ j > k => line[i] # line[j]
    BY <1>2, <1>3, <1>5 DEF Distinct
  <2> QED
    BY <1>5, <2>1, <2>2, <2>3
<1>7. Sound(Relaned(st, na, nb), t, p, box \cup v)
  BY <1>5, <1>6, PullSound
<1>8. gone = {line[i] : i \in {j \in DOMAIN line : j < k}}
  <2>1. /\ DOMAIN SubSeq(line, 1, k - 1) = 1..(k - 1)
        /\ \A i \in 1..(k - 1) : SubSeq(line, 1, k - 1)[i] = line[i]
    BY <1>2, <1>3
  <2>2. 1..(k - 1) = {j \in DOMAIN line : j < k}
    BY <1>2, <1>3
  <2> QED
    BY <2>1, <2>2 DEF ToSet
<1>9. gone \subseteq v /\ v \subseteq InLine(st) /\ InLine(st) \subseteq Utterances
  <2>1. {j \in DOMAIN line : j < k} \subseteq {j \in DOMAIN line : j <= k}
    BY <1>2, <1>3
  <2>2. InLine(st) \subseteq Utterances
    BY <1>1, <1>2, <1>5 DEF ToSet
  <2> QED
    BY <1>6, <1>8, <2>1, <2>2
<1> HIDE DEF gone
<1>10. Sound(rest, t, p, (box \cup v) \ gone)
  BY <1>7, <1>9, EndSound DEF rest
<1>11. box \cap InLine(st) = {}
  BY DEF Sound, Places
<1>12. CASE st.q.inFlight # 0
  BY <1>4, <1>12
<1>13. CASE st.q.inFlight = 0 /\ k > Len(line)
  <2>1. {j \in DOMAIN line : j < k} = {j \in DOMAIN line : j <= k}
    BY <1>2, <1>3, <1>13
  <2>2. (box \cup v) \ gone = box
    BY <1>8, <1>9, <1>11, <2>1
  <2> QED
    BY <1>4, <1>10, <1>13, <2>2
<1>14. CASE st.q.inFlight = 0 /\ ~(k > Len(line))
  <2> DEFINE u == line[k]
  <2>1. k \in DOMAIN line /\ Holds(u, st.q.focus)
    BY <1>2, <1>3, <1>14
  <2>2. u \in v
    BY <1>2, <1>3, <2>1
  <2>3. u \notin gone
    BY <1>2, <1>3, <1>5, <1>8, <2>1 DEF Distinct
  <2>4. v = gone \cup {u}
    <3>1. {j \in DOMAIN line : j <= k} = {j \in DOMAIN line : j < k} \cup {k}
      BY <1>2, <1>3, <2>1
    <3> QED
      BY <1>8, <3>1
  <2>5. (box \cup v) \ gone = box \cup {u} /\ (box \cup {u}) \ {u} = box
    BY <1>9, <1>11, <2>2, <2>3, <2>4
  <2>6. /\ rest.q.focus = st.q.focus /\ rest.q.through = st.q.through
        /\ rest.q.paused = st.q.paused /\ rest.q.held = st.q.held
    BY <1>1 DEF rest, EndWaiting, Relaned, States, Queues
  <2> HIDE DEF u, v
  <2>7. u \in Utterances /\ ~Fenced(st, u) /\ (st.q.paused => u \in st.q.held)
    BY <1>9, <2>2 DEF Sound, Fence, Older
  <2>8. Holds(u, rest.q.focus) /\ ~Fenced(rest, u) /\ (rest.q.paused => u \in rest.q.held)
    BY <2>1, <2>6, <2>7 DEF Fenced
  <2>9. Sound(HandedOver(rest, u), t, p, box)
    BY <1>10, <2>5, <2>7, <2>8, HandSound
  <2> QED
    BY <1>4, <1>14, <2>9 DEF u
<1> QED
  BY <1>12, <1>13, <1>14

(* cancel_everything ends what waits and stops what was handed on.         *)
LEMMA CancelSound ==
    ASSUME NEW st, NEW t, NEW p, NEW box, Sound(st, t, p, box)
    PROVE  LET c == CancelEverything(st)
           IN  /\ Sound(c, t, p, box)
               /\ c.q.next = <<>> /\ c.q.queued = <<>> /\ InLine(c) = {} /\ ~c.q.paused
               /\ c.q.through = st.q.through
               /\ \A u \in Utterances : c.under[u] # c.generation
<1> DEFINE e == EndWaiting(Relaned(st, <<>>, <<>>), InLine(st))
           c == CancelEverything(st)
<1>1. st \in States
  BY DEF Sound
<1>2. InLine(st) \subseteq Utterances /\ box \cap InLine(st) = {}
  <2>1. st.q.next \in Seq(Utterances) /\ st.q.queued \in Seq(Utterances)
    BY <1>1 DEF States, Queues, Queues
  <2>2. ToSet(st.q.next) \subseteq Utterances /\ ToSet(st.q.queued) \subseteq Utterances
    BY <2>1 DEF ToSet
  <2> QED
    BY <2>2 DEF InLine, Sound, Places
<1>3. c = StopHandedOn(e)
  BY DEF CancelEverything, Relaned, InLine
<1>4. /\ <<>> \in Seq(Utterances) /\ Distinct(<<>>) /\ ToSet(<<>>) = {}
  BY DEF Distinct, ToSet
<1>5. Sound(Relaned(st, <<>>, <<>>), t, p, box \cup InLine(st))
  BY <1>4, PullSound
<1>6. /\ Sound(e, t, p, (box \cup InLine(st)) \ InLine(st)) /\ e \in States
      /\ e.q = Relaned(st, <<>>, <<>>).q
  <2>1. InLine(st) \subseteq box \cup InLine(st)
    OBVIOUS
  <2>2. Sound(e, t, p, (box \cup InLine(st)) \ InLine(st)) /\ e.q = Relaned(st, <<>>, <<>>).q
    BY ZenonT(60), <1>2, <1>5, <2>1, EndSound
  <2> HIDE DEF e
  <2> QED BY Zenon, <2>2 DEF Sound
<1>7. (box \cup InLine(st)) \ InLine(st) = box
  BY <1>2
<1>8. c.q.next = <<>> /\ c.q.queued = <<>> /\ c.q.through = st.q.through /\ ~c.q.paused
  <2>1. LET r == Relaned(st, <<>>, <<>>)
        IN  r.q.next = <<>> /\ r.q.queued = <<>> /\ r.q.through = st.q.through
    BY <1>1 DEF Relaned, States, Queues
  <2> HIDE DEF c, e
  <2> QED
    BY <1>3, <1>6, <2>1, StopIs
<1>9. InLine(c) = {}
  BY <1>4, <1>8 DEF InLine
<1> HIDE DEF e
<1> QED
  BY <1>3, <1>6, <1>7, <1>8, <1>9, StopSound

(* An utterance in hand joins a lane; speech is not paused then.           *)
LEMMA JoinSound ==
    ASSUME NEW st, NEW t, NEW p, NEW box, Sound(st, t, p, box), ~st.q.paused,
           NEW u \in Utterances, u \in box, ~Fenced(st, u)
    PROVE  /\ Sound([st EXCEPT !.q.next = Append(@, u)], t, p, box \ {u})
           /\ Sound([st EXCEPT !.q.queued = Append(@, u)], t, p, box \ {u})
<1>1. st \in States /\ st.q.next \in Seq(Utterances) /\ st.q.queued \in Seq(Utterances)
  BY DEF Sound, States, Queues
<1>2. u \notin InLine(st)
  BY DEF Sound, Places
<1>3. ASSUME NEW s \in Seq(Utterances), Distinct(s), u \notin ToSet(s)
      PROVE  /\ Append(s, u) \in Seq(Utterances) /\ Distinct(Append(s, u))
             /\ ToSet(Append(s, u)) = ToSet(s) \cup {u}
  <2>1. /\ Append(s, u) \in Seq(Utterances) /\ Len(s) \in Nat /\ DOMAIN s = 1..Len(s)
        /\ DOMAIN Append(s, u) = 1..(Len(s) + 1)
        /\ Append(s, u)[Len(s) + 1] = u
        /\ \A i \in 1..Len(s) : Append(s, u)[i] = s[i]
    OBVIOUS
  <2>2. \A i \in 1..(Len(s) + 1) : i \in 1..Len(s) \/ i = Len(s) + 1
    BY <2>1
  <2>3. \A i \in 1..Len(s) : s[i] # u /\ i \in 1..(Len(s) + 1)
    BY <1>3, <2>1 DEF ToSet
  <2>4. ToSet(Append(s, u)) = ToSet(s) \cup {u}
    BY <2>1, <2>2, <2>3 DEF ToSet
  <2>5. Distinct(Append(s, u))
    BY <1>3, <2>1, <2>2, <2>3 DEF Distinct
  <2> QED
    BY <2>1, <2>4, <2>5
<1>4. ASSUME NEW a \in Seq(Utterances), NEW b \in Seq(Utterances),
             Distinct(a), Distinct(b), ToSet(a) \cap ToSet(b) = {},
             ToSet(a) \cup ToSet(b) = InLine(st) \cup {u}
      PROVE  Sound(Relaned(st, a, b), t, p, box \ {u})
  <2> DEFINE c == Relaned(st, a, b)
  <2>1. /\ c \in States /\ c.q.next = a /\ c.q.queued = b
        /\ c.q.handedOn = st.q.handedOn /\ c.q.paused = st.q.paused /\ c.q.focus = st.q.focus
        /\ c.q.through = st.q.through /\ c.q.marked = st.q.marked
        /\ c.generation = st.generation /\ c.under = st.under /\ c.ended = st.ended /\ c.cut = st.cut
    BY <1>1 DEF Relaned, States, Queues
  <2> HIDE DEF c
  <2>2. /\ InLine(c) = InLine(st) \cup {u}
        /\ Handed(c) = Handed(st) /\ EndedHere(c) = EndedHere(st)
    BY <1>4, <2>1 DEF InLine, Handed, EndedHere
  <2>3. Lined(c)
    BY <1>4, <2>1 DEF Lined
  <2>4. Places(c, p, box \ {u})
    BY <2>2 DEF Sound, Places
  <2>5. MarksOf(c, t) /\ ToldOf(c, t) /\ Current(c) /\ Worth(c)
    BY <2>1 DEF Sound, MarksOf, ToldOf, Current, Worth
  <2>6. st.under[u] # st.generation
    <3>1. u \notin Handed(st) /\ st.generation >= 0
      BY <1>1 DEF Sound, Places, States, Queues
    <3> QED
      BY <3>1 DEF Handed
  <2>7. Fence(c)
    BY <2>1, <2>2 DEF Sound, Fence, Fenced
  <2>8. Older(c)
    BY <2>1 DEF Older
  <2> QED
    BY <2>1, <2>3, <2>4, <2>5, <2>7, <2>8 DEF Sound, c
<1>5. Sound(Relaned(st, Append(st.q.next, u), st.q.queued), t, p, box \ {u})
  <2> DEFINE a == Append(st.q.next, u)
             b == st.q.queued
  <2>1. /\ a \in Seq(Utterances) /\ Distinct(a) /\ ToSet(a) = ToSet(st.q.next) \cup {u}
    BY <1>1, <1>2, <1>3 DEF InLine, Sound, Lined
  <2>2. b \in Seq(Utterances) /\ Distinct(b) /\ ToSet(a) \cap ToSet(b) = {}
    BY <1>1, <1>2, <2>1 DEF InLine, Sound, Lined
  <2>3. ToSet(a) \cup ToSet(b) = InLine(st) \cup {u}
    BY <2>1 DEF InLine
  <2> HIDE DEF a, b
  <2>4. Sound(Relaned(st, a, b), t, p, box \ {u})
    BY <1>4, <2>1, <2>2, <2>3
  <2> QED
    BY <2>4 DEF a, b
<1>6. Sound(Relaned(st, st.q.next, Append(st.q.queued, u)), t, p, box \ {u})
  <2> DEFINE a == st.q.next
             b == Append(st.q.queued, u)
  <2>1. /\ b \in Seq(Utterances) /\ Distinct(b) /\ ToSet(b) = ToSet(st.q.queued) \cup {u}
    BY <1>1, <1>2, <1>3 DEF InLine, Sound, Lined
  <2>2. a \in Seq(Utterances) /\ Distinct(a) /\ ToSet(a) \cap ToSet(b) = {}
    BY <1>1, <1>2, <2>1 DEF InLine, Sound, Lined
  <2>3. ToSet(a) \cup ToSet(b) = InLine(st) \cup {u}
    BY <2>1 DEF InLine
  <2> HIDE DEF a, b
  <2>4. Sound(Relaned(st, a, b), t, p, box \ {u})
    BY <1>4, <2>1, <2>2, <2>3
  <2> QED
    BY <2>4 DEF a, b
<1>7. /\ Relaned(st, Append(st.q.next, u), st.q.queued) = [st EXCEPT !.q.next = Append(@, u)]
      /\ Relaned(st, st.q.next, Append(st.q.queued, u)) = [st EXCEPT !.q.queued = Append(@, u)]
  BY <1>1 DEF Relaned, States, Queues
<1> QED
  BY <1>5, <1>6, <1>7

(* speak: what comes while speech is paused, or interrupts, cancels first. *)
LEMMA SpeakSound ==
    ASSUME NEW st, NEW t, NEW p, NEW box, Sound(st, t, p, box),
           NEW u \in Utterances, u \in box, ~Fenced(st, u)
    PROVE  Sound(Speak(st, u), t, p, box \ {u})
<1> DEFINE s1 == IF st.q.paused THEN CancelEverything(st) ELSE st
           s2 == IF Priority[u] = "Interrupt" THEN CancelEverything(s1) ELSE s1
           s3 == IF Priority[u] = "Queued" THEN [s2 EXCEPT !.q.queued = Append(@, u)]
                 ELSE [s2 EXCEPT !.q.next = Append(@, u)]
<1>1. Sound(s1, t, p, box) /\ ~s1.q.paused /\ ~Fenced(s1, u)
  <2>1. CASE st.q.paused
    <3>1. /\ Sound(CancelEverything(st), t, p, box) /\ ~CancelEverything(st).q.paused
          /\ CancelEverything(st).q.through = st.q.through
      BY CancelSound
    <3> QED
      BY <2>1, <3>1 DEF Fenced
  <2>2. CASE ~st.q.paused
    BY <2>2
  <2> QED
    BY <2>1, <2>2
<1> HIDE DEF s1
<1>2. Sound(s2, t, p, box) /\ ~s2.q.paused /\ ~Fenced(s2, u)
  <2>1. CASE Priority[u] = "Interrupt"
    <3>1. /\ Sound(CancelEverything(s1), t, p, box) /\ ~CancelEverything(s1).q.paused
          /\ CancelEverything(s1).q.through = s1.q.through
      BY <1>1, CancelSound
    <3> QED
      BY <1>1, <2>1, <3>1 DEF Fenced
  <2>2. CASE Priority[u] # "Interrupt"
    BY <1>1, <2>2
  <2> QED
    BY <2>1, <2>2
<1> HIDE DEF s2
<1>3. Sound(s3, t, p, box \ {u})
  BY <1>2, JoinSound
<1>4. Speak(st, u) = Pump(s3)
  BY DEF Speak, s1, s2
<1> HIDE DEF s3
<1> QED
  BY <1>3, <1>4, PumpSound

(* A synth thread that is done frees its place, and the next is pumped.    *)
LEMMA SynthDoneSound ==
    ASSUME NEW st, NEW t, NEW p, NEW box, Sound(st, t, p, box)
    PROVE  Sound(SynthDone(st), t, p, box)
<1> DEFINE c == [st EXCEPT !.q.inFlight = 0]
<1>1. st \in States
  BY DEF Sound
<1>2. /\ c \in States /\ c.q.next = st.q.next /\ c.q.queued = st.q.queued
      /\ c.q.handedOn = st.q.handedOn /\ c.q.paused = st.q.paused /\ c.q.focus = st.q.focus
      /\ c.q.through = st.q.through /\ c.q.marked = st.q.marked /\ c.q.held = st.q.held
      /\ c.generation = st.generation /\ c.under = st.under /\ c.ended = st.ended /\ c.cut = st.cut
  BY <1>1 DEF States, Queues
<1>3. SynthDone(st) = Pump(c)
  BY DEF SynthDone
<1> HIDE DEF c
<1>4. InLine(c) = InLine(st) /\ Handed(c) = Handed(st) /\ EndedHere(c) = EndedHere(st)
  BY <1>2 DEF InLine, Handed, EndedHere
<1>5. Lined(c) /\ Places(c, p, box) /\ MarksOf(c, t) /\ ToldOf(c, t)
  BY <1>2, <1>4 DEF Sound, Lined, Places, MarksOf, ToldOf
<1>6. Current(c) /\ Fence(c) /\ Worth(c) /\ Older(c)
  BY <1>2, <1>4 DEF Sound, Current, Fence, Fenced, Worth, Older
<1>7. Sound(c, t, p, box)
  BY <1>2, <1>5, <1>6 DEF Sound
<1> QED
  BY <1>3, <1>7, PumpSound

(* The thread's record with parts that no lane, place or mark depends on   *)
(* replaced: the key fence, the focus, the pause and whether it runs.      *)
LEMMA QuietSound ==
    ASSUME NEW st, NEW c, NEW t, NEW p, NEW box, Sound(st, t, p, box), c \in States,
           c.q.next = st.q.next, c.q.queued = st.q.queued, c.q.marked = st.q.marked,
           c.q.handedOn = st.q.handedOn, c.generation = st.generation, c.under = st.under,
           c.ended = st.ended, c.cut = st.cut,
           Fence(c), Worth(c), Older(c)
    PROVE  Sound(c, t, p, box) /\ InLine(c) = InLine(st)
<1>1. InLine(c) = InLine(st) /\ Handed(c) = Handed(st) /\ EndedHere(c) = EndedHere(st)
  BY DEF InLine, Handed, EndedHere
<1>2. Lined(c) /\ Places(c, p, box)
  BY <1>1 DEF Sound, Lined, Places
<1>3. MarksOf(c, t) /\ ToldOf(c, t) /\ Current(c)
  BY DEF Sound, MarksOf, ToldOf, Current
<1> QED
  BY <1>1, <1>2, <1>3 DEF Sound

(* Cancel: a key's press raises the fence, and everything is cancelled.    *)
LEMMA CancelKeySound ==
    ASSUME NEW st, NEW t, NEW p, NEW box, Sound(st, t, p, box), NEW key \in Keys
    PROVE  Sound(Cancel(st, key), t, p, box)
<1> DEFINE through == IF key > st.q.through THEN key ELSE st.q.through
           d == [st EXCEPT !.q.through = through]
           old == EndWaiting(Relaned(st, <<>>, <<>>), InLine(st))
           new == EndWaiting(Relaned(d, <<>>, <<>>), InLine(st))
           e == CancelEverything(st)
           c == Cancel(st, key)
<1>1. st \in States
  BY DEF Sound
<1>2. through \in Keys \cup {0}
  BY <1>1 DEF States, Queues
<1>3. c = CancelEverything(d)
  BY DEF Cancel
<1> HIDE DEF through
<1>4. d \in States /\ InLine(d) = InLine(st)
  BY <1>1, <1>2 DEF States, Queues, InLine
<1>5. c = StopHandedOn(new) /\ e = StopHandedOn(old)
  <2>1. c = StopHandedOn(EndWaiting(Relaned(d, <<>>, <<>>), InLine(d)))
    BY <1>3 DEF CancelEverything, Relaned, InLine
  <2>2. e = StopHandedOn(old)
    BY DEF CancelEverything, Relaned, InLine
  <2> QED
    BY <1>4, <2>1, <2>2
<1>6. LET r == Relaned(st, <<>>, <<>>)
          x == Relaned(d, <<>>, <<>>)
      IN  /\ r \in States /\ x \in States /\ x.q.next = r.q.next /\ x.q.queued = r.q.queued
          /\ x.q.marked = r.q.marked /\ x.q.handedOn = r.q.handedOn /\ x.q.focus = r.q.focus
          /\ x.generation = r.generation /\ x.under = r.under /\ x.ended = r.ended /\ x.cut = r.cut
  <2>1. <<>> \in Seq(Utterances)
    OBVIOUS
  <2> QED
    BY <1>1, <1>2, <2>1 DEF Relaned, States, Queues
<1>7. old \in States
  <2>1. <<>> \in Seq(Utterances) /\ Distinct(<<>>) /\ ToSet(<<>>) = {}
    BY DEF Distinct, ToSet
  <2>2. Sound(Relaned(st, <<>>, <<>>), t, p, box \cup InLine(st))
    BY <2>1, PullSound
  <2>3. InLine(st) \subseteq Utterances
    <3>1. st.q.next \in Seq(Utterances) /\ st.q.queued \in Seq(Utterances)
      BY <1>1 DEF States, Queues
    <3> QED
      BY <3>1 DEF InLine, ToSet
  <2> QED
    BY <2>2, <2>3, EndSound DEF Sound
<1>8. /\ new \in States /\ new.q.next = old.q.next /\ new.q.queued = old.q.queued
      /\ new.q.marked = old.q.marked /\ new.q.focus = old.q.focus
      /\ new.generation = old.generation /\ new.under = old.under
      /\ new.ended = old.ended /\ new.cut = old.cut
  <2> DEFINE r == Relaned(st, <<>>, <<>>)
             x == Relaned(d, <<>>, <<>>)
             us == InLine(st)
  <2>1. /\ r \in States /\ x \in States /\ x.q.next = r.q.next /\ x.q.queued = r.q.queued
        /\ x.q.marked = r.q.marked /\ x.q.focus = r.q.focus
        /\ x.generation = r.generation /\ x.under = r.under /\ x.ended = r.ended /\ x.cut = r.cut
    BY <1>6
  <2> HIDE DEF r, x, us
  <2>2. EndWaiting(r, us) \in States
    BY <1>7 DEF r, us
  <2>3. EndWaiting(x, us).ended = EndWaiting(r, us).ended /\ EndWaiting(x, us).cut = EndWaiting(r, us).cut
    <3>1. /\ EndWaiting(x, us).ended = Counted(x.ended, us)
          /\ EndWaiting(x, us).cut = CountedMarks(x.cut, us)
      BY <2>1, EndIs
    <3>2. /\ EndWaiting(r, us).ended = Counted(r.ended, us)
          /\ EndWaiting(r, us).cut = CountedMarks(r.cut, us)
      BY <2>1, EndIs
    <3> QED
      BY <2>1, <3>1, <3>2
  <2>4. /\ EndWaiting(r, us).ended \in [Utterances -> {0, 1}]
        /\ EndWaiting(r, us).cut \in [Utterances -> {0, 1}]
    BY <2>2 DEF States
  <2>5. /\ EndWaiting(x, us) \in States /\ EndWaiting(x, us).q = x.q /\ EndWaiting(r, us).q = r.q
        /\ EndWaiting(x, us).generation = x.generation /\ EndWaiting(r, us).generation = r.generation
        /\ EndWaiting(x, us).under = x.under /\ EndWaiting(r, us).under = r.under
    BY <2>1, <2>3, <2>4, EndIs
  <2>6. new = EndWaiting(x, us) /\ old = EndWaiting(r, us)
    BY DEF x, r, us
  <2> HIDE DEF new, old
  <2> QED
    BY <2>1, <2>3, <2>5, <2>6
<1> HIDE DEF new, old, c, e, d
<1>9. /\ c \in States /\ c.q.next = e.q.next /\ c.q.queued = e.q.queued /\ c.q.marked = e.q.marked
      /\ c.q.handedOn = e.q.handedOn /\ c.generation = e.generation /\ c.under = e.under
      /\ c.ended = e.ended /\ c.cut = e.cut /\ c.q.paused = FALSE /\ c.q.handedOn = {}
  <2>1. /\ c \in States /\ c.q.next = new.q.next /\ c.q.queued = new.q.queued
        /\ c.q.marked = new.q.marked /\ c.q.handedOn = {} /\ c.q.paused = FALSE
        /\ c.generation = new.generation + 1 /\ c.under = new.under
        /\ c.ended = new.ended /\ c.cut = new.cut
    BY <1>5, <1>8, StopIs
  <2>2. /\ e.q.next = old.q.next /\ e.q.queued = old.q.queued
        /\ e.q.marked = old.q.marked /\ e.q.handedOn = {}
        /\ e.generation = old.generation + 1 /\ e.under = old.under
        /\ e.ended = old.ended /\ e.cut = old.cut
    BY <1>5, <1>7, StopIs
  <2> QED
    BY <1>8, <2>1, <2>2
<1>10. Sound(e, t, p, box) /\ InLine(e) = {} /\ \A u \in Utterances : e.under[u] # e.generation
  BY CancelSound DEF e
<1>11. Worth(c) /\ Older(c)
  BY <1>9 DEF Worth, Older
<1>12. InLine(c) = {}
  BY <1>9, <1>10 DEF InLine
<1>13. Fence(c)
  BY <1>9, <1>10, <1>12 DEF Fence
<1> QED
  BY <1>9, <1>10, <1>11, <1>13, QuietSound DEF c

(* The thread stops after it has cancelled everything.                     *)
LEMMA ShutdownSound ==
    ASSUME NEW st, NEW t, NEW p, NEW box, Sound(st, t, p, box)
    PROVE  Sound([st EXCEPT !.q.running = FALSE], t, p, box)
<1> DEFINE c == [st EXCEPT !.q.running = FALSE]
<1>1. /\ c \in States /\ c.q.next = st.q.next /\ c.q.queued = st.q.queued
      /\ c.q.handedOn = st.q.handedOn /\ c.q.paused = st.q.paused /\ c.q.focus = st.q.focus
      /\ c.q.through = st.q.through /\ c.q.marked = st.q.marked /\ c.q.held = st.q.held
      /\ c.generation = st.generation /\ c.under = st.under /\ c.ended = st.ended /\ c.cut = st.cut
  BY DEF Sound, States, Queues
<1> HIDE DEF c
<1>2. Fence(c) /\ Worth(c) /\ Older(c)
  BY <1>1 DEF Sound, Fence, Fenced, Worth, Older, InLine
<1> QED
  BY <1>1, <1>2, QuietSound DEF c

(* A pause holds what was taken before it.                                 *)
LEMMA PauseSound ==
    ASSUME NEW st, NEW t, NEW p, NEW box, Sound(st, t, p, box)
    PROVE  Sound(TogglePause(st), t, p, box)
<1> DEFINE c == TogglePause(st)
<1>1. st \in States
  BY DEF Sound
<1>2. Taken(st) \subseteq Utterances
  BY <1>1 DEF Taken, ToSet, States, Queues
<1>3. /\ c \in States /\ c.q.next = st.q.next /\ c.q.queued = st.q.queued
      /\ c.q.handedOn = st.q.handedOn /\ c.q.paused = ~st.q.paused /\ c.q.focus = st.q.focus
      /\ c.q.through = st.q.through /\ c.q.marked = st.q.marked
      /\ c.q.held = IF st.q.paused THEN {} ELSE Taken(st)
      /\ c.generation = st.generation /\ c.under = st.under /\ c.ended = st.ended /\ c.cut = st.cut
  BY <1>1, <1>2 DEF TogglePause, States, Queues
<1> HIDE DEF c
<1>4. Fence(c) /\ Worth(c)
  BY <1>3 DEF Sound, Fence, Fenced, Worth, InLine
<1>5. Older(c)
  <2>1. \A u \in Utterances : st.under[u] = st.generation => st.under[u] >= 0
    BY <1>1 DEF States, Queues
  <2>2. InLine(st) \cup {u \in Utterances : st.under[u] = st.generation} \subseteq Taken(st)
    BY <2>1 DEF Taken, InLine
  <2>3. InLine(c) = InLine(st)
    BY <1>3 DEF InLine
  <2> QED
    BY <1>3, <2>2, <2>3 DEF Older
<1> QED
  BY <1>3, <1>4, <1>5, QuietSound DEF c

(* drop_expired stops what was handed on when some of it has expired, and  *)
(* only then.                                                              *)
LEMMA ExpirySound ==
    ASSUME NEW st, NEW t, NEW p, NEW box, Sound(st, t, p, box), NEW focus \in Foci
    PROVE  /\ Sound(DropExpired(st, focus), t, p, box)
           /\ DropExpired(st, focus).generation > st.generation =>
                 \E u \in Utterances : st.under[u] = st.generation /\ ~Holds(u, focus)
<1> DEFINE moved == [st EXCEPT !.q.focus = focus]
           stopped == StopHandedOn(st)
           c == StopHandedOn(moved)
<1>1. st \in States
  BY DEF Sound
<1>2. CASE \E u \in st.q.handedOn : ~Holds(u, focus)
  <2>1. DropExpired(st, focus) = c
    BY <1>2 DEF DropExpired
  <2>2. Sound(stopped, t, p, box)
    BY StopSound
  <2>3. stopped \in States
    BY <2>2 DEF Sound
  <2>4. /\ c \in States /\ c.q.next = stopped.q.next /\ c.q.queued = stopped.q.queued
        /\ c.q.handedOn = stopped.q.handedOn /\ c.q.paused = stopped.q.paused
        /\ c.q.through = stopped.q.through /\ c.q.marked = stopped.q.marked /\ c.q.held = stopped.q.held
        /\ c.generation = stopped.generation /\ c.under = stopped.under
        /\ c.ended = stopped.ended /\ c.cut = stopped.cut /\ c.q.handedOn = {}
    <3>1. /\ moved \in States /\ moved.q.next = st.q.next /\ moved.q.queued = st.q.queued
          /\ moved.q.through = st.q.through /\ moved.q.marked = st.q.marked /\ moved.q.held = st.q.held
          /\ moved.generation = st.generation /\ moved.under = st.under
          /\ moved.ended = st.ended /\ moved.cut = st.cut
      BY <1>1 DEF States, Queues
    <3> HIDE DEF moved
    <3>2. /\ c \in States /\ c.q.next = moved.q.next /\ c.q.queued = moved.q.queued
          /\ c.q.handedOn = {} /\ c.q.paused = FALSE
          /\ c.q.through = moved.q.through /\ c.q.marked = moved.q.marked /\ c.q.held = moved.q.held
          /\ c.generation = moved.generation + 1 /\ c.under = moved.under
          /\ c.ended = moved.ended /\ c.cut = moved.cut
      BY <3>1, StopIs
    <3>3. /\ stopped.q.next = st.q.next /\ stopped.q.queued = st.q.queued
          /\ stopped.q.handedOn = {} /\ stopped.q.paused = FALSE
          /\ stopped.q.through = st.q.through /\ stopped.q.marked = st.q.marked
          /\ stopped.q.held = st.q.held
          /\ stopped.generation = st.generation + 1 /\ stopped.under = st.under
          /\ stopped.ended = st.ended /\ stopped.cut = st.cut
      BY <1>1, StopIs
    <3> HIDE DEF c, stopped
    <3> QED
      BY <3>1, <3>2, <3>3
  <2> HIDE DEF c, stopped
  <2>5. Fence(c) /\ Worth(c) /\ Older(c)
    BY <2>2, <2>4 DEF Sound, Fence, Fenced, Worth, Older, InLine
  <2>6. Sound(c, t, p, box)
    BY <2>2, <2>4, <2>5, QuietSound
  <2>7. \E u \in Utterances : st.under[u] = st.generation /\ ~Holds(u, focus)
    BY <1>1, <1>2 DEF Sound, Current, States, Queues
  <2> QED
    BY <2>1, <2>6, <2>7
<1>3. CASE ~\E u \in st.q.handedOn : ~Holds(u, focus)
  <2>1. DropExpired(st, focus) = moved
    BY <1>3 DEF DropExpired
  <2>2. /\ moved \in States /\ moved.q.next = st.q.next /\ moved.q.queued = st.q.queued
        /\ moved.q.handedOn = st.q.handedOn /\ moved.q.paused = st.q.paused
        /\ moved.q.through = st.q.through /\ moved.q.marked = st.q.marked /\ moved.q.held = st.q.held
        /\ moved.generation = st.generation /\ moved.under = st.under
        /\ moved.ended = st.ended /\ moved.cut = st.cut /\ moved.q.focus = focus
    BY <1>1 DEF States, Queues
  <2> HIDE DEF moved
  <2>3. Fence(moved) /\ Older(moved)
    BY <2>2 DEF Sound, Fence, Fenced, Older, InLine
  <2>4. Worth(moved)
    BY <1>3, <2>2 DEF Worth
  <2>5. Sound(moved, t, p, box)
    BY <2>2, <2>3, <2>4, QuietSound
  <2>6. ~(moved.generation > st.generation)
    BY <1>1, <2>2 DEF States, Queues
  <2> QED
    BY <2>1, <2>5, <2>6
<1> QED
  BY <1>2, <1>3

(* The mixer's ending of an utterance ends its marks, once.                *)
LEMMA EndingSound ==
    ASSUME NEW st, NEW t, NEW p, NEW box, Sound(st, t, p, box),
           NEW u \in Utterances, NEW ending \in Endings, t[u].ending = ending
    PROVE  Sound(EndedByMixer(st, u, ending), t, p, box)
<1> DEFINE c == EndedByMixer(st, u, ending)
           n == IF u \in st.q.marked /\ ending # "Completed" THEN st.cut[u] + 1 ELSE st.cut[u]
<1>1. st \in States
  BY DEF Sound
<1>2. n \in {0, 1} /\ (n # st.cut[u] => n = 1 /\ ending # "Completed")
  <2>1. st.cut[u] \in {0, 1} /\ (u \in st.q.marked => st.cut[u] = 0)
    BY <1>1 DEF Sound, MarksOf, States, Queues
  <2> QED
    BY <2>1
<1>3. c = [st EXCEPT !.q.handedOn = @ \ {u}, !.q.marked = @ \ {u}, !.cut[u] = n]
  BY DEF EndedByMixer
<1> HIDE DEF n, c
<1>4. /\ c \in States /\ c.q.next = st.q.next /\ c.q.queued = st.q.queued
      /\ c.q.handedOn = st.q.handedOn \ {u} /\ c.q.paused = st.q.paused /\ c.q.focus = st.q.focus
      /\ c.q.through = st.q.through /\ c.q.marked = st.q.marked \ {u} /\ c.q.held = st.q.held
      /\ c.generation = st.generation /\ c.under = st.under /\ c.ended = st.ended
      /\ c.cut = [st.cut EXCEPT ![u] = n]
  BY <1>1, <1>2, <1>3 DEF States, Queues
<1>5. \A v \in Utterances : c.cut[v] = IF v = u THEN n ELSE st.cut[v]
  BY <1>1, <1>4 DEF States, Queues
<1>6. InLine(c) = InLine(st) /\ Handed(c) = Handed(st) /\ EndedHere(c) = EndedHere(st)
  BY <1>4 DEF InLine, Handed, EndedHere
<1>7. st.ended[u] # 1
  <2>1. st.under[u] >= 0
    BY DEF Sound, ToldOf, Endings
  <2>2. u \in Handed(st)
    BY <2>1 DEF Handed
  <2> QED
    BY <2>2 DEF Sound, Places, EndedHere
<1>8. MarksOf(c, t)
  <2> SUFFICES ASSUME NEW v \in Utterances
               PROVE  /\ v \in c.q.marked => c.cut[v] = 0 /\ c.under[v] >= 0
                      /\ c.cut[v] = 1 => c.ended[v] = 1 \/ t[v].ending \in {"Cancelled", "Failed"}
                      /\ c.ended[v] = 1 /\ HasMarks(v) => c.cut[v] = 1
    BY DEF MarksOf
  <2>1. CASE v = u
    <3>1. st.cut[u] = 1 => st.ended[u] = 1 \/ t[u].ending \in {"Cancelled", "Failed"}
      BY DEF Sound, MarksOf
    <3>2. ending # "Completed" => ending \in {"Cancelled", "Failed"}
      BY DEF Endings
    <3> QED
      BY <1>2, <1>4, <1>5, <1>7, <2>1, <3>1, <3>2
  <2>2. CASE v # u
    BY <1>4, <1>5, <2>2 DEF Sound, MarksOf
  <2> QED
    BY <2>1, <2>2
<1>9. Lined(c) /\ Places(c, p, box) /\ ToldOf(c, t) /\ Current(c)
  BY <1>4, <1>6 DEF Sound, Lined, Places, ToldOf, Current
<1>10. Fence(c) /\ Worth(c) /\ Older(c)
  BY <1>4, <1>6 DEF Sound, Fence, Fenced, Worth, Older
<1> QED
  BY <1>4, <1>8, <1>9, <1>10 DEF Sound, c

-----------------------------------------------------------------------------
(* The invariant, with the inbox.                                          *)
Messages ==
    {Event("Speak", u) : u \in Utterances} \cup {Event("SynthFinished", 0)} \cup Requests
    \cup {Event("Ended", <<u, ending>>) : u \in Utterances, ending \in Endings}

Spoken(box) == {u \in Utterances : \E i \in DOMAIN box : box[i] = Event("Speak", u)}

SpokenOnce(box) ==
    \A i, j \in DOMAIN box : box[i].is = "Speak" /\ box[j] = box[i] => i = j

\* What the inbox has of the mixer's endings is what was told.
EndingsIn(box, t) ==
    \A i \in DOMAIN box : \A u \in Utterances, ending \in Endings :
        box[i] = Event("Ended", <<u, ending>>) => t[u].ending = ending

Tellings == [Utterances -> [marks : Nat, ending : Endings \cup {"none"}, ends : {0, 1}]]

SpeechInv ==
    /\ Sound(Now, told, posted, Spoken(inbox))
    /\ inbox \in Seq(Messages) /\ SpokenOnce(inbox) /\ EndingsIn(inbox, told)
    /\ told \in Tellings /\ \A u \in Utterances : told[u].ending # "none" => told[u].ends = 1

(* Every event the thread takes leaves its record sound.                   *)
LEMMA HandleSound ==
    ASSUME NEW st, NEW t, NEW p, NEW box, NEW rest, Sound(st, t, p, box), NEW event \in Messages,
           \A u \in Utterances : event = Event("Speak", u) => u \in box /\ rest = box \ {u},
           event.is # "Speak" => rest = box,
           \A u \in Utterances, ending \in Endings :
               event = Event("Ended", <<u, ending>>) => t[u].ending = ending
    PROVE  Sound(Handle(st, event), t, p, rest)
<1>1. CASE \E u \in Utterances : event = Event("Speak", u)
  <2>1. PICK u \in Utterances : event = Event("Speak", u)
    BY <1>1
  <2>2. event.is = "Speak" /\ event.what = u /\ u \in box /\ rest = box \ {u}
    BY <2>1 DEF Event
  <2>3. CASE Fenced(st, u)
    <3>1. Handle(st, event) = EndWaiting(st, {u})
      BY <2>2, <2>3 DEF Handle
    <3> QED
      BY <2>2, <3>1, EndSound
  <2>4. CASE ~Fenced(st, u)
    <3>1. Handle(st, event) = Speak(st, u)
      BY <2>2, <2>4 DEF Handle
    <3> QED
      BY <2>2, <2>4, <3>1, SpeakSound
  <2> QED
    BY <2>3, <2>4
<1>2. CASE \E u \in Utterances, ending \in Endings : event = Event("Ended", <<u, ending>>)
  <2>1. PICK u \in Utterances, ending \in Endings : event = Event("Ended", <<u, ending>>)
    BY <1>2
  <2>2. event.is = "Ended" /\ event.what = <<u, ending>> /\ t[u].ending = ending /\ rest = box
    BY <2>1 DEF Event
  <2>3. Handle(st, event) = EndedByMixer(st, u, ending)
    BY <2>2 DEF Handle
  <2> QED
    BY <2>2, <2>3, EndingSound
<1>3. CASE event = Event("SynthFinished", 0)
  <2>1. event.is = "SynthFinished" /\ rest = box
    BY <1>3 DEF Event
  <2>2. Handle(st, event) = SynthDone(st)
    BY <2>1 DEF Handle
  <2> QED
    BY <2>1, <2>2, SynthDoneSound
<1>4. CASE \E key \in Keys : event = Event("Cancel", key)
  <2>1. PICK key \in Keys : event = Event("Cancel", key)
    BY <1>4
  <2>2. event.is = "Cancel" /\ event.what = key /\ rest = box
    BY <2>1 DEF Event
  <2>3. Handle(st, event) = Cancel(st, key)
    BY <2>2 DEF Handle
  <2> QED
    BY <2>2, <2>3, CancelKeySound
<1>5. CASE \E focus \in Foci : event = Event("DropExpired", focus)
  <2>1. PICK focus \in Foci : event = Event("DropExpired", focus)
    BY <1>5
  <2>2. event.is = "DropExpired" /\ event.what = focus /\ rest = box
    BY <2>1 DEF Event
  <2>3. Handle(st, event) = DropExpired(st, focus)
    BY <2>2 DEF Handle
  <2> QED
    BY <2>2, <2>3, ExpirySound
<1>6. CASE event = Event("TogglePause", 0)
  <2>1. event.is = "TogglePause" /\ rest = box
    BY <1>6 DEF Event
  <2>2. Handle(st, event) = TogglePause(st)
    BY <2>1 DEF Handle
  <2> QED
    BY <2>1, <2>2, PauseSound
<1>7. CASE event = Event("Switch", 0)
  <2>1. event.is = "Switch" /\ rest = box
    BY <1>7 DEF Event
  <2>2. Handle(st, event) = CancelEverything(st)
    BY <2>1 DEF Handle
  <2> QED
    BY <2>1, <2>2, CancelSound
<1>8. CASE event = Event("Shutdown", 0)
  <2>1. event.is = "Shutdown" /\ rest = box
    BY <1>8 DEF Event
  <2>2. Handle(st, event) = [CancelEverything(st) EXCEPT !.q.running = FALSE]
    BY <2>1 DEF Handle
  <2>3. Sound(CancelEverything(st), t, p, box)
    BY CancelSound
  <2> QED
    BY <2>1, <2>2, <2>3, ShutdownSound
<1> QED
  BY <1>1, <1>2, <1>3, <1>4, <1>5, <1>6, <1>7, <1>8 DEF Messages, Requests

(* What is posted joins the end of the inbox.                              *)
LEMMA PostKeeps ==
    ASSUME NEW box \in Seq(Messages), NEW event \in Messages, NEW t,
           SpokenOnce(box), EndingsIn(box, t),
           \A u \in Utterances : event = Event("Speak", u) => u \notin Spoken(box),
           \A u \in Utterances, ending \in Endings :
               event = Event("Ended", <<u, ending>>) => t[u].ending = ending
    PROVE  LET after == Append(box, event)
           IN  /\ after \in Seq(Messages) /\ SpokenOnce(after) /\ EndingsIn(after, t)
               /\ \A u \in Utterances : event = Event("Speak", u) => Spoken(after) = Spoken(box) \cup {u}
               /\ event.is # "Speak" => Spoken(after) = Spoken(box)
<1> DEFINE after == Append(box, event)
           n == Len(box)
<1>1. /\ n \in Nat /\ DOMAIN box = 1..n /\ after \in Seq(Messages) /\ DOMAIN after = 1..(n + 1)
      /\ after[n + 1] = event /\ \A i \in 1..n : after[i] = box[i]
  OBVIOUS
<1>2. \A i \in DOMAIN after : (i \in DOMAIN box /\ after[i] = box[i]) \/ (i = n + 1 /\ after[i] = event)
  BY <1>1
<1>3. \A i \in DOMAIN box : i \in DOMAIN after /\ after[i] = box[i] /\ i # n + 1
  BY <1>1
<1>4. n + 1 \in DOMAIN after /\ after[n + 1] = event
  BY <1>1
<1>5. event.is = "Speak" => \E u \in Utterances : event = Event("Speak", u)
  BY DEF Messages, Requests, Event
<1> HIDE DEF after, n
<1>6. EndingsIn(after, t)
  BY <1>2 DEF EndingsIn
<1>7. event.is = "Speak" => \A i \in DOMAIN box : box[i] # event
  BY <1>5 DEF Spoken
<1>8. SpokenOnce(after)
  BY <1>2, <1>7 DEF SpokenOnce
<1>9. \A u \in Utterances : event = Event("Speak", u) => Spoken(after) = Spoken(box) \cup {u}
  <2> SUFFICES ASSUME NEW u \in Utterances, event = Event("Speak", u)
               PROVE  Spoken(after) = Spoken(box) \cup {u}
    OBVIOUS
  <2>1. \A v : event = Event("Speak", v) => v = u
    BY DEF Event
  <2> QED
    BY <1>2, <1>3, <1>4, <2>1 DEF Spoken
<1>10. ASSUME event.is # "Speak"
       PROVE  Spoken(after) = Spoken(box)
  <2>1. ASSUME NEW u PROVE event # Event("Speak", u)
    <3>1. Event("Speak", u).is = "Speak"
      BY DEF Event
    <3> QED
      BY <1>10, <3>1
  <2> QED
    BY <1>2, <1>3, <2>1 DEF Spoken
<1> QED
  BY <1>1, <1>6, <1>8, <1>9, <1>10 DEF after

(* What is taken is the inbox's first.                                     *)
LEMMA TakeKeeps ==
    ASSUME NEW box \in Seq(Messages), box # <<>>, NEW t, SpokenOnce(box), EndingsIn(box, t)
    PROVE  /\ Head(box) \in Messages /\ Tail(box) \in Seq(Messages)
           /\ SpokenOnce(Tail(box)) /\ EndingsIn(Tail(box), t)
           /\ \A u \in Utterances : Head(box) = Event("Speak", u) =>
                 u \in Spoken(box) /\ Spoken(Tail(box)) = Spoken(box) \ {u}
           /\ Head(box).is # "Speak" => Spoken(Tail(box)) = Spoken(box)
           /\ \A u \in Utterances, ending \in Endings :
                 Head(box) = Event("Ended", <<u, ending>>) => t[u].ending = ending
<1> DEFINE tail == Tail(box)
           n == Len(box)
<1>1. /\ n \in Nat /\ DOMAIN box = 1..n /\ n >= 1 /\ tail \in Seq(Messages)
      /\ DOMAIN tail = 1..(n - 1) /\ Head(box) = box[1]
      /\ \A i \in 1..(n - 1) : tail[i] = box[i + 1]
  OBVIOUS
<1>2. 1 \in DOMAIN box /\ Head(box) = box[1] /\ Head(box) \in Messages
  BY <1>1
<1>3. \A i \in DOMAIN tail : i + 1 \in DOMAIN box /\ tail[i] = box[i + 1] /\ i + 1 # 1
  BY <1>1
<1>4. \A i \in DOMAIN box : i = 1 \/ (i - 1 \in DOMAIN tail /\ tail[i - 1] = box[i])
  BY <1>1
<1>5. \A i, j \in DOMAIN tail : i + 1 = j + 1 => i = j
  BY <1>1
<1> HIDE DEF tail, n
<1>6. SpokenOnce(tail)
  BY <1>3, <1>5 DEF SpokenOnce
<1>7. EndingsIn(tail, t)
  BY <1>3 DEF EndingsIn
<1>8. ASSUME NEW u \in Utterances, Head(box) = Event("Speak", u)
      PROVE  u \in Spoken(box) /\ Spoken(tail) = Spoken(box) \ {u}
  <2>1. u \in Spoken(box)
    BY <1>2, <1>8 DEF Spoken
  <2>2. box[1].is = "Speak"
    BY <1>2, <1>8 DEF Event
  <2>3. \A i \in DOMAIN tail : tail[i] # Event("Speak", u)
    BY <1>2, <1>3, <1>8, <2>2 DEF SpokenOnce
  <2>4. \A v : Event("Speak", v) = Event("Speak", u) => v = u
    BY DEF Event
  <2>5. Spoken(tail) = Spoken(box) \ {u}
    BY <1>2, <1>3, <1>4, <1>8, <2>3, <2>4 DEF Spoken
  <2> QED
    BY <2>1, <2>5
<1>9. ASSUME Head(box).is # "Speak"
      PROVE  Spoken(tail) = Spoken(box)
  <2>1. \A u : box[1] # Event("Speak", u)
    BY <1>2, <1>9 DEF Event
  <2> QED
    BY <1>3, <1>4, <2>1 DEF Spoken
<1>10. \A u \in Utterances, ending \in Endings :
          Head(box) = Event("Ended", <<u, ending>>) => t[u].ending = ending
  BY <1>2 DEF EndingsIn
<1> QED
  BY <1>1, <1>2, <1>6, <1>7, <1>8, <1>9, <1>10 DEF tail

-----------------------------------------------------------------------------
(* The steps.                                                              *)
LEMMA StartKeeps == SpeechInit => SpeechInv
<1> SUFFICES ASSUME SpeechInit PROVE SpeechInv
  OBVIOUS
<1> DEFINE st == Now
<1>1. /\ generation = 0 /\ under = [u \in Utterances |-> -1] /\ inbox = <<>> /\ posted = {}
      /\ told = [u \in Utterances |-> [marks |-> 0, ending |-> "none", ends |-> 0]]
      /\ ended = [u \in Utterances |-> 0] /\ marksCut = [u \in Utterances |-> 0]
      /\ q = [next |-> <<>>, queued |-> <<>>, inFlight |-> 0, handedOn |-> {}, paused |-> FALSE,
              focus |-> "none", through |-> 0, marked |-> {}, running |-> TRUE, held |-> {}]
  BY DEF SpeechInit, PlaybackInit
<1>2. /\ st \in States /\ st.q = q /\ st.under = under /\ st.ended = ended /\ st.cut = marksCut
      /\ st.generation = 0
  BY <1>1 DEF Now, States, Queues
<1>3. Spoken(inbox) = {} /\ inbox \in Seq(Messages) /\ SpokenOnce(inbox) /\ EndingsIn(inbox, told)
  BY <1>1 DEF Spoken, SpokenOnce, EndingsIn
<1>4. told \in Tellings /\ \A u \in Utterances : told[u].ending = "none" /\ told[u].ends = 0
  BY <1>1 DEF Tellings
<1>5. /\ q.next = <<>> /\ q.queued = <<>> /\ q.handedOn = {} /\ q.paused = FALSE /\ q.marked = {}
      /\ \A u \in Utterances : under[u] = -1 /\ ended[u] = 0 /\ marksCut[u] = 0
  BY <1>1
<1> HIDE DEF st
<1>6. InLine(st) = {} /\ Handed(st) = {} /\ EndedHere(st) = {}
  BY <1>2, <1>5 DEF InLine, Handed, EndedHere, ToSet
<1>7. Lined(st) /\ Places(st, posted, Spoken(inbox))
  BY <1>1, <1>2, <1>3, <1>5, <1>6 DEF Lined, Distinct, Places, ToSet
<1>8. MarksOf(st, told) /\ ToldOf(st, told)
  BY <1>2, <1>4, <1>5 DEF MarksOf, ToldOf
<1>9. Current(st) /\ Fence(st) /\ Worth(st) /\ Older(st)
  BY <1>2, <1>5, <1>6 DEF Current, Fence, Worth, Older
<1>10. Sound(st, told, posted, Spoken(inbox))
  BY <1>2, <1>7, <1>8, <1>9 DEF Sound
<1> QED
  BY <1>3, <1>4, <1>10 DEF SpeechInv, st

\* The queue thread takes its next message and handles the whole of it.
LEMMA RunKeeps ==
    ASSUME SpeechInv, Run
    PROVE  SpeechInv'
<1> DEFINE after == Handle(Now, Head(inbox))
<1>1. inbox \in Seq(Messages) /\ inbox # <<>> /\ SpokenOnce(inbox) /\ EndingsIn(inbox, told)
  BY DEF SpeechInv, Run
<1>2. /\ Head(inbox) \in Messages /\ Tail(inbox) \in Seq(Messages)
      /\ SpokenOnce(Tail(inbox)) /\ EndingsIn(Tail(inbox), told)
      /\ \A u \in Utterances : Head(inbox) = Event("Speak", u) =>
            u \in Spoken(inbox) /\ Spoken(Tail(inbox)) = Spoken(inbox) \ {u}
      /\ Head(inbox).is # "Speak" => Spoken(Tail(inbox)) = Spoken(inbox)
      /\ \A u \in Utterances, ending \in Endings :
            Head(inbox) = Event("Ended", <<u, ending>>) => told[u].ending = ending
  BY <1>1, TakeKeeps
<1>3. Sound(Now, told, posted, Spoken(inbox))
  BY DEF SpeechInv
<1>4. Sound(after, told, posted, Spoken(Tail(inbox)))
  BY <1>2, <1>3, HandleSound
<1>5. after \in States
  BY <1>4 DEF Sound
<1>6. /\ q' = after.q /\ generation' = after.generation /\ under' = after.under
      /\ ended' = after.ended /\ marksCut' = after.cut /\ inbox' = Tail(inbox)
      /\ told' = told /\ posted' = posted
  BY DEF Run
<1>7. Now' = after
  BY <1>5, <1>6 DEF Now, States, Queues
<1> HIDE DEF after
<1>8. Sound(Now', told', posted', Spoken(inbox'))
  BY <1>4, <1>6, <1>7
<1>9. /\ inbox' \in Seq(Messages) /\ SpokenOnce(inbox') /\ EndingsIn(inbox', told')
      /\ told' \in Tellings /\ \A u \in Utterances : told'[u].ending # "none" => told'[u].ends = 1
  BY <1>2, <1>6 DEF SpeechInv
<1> QED
  BY <1>8, <1>9 DEF SpeechInv

\* A request is posted: a cancel, a pause, a focus change, a switch, the drop.
LEMMA AskKeeps ==
    ASSUME SpeechInv, NEW event \in Messages, event.is \notin {"Speak", "Ended"}, Asks(event)
    PROVE  SpeechInv'
<1>1. /\ inbox' = Append(inbox, event) /\ Now' = Now /\ told' = told /\ posted' = posted
  BY DEF Asks, Post, Now
<1>2. \A u, ending : event # Event("Speak", u) /\ event # Event("Ended", <<u, ending>>)
  BY DEF Event
<1>3. /\ inbox' \in Seq(Messages) /\ SpokenOnce(inbox') /\ EndingsIn(inbox', told)
      /\ Spoken(inbox') = Spoken(inbox)
  <2>1. inbox \in Seq(Messages) /\ SpokenOnce(inbox) /\ EndingsIn(inbox, told)
    BY DEF SpeechInv
  <2>2. /\ event.is # "Speak"
        /\ \A u \in Utterances : event = Event("Speak", u) => u \notin Spoken(inbox)
        /\ \A u \in Utterances, ending \in Endings :
               event = Event("Ended", <<u, ending>>) => told[u].ending = ending
    BY <1>2
  <2>3. LET after == Append(inbox, event)
        IN  /\ after \in Seq(Messages) /\ SpokenOnce(after) /\ EndingsIn(after, told)
            /\ Spoken(after) = Spoken(inbox)
    BY <2>1, <2>2, PostKeeps
  <2> QED
    BY <1>1, <2>3
<1>4. Sound(Now', told', posted', Spoken(inbox'))
  BY <1>1, <1>3 DEF SpeechInv
<1>5. /\ EndingsIn(inbox', told') /\ told' \in Tellings
      /\ \A u \in Utterances : told'[u].ending # "none" => told'[u].ends = 1
  BY <1>1, <1>3 DEF SpeechInv
<1> QED
  BY <1>3, <1>4, <1>5 DEF SpeechInv

\* An utterance is posted, which was not before.
LEMMA SpeaksKeeps ==
    ASSUME SpeechInv, NEW u \in Utterances, Speaks(u)
    PROVE  SpeechInv'
<1> DEFINE event == Event("Speak", u)
<1>1. /\ inbox' = Append(inbox, event) /\ Now' = Now /\ told' = told /\ posted' = posted \cup {u}
      /\ u \notin posted
  BY DEF Speaks, Post, Now
<1>2. event \in Messages /\ event.is = "Speak" /\ \A v : event = Event("Speak", v) => v = u
  BY DEF Messages, Event
<1>3. \A v, ending : event # Event("Ended", <<v, ending>>)
  BY DEF Event
<1>4. Sound(Now, told, posted, Spoken(inbox))
  BY DEF SpeechInv
<1>5. u \notin Spoken(inbox) /\ u \notin InLine(Now) /\ u \notin Handed(Now) /\ u \notin EndedHere(Now)
  BY <1>1, <1>4 DEF Sound, Places
<1> HIDE DEF event
<1>6. /\ inbox' \in Seq(Messages) /\ SpokenOnce(inbox') /\ EndingsIn(inbox', told)
      /\ Spoken(inbox') = Spoken(inbox) \cup {u}
  BY <1>1, <1>2, <1>3, <1>5, PostKeeps DEF SpeechInv, event
<1>7. Places(Now, posted \cup {u}, Spoken(inbox) \cup {u})
  BY <1>4, <1>5 DEF Sound, Places
<1>8. Sound(Now, told, posted \cup {u}, Spoken(inbox) \cup {u})
  BY <1>4, <1>7 DEF Sound
<1>9. Sound(Now', told', posted', Spoken(inbox'))
  BY <1>1, <1>6, <1>8
<1>10. /\ EndingsIn(inbox', told') /\ told' \in Tellings
       /\ \A v \in Utterances : told'[v].ending # "none" => told'[v].ends = 1
  BY <1>1, <1>6 DEF SpeechInv
<1> QED
  BY <1>6, <1>9, <1>10 DEF SpeechInv

\* The mixer reports a mark or an ending.
LEMMA MixerKeeps ==
    ASSUME SpeechInv, MixerReports
    PROVE  SpeechInv'
<1>1. PICK u \in Utterances :
          /\ \/ ReportMark(u) /\ UNCHANGED inbox
             \/ \E ending \in Endings :
                  /\ ReportEnd(u, ending)
                  /\ inbox' = Append(inbox, Event("Ended", <<u, ending>>))
          /\ UNCHANGED <<q, ended, marksCut, posted>>
  BY DEF MixerReports
<1>2. Now' = Now /\ posted' = posted /\ Playing(u)
  BY <1>1 DEF ReportMark, ReportEnd, Now
<1>3. /\ Sound(Now, told, posted, Spoken(inbox)) /\ told \in Tellings
      /\ inbox \in Seq(Messages) /\ SpokenOnce(inbox) /\ EndingsIn(inbox, told)
      /\ \A v \in Utterances : told[v].ending # "none" => told[v].ends = 1
  BY DEF SpeechInv
<1>4. told[u].ends = 0 /\ told[u].ending = "none" /\ under[u] >= 0 /\ Now.under = under
  BY <1>2, <1>3 DEF Playing, Tellings, Now
<1>5. CASE ReportMark(u) /\ UNCHANGED inbox
  <2>1. told' = [told EXCEPT ![u].marks = @ + 1]
    BY <1>5 DEF ReportMark
  <2>2. /\ told' \in Tellings
        /\ \A v \in Utterances : told'[v].ending = told[v].ending /\ told'[v].ends = told[v].ends
    BY <1>3, <2>1 DEF Tellings
  <2>3. MarksOf(Now, told') /\ ToldOf(Now, told') /\ EndingsIn(inbox, told')
    BY <1>3, <2>2 DEF Sound, MarksOf, ToldOf, EndingsIn
  <2>4. Sound(Now, told', posted, Spoken(inbox))
    BY <1>3, <2>3 DEF Sound
  <2>5. Sound(Now', told', posted', Spoken(inbox'))
    BY <1>2, <1>5, <2>4
  <2>6. /\ inbox' \in Seq(Messages) /\ SpokenOnce(inbox') /\ EndingsIn(inbox', told')
        /\ \A v \in Utterances : told'[v].ending # "none" => told'[v].ends = 1
    BY <1>3, <1>5, <2>2, <2>3
  <2> QED
    BY <2>2, <2>5, <2>6 DEF SpeechInv
<1>6. ASSUME NEW ending \in Endings, ReportEnd(u, ending),
             inbox' = Append(inbox, Event("Ended", <<u, ending>>))
      PROVE  SpeechInv'
  <2> DEFINE event == Event("Ended", <<u, ending>>)
  <2>1. told' = [told EXCEPT ![u].ending = ending, ![u].ends = 1]
    BY <1>6 DEF ReportEnd
  <2>2. /\ told' \in Tellings /\ told'[u].ending = ending /\ told'[u].ends = 1
        /\ \A v \in Utterances \ {u} : told'[v].ending = told[v].ending /\ told'[v].ends = told[v].ends
    BY <1>3, <2>1 DEF Tellings
  <2>3. Now.cut[u] # 1
    <3>1. Now.cut[u] = 1 => Now.ended[u] = 1
      BY <1>3, <1>4 DEF Sound, MarksOf
    <3>2. u \in Handed(Now)
      BY <1>4 DEF Handed
    <3>3. u \notin EndedHere(Now)
      BY <1>3, <3>2 DEF Sound, Places
    <3> QED
      BY <3>1, <3>3 DEF EndedHere
  <2>4. MarksOf(Now, told')
    BY <1>3, <2>2, <2>3 DEF Sound, MarksOf
  <2>5. ToldOf(Now, told')
    BY <1>3, <1>4, <2>2 DEF Sound, ToldOf
  <2>6. EndingsIn(inbox, told')
    <3> SUFFICES ASSUME NEW i \in DOMAIN inbox, NEW v \in Utterances, NEW e \in Endings,
                        inbox[i] = Event("Ended", <<v, e>>)
                 PROVE  told'[v].ending = e
      BY DEF EndingsIn
    <3>1. told[v].ending = e /\ e # "none"
      BY <1>3 DEF EndingsIn, Endings
    <3>2. v # u
      BY <1>4, <3>1
    <3> QED
      BY <2>2, <3>1, <3>2
  <2>7. event \in Messages /\ event.is = "Ended" /\ \A v : event # Event("Speak", v)
    BY DEF Messages, Event
  <2>8. \A v, e : event = Event("Ended", <<v, e>>) => v = u /\ e = ending
    BY DEF Event
  <2> HIDE DEF event
  <2>9. /\ inbox' \in Seq(Messages) /\ SpokenOnce(inbox') /\ EndingsIn(inbox', told')
        /\ Spoken(inbox') = Spoken(inbox)
    <3>1. inbox' = Append(inbox, event)
      BY <1>6 DEF event
    <3> QED
      BY <1>3, <2>2, <2>6, <2>7, <2>8, <3>1, PostKeeps
  <2>10. Sound(Now, told', posted, Spoken(inbox))
    BY <1>3, <2>4, <2>5 DEF Sound
  <2>11. Sound(Now', told', posted', Spoken(inbox'))
    BY <1>2, <2>9, <2>10
  <2>12. \A v \in Utterances : told'[v].ending # "none" => told'[v].ends = 1
    BY <1>3, <2>2
  <2> QED
    BY <2>2, <2>9, <2>11, <2>12 DEF SpeechInv
<1> QED
  BY <1>1, <1>5, <1>6

\* Every step keeps the invariant.
LEMMA StepKeeps == SpeechInv /\ [SpeechNext]_speechVars => SpeechInv'
<1> SUFFICES ASSUME SpeechInv, [SpeechNext]_speechVars PROVE SpeechInv'
  OBVIOUS
<1>1. CASE Run
  BY <1>1, RunKeeps
<1>2. CASE SynthFinishes
  <2> DEFINE event == Event("SynthFinished", 0)
  <2>1. Asks(event)
    BY <1>2 DEF SynthFinishes, Asks
  <2>2. event \in Messages /\ event.is \notin {"Speak", "Ended"}
    BY DEF Messages, Event
  <2> QED
    BY <2>1, <2>2, AskKeeps
<1>3. CASE MixerReports
  BY <1>3, MixerKeeps
<1>4. CASE \E u \in Utterances : Speaks(u)
  BY <1>4, SpeaksKeeps
<1>5. ASSUME NEW event \in Requests, Asks(event) PROVE SpeechInv'
  <2>1. event \in Messages /\ event.is \notin {"Speak", "Ended"}
    BY <1>5 DEF Messages, Requests, Event
  <2> QED
    BY <1>5, <2>1, AskKeeps
<1>6. CASE UNCHANGED speechVars
  <2>1. /\ Now' = Now /\ told' = told /\ posted' = posted /\ inbox' = inbox
    BY <1>6 DEF speechVars, Now
  <2>2. Sound(Now', told', posted', Spoken(inbox'))
    BY <2>1 DEF SpeechInv
  <2>3. /\ inbox' \in Seq(Messages) /\ SpokenOnce(inbox') /\ EndingsIn(inbox', told')
        /\ told' \in Tellings /\ \A u \in Utterances : told'[u].ending # "none" => told'[u].ends = 1
    BY <2>1 DEF SpeechInv
  <2> QED
    BY <2>2, <2>3 DEF SpeechInv
<1> QED
  BY <1>1, <1>2, <1>3, <1>4, <1>5, <1>6 DEF SpeechNext

-----------------------------------------------------------------------------
(* What the invariant says of the properties.                              *)
LEMMA InvAccounts == SpeechInv => EndedOnce
<1> SUFFICES ASSUME SpeechInv PROVE EndedOnce
  OBVIOUS
<1>1. Sound(Now, told, posted, Spoken(inbox)) /\ Now \in States /\ told \in Tellings
  BY DEF SpeechInv, Sound
<1>2. /\ Now.q = q /\ Now.under = under /\ Now.ended = ended /\ Now.cut = marksCut
      /\ InLine(Now) = Waiting
  BY DEF Now, InLine, Waiting
<1>3. /\ q.next \in Seq(Utterances) /\ q.queued \in Seq(Utterances)
      /\ \A u \in Utterances : ended[u] \in {0, 1} /\ marksCut[u] \in {0, 1} /\ told[u].ends \in {0, 1}
  BY <1>1, <1>2 DEF States, Queues, Tellings
<1>4. \A i, j \in DOMAIN Line : Line[i] = Line[j] => i = j
  <2>1. Distinct(q.next) /\ Distinct(q.queued) /\ ToSet(q.next) \cap ToSet(q.queued) = {}
    BY <1>1, <1>2 DEF Sound, Lined
  <2>2. Distinct(q.next \o q.queued)
    <3> DEFINE a == q.next
               b == q.queued
               k == 1
    <3>1. /\ a \in Seq(Utterances) /\ b \in Seq(Utterances) /\ k \in Nat \ {0}
          /\ Distinct(a) /\ Distinct(b) /\ ToSet(a) \cap ToSet(b) = {}
      BY <1>3, <2>1
    <3> HIDE DEF a, b, k
    <3>2. Distinct(a \o b)
      BY <3>1, LineSplit
    <3> QED
      BY <3>2 DEF a, b
  <2> QED
    BY <2>2 DEF Line, Distinct
<1>5. ASSUME NEW u \in posted
      PROVE  /\ EndsOf(u) <= 1
             /\ Cardinality({p \in 1..4 : CASE p = 1 -> InInbox(u)
                                            [] p = 2 -> u \in Waiting
                                            [] p = 3 -> under[u] >= 0
                                            [] OTHER -> ended[u] = 1}) = 1
  <2> DEFINE places == {p \in 1..4 : CASE p = 1 -> InInbox(u)
                                       [] p = 2 -> u \in Waiting
                                       [] p = 3 -> under[u] >= 0
                                       [] OTHER -> ended[u] = 1}
  <2>1. u \in Utterances
    <3>1. Waiting \subseteq Utterances
      BY <1>3 DEF Waiting, ToSet
    <3> QED
      BY <1>1, <1>2, <3>1 DEF Sound, Places, Spoken, Handed, EndedHere
  <2>2. InInbox(u) <=> u \in Spoken(inbox)
    <3>1. inbox \in Seq(Messages) /\ \A i \in DOMAIN inbox : inbox[i] \in Messages
      BY DEF SpeechInv
    <3>2. \A m \in Messages : m.is = "Speak" /\ m.what = u <=> m = Event("Speak", u)
      BY DEF Messages, Requests, Event
    <3> QED
      BY <2>1, <3>1, <3>2 DEF InInbox, Spoken
  <2>3. (under[u] >= 0 <=> u \in Handed(Now)) /\ (ended[u] = 1 <=> u \in EndedHere(Now))
    BY <1>2, <2>1 DEF Handed, EndedHere
  <2>4. \/ InInbox(u) /\ u \notin Waiting /\ ~(under[u] >= 0) /\ ended[u] # 1
        \/ ~InInbox(u) /\ u \in Waiting /\ ~(under[u] >= 0) /\ ended[u] # 1
        \/ ~InInbox(u) /\ u \notin Waiting /\ under[u] >= 0 /\ ended[u] # 1
        \/ ~InInbox(u) /\ u \notin Waiting /\ ~(under[u] >= 0) /\ ended[u] = 1
    BY <1>1, <1>2, <2>2, <2>3 DEF Sound, Places
  <2>5. EndsOf(u) <= 1
    <3>1. told[u].ends = 1 => under[u] >= 0
      BY <1>1, <1>2, <2>1 DEF Sound, ToldOf
    <3> QED
      BY <1>3, <2>1, <2>4, <3>1 DEF EndsOf
  <2>6. \E k : places = {k}
    <3> HIDE DEF InInbox
    <3>1. CASE InInbox(u) /\ u \notin Waiting /\ ~(under[u] >= 0) /\ ended[u] # 1
      <4>1. places = {1}
        BY <3>1
      <4> QED
        BY <4>1
    <3>2. CASE ~InInbox(u) /\ u \in Waiting /\ ~(under[u] >= 0) /\ ended[u] # 1
      <4>1. places = {2}
        BY <3>2
      <4> QED
        BY <4>1
    <3>3. CASE ~InInbox(u) /\ u \notin Waiting /\ under[u] >= 0 /\ ended[u] # 1
      <4>1. places = {3}
        BY <3>3
      <4> QED
        BY <4>1
    <3>4. CASE ~InInbox(u) /\ u \notin Waiting /\ ~(under[u] >= 0) /\ ended[u] = 1
      <4>1. places = {4}
        BY <3>4
      <4> QED
        BY <4>1
    <3> QED
      BY <2>4, <3>1, <3>2, <3>3, <3>4
  <2>7. Cardinality(places) = 1
    BY <2>6, FS_Singleton
  <2> QED
    BY <2>5, <2>7
<1>6. MarksCutOnce
  <2>1. ASSUME NEW u \in Utterances PROVE marksCut[u] <= 1
    <3>1. marksCut[u] = 0 \/ marksCut[u] = 1
      BY <1>3
    <3> QED
      BY <3>1
  <2> QED
    BY <1>1, <1>2, <2>1 DEF MarksCutOnce, Sound, MarksOf
<1>7. NoneLostOrEndedTwice
  BY <1>4, <1>5 DEF NoneLostOrEndedTwice
<1> QED
  BY <1>6, <1>7 DEF EndedOnce

\* What the invariant says of the state of HeardWhenDue.
LEMMA InvHears == SpeechInv => FenceHolds /\ HandedOnHolds /\ PauseHoldsOnlyOlder
<1> SUFFICES ASSUME SpeechInv PROVE FenceHolds /\ HandedOnHolds /\ PauseHoldsOnlyOlder
  OBVIOUS
<1>1. /\ Fence(Now) /\ Worth(Now) /\ Older(Now)
      /\ Now.q = q /\ Now.under = under /\ Now.generation = generation /\ InLine(Now) = Waiting
  BY DEF SpeechInv, Sound, Now, InLine, Waiting
<1>2. FenceHolds
  BY <1>1 DEF FenceHolds, Fence, Fenced
<1>3. HandedOnHolds
  BY <1>1 DEF HandedOnHolds, Worth
<1>4. PauseHoldsOnlyOlder
  BY <1>1 DEF PauseHoldsOnlyOlder, Older
<1> QED
  BY <1>2, <1>3, <1>4

\* A step that takes a focus change stops what was handed on only for what expired.
Stops ==
    inbox # <<>> /\ inbox' = Tail(inbox) /\ Head(inbox).is = "DropExpired" /\ generation' > generation
        => \E u \in Utterances : under[u] = generation /\ ~Holds(u, Head(inbox).what)

\* A step that stops what was handed on has a cause.
LEMMA StepStops == SpeechInv /\ [SpeechNext]_speechVars => [Stops]_speechVars
<1> SUFFICES ASSUME SpeechInv, SpeechNext PROVE Stops
  OBVIOUS
<1>1. generation \in Nat
  BY DEF SpeechInv, Sound, States, Queues, Now
<1>2. CASE Run
  <2> SUFFICES ASSUME Head(inbox).is = "DropExpired", generation' > generation, inbox # <<>>
               PROVE  \E u \in Utterances : under[u] = generation /\ ~Holds(u, Head(inbox).what)
    BY DEF Stops
  <2>1. Head(inbox) \in Messages
    BY TakeKeeps DEF SpeechInv
  <2>2. PICK focus \in Foci : Head(inbox) = Event("DropExpired", focus)
    BY <2>1 DEF Messages, Requests, Event
  <2>3. Head(inbox).what = focus
    BY <2>2 DEF Event
  <2>4. generation' = DropExpired(Now, focus).generation
    BY <1>2, <2>3 DEF Run, Handle
  <2>5. Sound(Now, told, posted, Spoken(inbox)) /\ Now.generation = generation /\ Now.under = under
    BY DEF SpeechInv, Now
  <2> QED
    BY <2>3, <2>4, <2>5, ExpirySound
<1>3. CASE ~Run
  <2>1. generation' = generation
    BY <1>3 DEF SpeechNext, SynthFinishes, MixerReports, ReportMark, ReportEnd, Speaks, Asks, Post
  <2> QED
    BY <1>1, <2>1 DEF Stops
<1> QED
  BY <1>2, <1>3

(* Every utterance spoken is accounted for, and so are its marks: it is in *)
(* the inbox, a lane, the mixer's hands or ended, in one of them, and no   *)
(* ending or cut is reported twice (QueueThread::run, pump, end_waiting).  *)
THEOREM UtterancesAccounted == SpeechSpec => []EndedOnce
<1> QED
  BY StartKeeps, StepKeeps, InvAccounts, PTL DEF SpeechSpec

(* No speech is heard that a later key's cancel, a focus change or a pause *)
(* keeps from being heard, and a focus change cuts nothing else            *)
(* (cancelled_through, drop_expired, stop_handed_on, speak).               *)
THEOREM HeardOnlyWhenDue == SpeechSpec => HeardWhenDue
<1>1. SpeechSpec => []SpeechInv
  BY StartKeeps, StepKeeps, PTL DEF SpeechSpec
<1>2. StopsOnlyForTheExpired <=> [][Stops]_speechVars
  BY DEF StopsOnlyForTheExpired, Stops
<1>3. SpeechSpec => [][Stops]_speechVars
  BY <1>1, StepStops, PTL DEF SpeechSpec
<1> QED
  BY <1>1, <1>2, <1>3, InvHears, PTL DEF HeardWhenDue
=============================================================================
