------------------------------- MODULE Intake -------------------------------
(***************************************************************************)
(* The outpost's intake queue (verbatim-outpost-logic, intake.rs) as       *)
(* operators on a record of its state: what waits to be planned, the batch *)
(* being handed out, the entry kept for when nothing else is ready.        *)
(*                                                                         *)
(* An entry is a record                                                    *)
(*   n       its number, in the order the mailbox took it in (its trace),  *)
(*   item    what it is (the names of Item and DeliveredFact, shortened),  *)
(*   obj     the window or element it concerns,                            *)
(*   thread  the thread that raised an MSAA event,                         *)
(*   time    when Windows raised it, in ticks, or NoStamp,                  *)
(*   marker  the marker it is, or the one it resolves, or NoMarker,        *)
(*   inside  the ancestors of a UIA focus read.                            *)
(***************************************************************************)
EXTENDS Integers, Sequences, SequencesExt, FiniteSetsExt

CONSTANTS FocusEventsPerBatch,  \* FOCUS_EVENTS_PER_BATCH, 4 in the code
          EventsPerThread,      \* EVENTS_PER_THREAD, 10 in the code
          TickRange             \* the clock's range, 2^32 in the code

ASSUME IntakeAssumption ==
    /\ FocusEventsPerBatch \in Nat \ {0}
    /\ EventsPerThread \in Nat \ {0}
    /\ TickRange \in Nat \ {0} /\ TickRange % 2 = 0

NoStamp == -1
NoMarker == 0
NoKey == <<>>
NoObject == <<>>

-----------------------------------------------------------------------------
(* What an entry is.                                                       *)

\* The MSAA events of the outpost's own hook, by how the planning tells them apart.
MsaaPump == {"Event"}
Console == {"Update", "Caret"}
UiaEvents == {"State", "Name", "UiaCaret", "Text"}

\* Key: what one waiting entry is kept of.
Key(e) ==
    CASE e.item \in MsaaPump \cup {"Focus", "Foreground"} -> <<e.item, e.obj, e.thread>>
      [] e.item \in Console \cup UiaEvents \cup {"Menu", "Read", "Selection"} -> <<e.item, e.obj>>
      [] e.item = "NodesHeld" -> <<"NodesHeld">>
      [] OTHER -> NoKey

\* Key::object.
Object(e) ==
    CASE e.item \in MsaaPump \cup {"Focus", "Menu"} -> <<"Msaa", e.obj>>
      [] e.item \in UiaEvents \cup {"Read", "Selection"} -> <<"Uia", e.obj>>
      [] OTHER -> NoObject

Category(e) ==
    CASE e.item \in {"Focus", "Foreground"} -> "Focus"
      [] e.item \in MsaaPump \cup Console -> "Other"
      [] e.item \in UiaEvents \cup {"Menu", "Read", "Selection"} -> "Uncounted"
      [] OTHER -> "Exempt"

IsMarker(e) == e.item = "Marker"
IsBarrier(e) == e.item = "Barrier"
InFocusRun(e) == e.item \in {"Focus", "Foreground"}

\* ends_a_run: an MSAA event of NVDA's pump that is neither.
EndsARun(e) == e.item \in MsaaPump \cup {"Menu"}

\* The signed distance from tick b to tick a, across the clock's wrap.
Ticks(a, b) ==
    LET d == (a - b) % TickRange
    IN  IF d >= TickRange \div 2 THEN d - TickRange ELSE d

\* focus_raised_first, for a focus that arrived first.
FocusRaisedFirst(focus, change) ==
    \/ NoStamp \in {focus.time, change.time}
    \/ focus.time = change.time
    \/ Ticks(change.time, focus.time) > 0

-----------------------------------------------------------------------------
(* Taking an entry in.                                                     *)

Empty == [waiting |-> <<>>, batch |-> <<>>, number |-> 0, idle |-> <<>>, closed |-> FALSE]

\* The places around the first `at` entries that no idle query divides from there.
Before(waiting, at) == {i \in 1..at : \A j \in i..at : ~IsBarrier(waiting[j])}
Ahead(waiting, at) ==
    {i \in (at + 1)..Len(waiting) : \A j \in (at + 1)..i : ~IsBarrier(waiting[j])}

\* remove_waiting: the place of the entry to remove, nearest before first; 0 for none.
FoundAround(waiting, at, Matches(_)) ==
    LET back == {i \in Before(waiting, at) : Matches(waiting[i])}
        ahead == {i \in Ahead(waiting, at) : Matches(waiting[i])}
    IN  IF back # {} THEN Max(back) ELSE IF ahead # {} THEN Min(ahead) ELSE 0

Without(s, i) == IF i = 0 THEN s ELSE RemoveAt(s, i)

\* remove_keyed.
RemoveKeyed(waiting, e, at) ==
    IF Key(e) = NoKey THEN 0 ELSE FoundAround(waiting, at, LAMBDA w : Key(w) = Key(e))

\* remove_client_focus: a window's focus event carries the window as its object.
RemoveClientFocus(waiting, e) ==
    IF e.item # "Foreground" THEN waiting
    ELSE Without(waiting,
                 FoundAround(waiting, Len(waiting),
                             LAMBDA w : /\ w.item = "Focus" /\ w.obj = e.obj
                                        /\ w.thread = e.thread
                                        /\ FocusRaisedFirst(w, e)))

\* Mutant: the old focus's events keep their places.
OldFocusEventsStay(waiting, place, old) == [waiting |-> waiting, place |-> place]

\* old_focus_events_first: the marker at `place` with the old focus's own state
\* changes behind it, up to the next marker or idle query, moved ahead of it.
OldFocusEventsFirst(waiting, place, old) ==
    LET ends == {i \in (place + 1)..Len(waiting) :
                    IsMarker(waiting[i]) \/ IsBarrier(waiting[i])}
        end == IF ends = {} THEN Len(waiting) ELSE Min(ends) - 1
        behind == SubSeq(waiting, place + 1, end)
        OfOld(w) == w.item = "State" /\ Object(w) = old
        NotOfOld(w) == ~OfOld(w)
        moved == SelectSeq(behind, OfOld)
    IN  [waiting |-> SubSeq(waiting, 1, place - 1) \o moved \o <<waiting[place]>>
                        \o SelectSeq(behind, NotOfOld)
                        \o SubSeq(waiting, end + 1, Len(waiting)),
         place |-> place + Len(moved)]

MarkerPlace(waiting, marker) ==
    LET at == {i \in 1..Len(waiting) : IsMarker(waiting[i]) /\ waiting[i].marker = marker}
    IN  IF at = {} THEN 0 ELSE Min(at)

Resolves(e) == e.item \in {"Read", "Selection", "GapRead"} /\ e.marker # NoMarker

\* The markers an entry removes without a read: a drop its own, the end of the
\* listener's reads all of them.
DropMarkers(in, e) ==
    LET Stays(w) == ~(IsMarker(w) /\ (e.item = "ReadsEnded" \/ w.marker = e.marker))
    IN  [in EXCEPT !.waiting = SelectSeq(@, Stays)]

\* Queuing an entry that is not a drop: in its marker's place, or at the back.
Queue(in, e, marks) ==
    LET InPlace(moved) == [moved.waiting EXCEPT ![moved.place] = e]
        Put(waiting, place) ==
            IF place = 0 THEN Append(waiting, e)
            ELSE InPlace(IF e.item = "Read" /\ marks.focused \in e.inside
                         THEN OldFocusEventsFirst(waiting, place, marks.focused)
                         ELSE [waiting |-> waiting, place |-> place])
        Less(place, gone) ==
            Put(RemoveClientFocus(Without(in.waiting, gone), e),
                IF place # 0 /\ gone # 0 /\ gone < place THEN place - 1 ELSE place)
        At(place) ==
            Less(place, RemoveKeyed(in.waiting, e, IF place = 0 THEN Len(in.waiting) ELSE place - 1))
    IN  [in EXCEPT !.waiting = At(IF Resolves(e) THEN MarkerPlace(in.waiting, e.marker) ELSE 0)]

\* Intake::push, of an entry the gap record has been told of.
Push(in, e, marks) ==
    CASE in.closed -> in
      [] ~in.closed /\ e.item \in {"Dropped", "NoWindow", "ReadsEnded"} -> DropMarkers(in, e)
      [] OTHER -> Queue(in, e, marks)

-----------------------------------------------------------------------------
(* Planning a batch.                                                       *)

\* How many entries are ready: all before the first marker, and through the
\* first idle query.
Ready(waiting) ==
    LET stops == {i \in 1..Len(waiting) : IsMarker(waiting[i]) \/ IsBarrier(waiting[i])}
    IN  IF stops = {} THEN Len(waiting)
        ELSE IF IsMarker(waiting[Min(stops)]) THEN Min(stops) - 1 ELSE Min(stops)

\* caret_after_update: the focused terminal's caret event moves behind the
\* newest text change of it that only events divide from it.
CaretAfterUpdate(waiting, marks) ==
    LET OfTerminal(w, uia, console) ==
            \/ w.item = uia /\ Object(w) = marks.focused
            \/ w.item = console /\ w.obj = marks.terminal
        carets == {i \in 1..Len(waiting) : OfTerminal(waiting[i], "UiaCaret", "Caret")}
        at == Min(carets)
        IsEvent(w) == w.item \in MsaaPump \cup Console \cup UiaEvents \cup {"Destroy"}
        changes == {i \in (at + 1)..Len(waiting) :
                       /\ OfTerminal(waiting[i], "Text", "Update")
                       /\ \A j \in (at + 1)..i : IsEvent(waiting[j])}
        UiaFocused == marks.focused # NoObject /\ marks.focused[1] = "Uia"
    IN  IF marks.terminal = "none" \/ ~UiaFocused \/ carets = {} \/ changes = {} THEN waiting
        ELSE InsertAt(RemoveAt(waiting, at), Max(changes), waiting[at])

\* Mutant: the limit counts from the oldest.
AdmitOldest(waiting, focused) ==
    LET FocusTo(i) == Cardinality({j \in 1..i : Category(waiting[j]) = "Focus"})
        Kept(i) == Category(waiting[i]) = "Focus" => FocusTo(i) <= FocusEventsPerBatch
    IN  FlattenSeq([i \in 1..Len(waiting) |-> IF Kept(i) THEN <<waiting[i]>> ELSE <<>>])

\* admit: what the batch limits keep, counted from the newest.
Admit(waiting, focused) ==
    LET n == Len(waiting)
        FocusAt(i) == Cardinality({j \in i..n : Category(waiting[j]) = "Focus"})
        OfThread(i) == Cardinality({j \in i..n :
                            /\ waiting[j].thread = waiting[i].thread
                            /\ \/ Category(waiting[j]) = "Other"
                               \/ waiting[j].item = "Foreground"})
        Kept(i) ==
            CASE Category(waiting[i]) = "Focus" ->
                    \/ FocusAt(i) <= FocusEventsPerBatch
                    \/ waiting[i].item = "Foreground" /\ OfThread(i) <= EventsPerThread
              [] Category(waiting[i]) = "Other" ->
                    \/ OfThread(i) <= EventsPerThread
                    \/ focused # NoObject /\ Object(waiting[i]) = focused
              [] OTHER -> TRUE
    IN  FlattenSeq([i \in 1..n |-> IF Kept(i) THEN <<waiting[i]>> ELSE <<>>])

\* The run of focus events and foreground changes whose newest is at i.
RunAt(kept, i) ==
    {j \in 1..i : InFocusRun(kept[j]) /\ \A k \in j..i : ~EndsARun(kept[k])}

\* in_raised_order, turned newest first: by the time raised when every event
\* carries it, else and within a tick by the order of arrival.
NewestFirst(kept, run) ==
    LET first == Min(run)
        Raised(i) == IF \E j \in run : kept[j].time = NoStamp THEN 0
                     ELSE Ticks(kept[i].time, kept[first].time)
        Newer(i, j) == Raised(i) > Raised(j) \/ (Raised(i) = Raised(j) /\ i > j)
        order == SetToSortSeq(run, Newer)
    IN  [i \in 1..Cardinality(run) |-> kept[order[i]]]

\* plan, of what the limits keep: runs newest first at the place of their newest,
\* the newest menu last but for an idle query, every other entry at its own place.
PlanKept(kept) ==
    LET n == Len(kept)
        LastOfRun(i) == \A j \in (i + 1)..n :
                            InFocusRun(kept[j]) => \E k \in i..j : EndsARun(kept[k])
        At(i) ==
            CASE InFocusRun(kept[i]) ->
                    IF LastOfRun(i)
                    THEN <<[do |-> "Focus", entries |-> NewestFirst(kept, RunAt(kept, i))]>>
                    ELSE <<>>
              [] kept[i].item = "Read" -> <<[do |-> "Focus", entries |-> <<kept[i]>>]>>
              [] kept[i].item = "Menu" -> <<>>
              [] OTHER -> <<[do |-> "Run", entries |-> <<kept[i]>>]>>
        menus == {i \in 1..n : kept[i].item = "Menu"}
        menu == IF menus = {} THEN <<>>
                ELSE <<[do |-> "Menu", entries |-> <<kept[Max(menus)]>>]>>
        WithMenu(planned) ==
            IF planned # <<>> /\ IsBarrier(Last(planned).entries[1])
            THEN Front(planned) \o menu \o <<Last(planned)>>
            ELSE planned \o menu
    IN  WithMenu(FlattenSeq([i \in 1..n |-> At(i)]))

Plan(waiting, focused) == PlanKept(Admit(waiting, focused))

\* Intake::next, its batch planned when there is none.
Planned(in, marks) ==
    LET ready == Ready(in.waiting)
    IN  IF in.batch # <<>> \/ ready = 0 THEN in
        ELSE [in EXCEPT
                !.waiting = SubSeq(@, ready + 1, Len(@)),
                !.batch = Plan(CaretAfterUpdate(SubSeq(in.waiting, 1, ready), marks),
                               marks.focused),
                !.number = @ + 1]

\* What next hands out once planned: a planned item, the entry kept for when
\* nothing else is ready, or nothing; and the state it leaves.
Handed(planned) ==
    CASE planned.batch # <<>> -> <<Head(planned.batch)>>
      [] planned.batch = <<>> /\ planned.idle # <<>> /\ ~planned.closed ->
            <<[do |-> "Run", entries |-> planned.idle]>>
      [] OTHER -> <<>>

AfterNext(planned) ==
    CASE planned.batch # <<>> -> [planned EXCEPT !.batch = Tail(@)]
      [] planned.batch = <<>> /\ ~planned.closed -> [planned EXCEPT !.idle = <<>>]
      [] OTHER -> planned

-----------------------------------------------------------------------------
(* The rest of the intake's operations.                                    *)

\* Intake::close.
Close(in) ==
    [in EXCEPT !.waiting = <<>>, !.batch = <<>>, !.idle = <<>>, !.closed = TRUE]

IsQuery(e, q) == e.item = "Query" /\ e.obj = q

\* entries(), as a set.
Entries(in) == ToSet(in.waiting) \cup UNION {ToSet(in.batch[i].entries) : i \in 1..Len(in.batch)}

Queued(in, q) == \E e \in Entries(in) : IsQuery(e, q)

\* Intake::cancel, of a query that is queued.
Cancel(in, q) ==
    [in EXCEPT
        !.waiting = SelectSeq(@, LAMBDA w : ~IsQuery(w, q)),
        !.batch = SelectSeq(@, LAMBDA p : ~IsQuery(p.entries[1], q))]

\* Intake::push_ahead, when_idle, take_idle and settles.
PushAhead(in, entries) ==
    IF in.closed THEN in ELSE [in EXCEPT !.waiting = entries \o @]
WhenIdle(in, e) == [in EXCEPT !.idle = <<e>>]
TakeIdle(in) == [in EXCEPT !.idle = <<>>]
Settles(in) == {e.n : e \in {x \in Entries(in) : IsBarrier(x) /\ x.obj = "settle"}}
=============================================================================
