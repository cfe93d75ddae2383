---------------------------- MODULE IntakeQueue ----------------------------
(***************************************************************************)
(* The intake in use: the reducer pushes each entry it drains from the     *)
(* mailbox, in mailbox order, and takes the next planned item whenever no  *)
(* program runs, so a batch is whatever accumulated meanwhile.  The        *)
(* listener resolves each marker once, with a read, a marked event or a    *)
(* drop, in any order, or ends its reads; a read may name a marker the     *)
(* intake never saw.                                                       *)
(***************************************************************************)
EXTENDS Intake

CONSTANTS Scenarios       \* letters, the entries that may arrive, without number;
                          \* pushes, a bound on those taken in; marks, what the
                          \* planning reads of the focus

VARIABLES scenario,       \* the one of a behaviour, never changed
          intake,         \* the queue
          pushed,         \* every entry taken in, in order
          place,          \* whose place in the order each has: its own, or its marker's
          handed,         \* the planned items handed out, in order
          withdrawn       \* the queries Core cancelled in time

vars == <<scenario, intake, pushed, place, handed, withdrawn>>

Letters == scenario.letters
Marks == scenario.marks

Init ==
    /\ scenario \in Scenarios
    /\ intake = Empty
    /\ pushed = <<>> /\ place = <<>> /\ handed = <<>> /\ withdrawn = {}

Numbered(l) ==
    [n |-> Len(pushed) + 1, item |-> l.item, obj |-> l.obj, thread |-> l.thread,
     time |-> l.time, marker |-> l.marker, inside |-> l.inside]

Arrived(item, marker) ==
    \E i \in 1..Len(pushed) : pushed[i].item = item /\ pushed[i].marker = marker

Resolving == {"Read", "Selection", "Dropped", "NoWindow"}

\* The listener numbers each marker once and resolves it once, and nothing of
\* its reads comes after their end.
CanArrive(l) ==
    /\ l.item = "Marker" => ~Arrived("Marker", l.marker)
    /\ l.item \in Resolving /\ l.marker # NoMarker =>
            \A item \in Resolving : ~Arrived(item, l.marker)
    /\ l.item \in {"Dropped", "Selection", "NoWindow"} /\ l.marker # NoMarker =>
            Arrived("Marker", l.marker)
    /\ l.item \in Resolving \cup {"Marker", "ReadsEnded"} => ~Arrived("ReadsEnded", NoMarker)

Arrive(l) ==
    /\ Len(pushed) < scenario.pushes
    /\ CanArrive(l)
    /\ LET e == Numbered(l)
           at == MarkerPlace(intake.waiting, e.marker)
       IN  /\ intake' = Push(intake, e, Marks)
           /\ pushed' = Append(pushed, e)
           /\ place' = Append(place, IF Resolves(e) /\ at # 0 THEN intake.waiting[at].n ELSE e.n)
    /\ UNCHANGED <<scenario, handed, withdrawn>>

TakeOf(planned) ==
    /\ Handed(planned) # <<>>
    /\ handed' = handed \o Handed(planned)
    /\ intake' = AfterNext(planned)

Take ==
    /\ TakeOf(Planned(intake, Marks))
    /\ UNCHANGED <<scenario, pushed, place, withdrawn>>

Withdraw(q) ==
    /\ Queued(intake, q)
    /\ intake' = Cancel(intake, q)
    /\ withdrawn' = withdrawn \cup {e.n : e \in {x \in Entries(intake) : IsQuery(x, q)}}
    /\ UNCHANGED <<scenario, pushed, place, handed>>

Next ==
    \/ \E l \in Letters : Arrive(l)
    \/ Take
    \/ \E q \in {l.obj : l \in {x \in Letters : x.item = "Query"}} : Withdraw(q)

Spec == Init /\ [][Next]_vars

-----------------------------------------------------------------------------
Numbers == 1..Len(pushed)
HandedOf(i) == {e.n : e \in ToSet(handed[i].entries)}
HandedOut == UNION {HandedOf(i) : i \in 1..Len(handed)}
StillQueued == {e.n : e \in Entries(intake)}
\* The markers whose read, marked event or drop, or the end of all reads, is still to come.
Unresolved ==
    {n \in Numbers :
        /\ IsMarker(pushed[n])
        /\ ~\E m \in (n + 1)..Len(pushed) :
                \/ pushed[m].item = "ReadsEnded"
                \/ pushed[m].item \in Resolving /\ pushed[m].marker = pushed[n].marker}
Barriers == {n \in Numbers : IsBarrier(pushed[n])}

\* "nothing taken in after the marker is planned until the read takes the
\* marker's place, or a drop removes it": while a marker waits, nothing whose
\* place is behind it is planned or handed out, whatever order the reads, drops
\* and events came in.
NothingPassesAMarker ==
    \A m \in Unresolved :
        \A n \in HandedOut \cup UNION {{e.n : e \in ToSet(intake.batch[i].entries)} :
                                          i \in 1..Len(intake.batch)} :
            place[n] < m

\* "An idle query splits what waits into stretches, each holding at most one
\* entry per key": the removal of the first match found is the removal of all.
OnePerKey ==
    \A i, j \in 1..Len(intake.waiting) :
        \/ i = j
        \/ Key(intake.waiting[i]) = NoKey
        \/ Key(intake.waiting[i]) # Key(intake.waiting[j])
        \/ \E k \in 1..Len(intake.waiting) :
                (k \in i..j \/ k \in j..i) /\ IsBarrier(intake.waiting[k])

\* Everything is handled once and nothing is left out but for the stated
\* reasons: a newer entry of the same key in the same stretch, the batch limits
\* (only with as many newer ones), a foreground change of the window, a newer
\* menu opening, a query withdrawn.  In particular no place is overwritten when
\* a read takes its marker's.
NothingLost ==
    \A n \in Numbers :
        LET e == pushed[n]
            newer == (n + 1)..Len(pushed)
            Replaced == \E m \in newer :
                /\ Key(pushed[m]) = Key(e) /\ Key(e) # NoKey
                /\ ~\E b \in Barriers : \/ place[n] < b /\ b < place[m]
                                        \/ place[m] < b /\ b < place[n]
            PastFocus == Cardinality({m \in newer : InFocusRun(pushed[m])}) >= FocusEventsPerBatch
            PastThread == /\ Object(e) # Marks.focused
                          /\ Cardinality({m \in newer :
                                /\ pushed[m].thread = e.thread
                                /\ Category(pushed[m]) = "Other" \/ pushed[m].item = "Foreground"})
                                    >= EventsPerThread
            Changed == \E m \in newer :
                /\ pushed[m].item = "Foreground" /\ pushed[m].obj = e.obj
                /\ pushed[m].thread = e.thread /\ FocusRaisedFirst(e, pushed[m])
        IN  \/ n \in HandedOut \/ n \in StillQueued \/ n \in withdrawn
            \/ e.item \in {"Marker", "Dropped", "NoWindow", "ReadsEnded"}
            \/ Replaced
            \/ e.item = "Menu" /\ \E m \in newer : pushed[m].item = "Menu"
            \/ e.item = "Focus" /\ (PastFocus \/ Changed)
            \/ e.item = "Foreground" /\ PastFocus /\ PastThread
            \/ Category(e) = "Other" /\ PastThread

\* A marker leaves only for its own read, marked event or drop, or the end of
\* the listener's reads: another's resolution, a merge or a cancel leaves it.
MarkersWaitForTheirReads == Unresolved \subseteq StillQueued

\* No entry is handed out twice, by a newer copy, a moved place or a group.
HandedOnce ==
    \A i, j \in 1..Len(handed) :
        /\ i # j => HandedOf(i) \cap HandedOf(j) = {}
        /\ Cardinality(HandedOf(i)) = Len(handed[i].entries)

\* The idle barrier: what has its place before an idle query is handed out
\* before it, or never; what has its place after it, after it.
BarrierDivides ==
    \A i \in 1..Len(handed) : IsBarrier(handed[i].entries[1]) =>
        LET b == handed[i].entries[1].n
        IN  /\ \A j \in 1..(i - 1) : \A n \in HandedOf(j) : place[n] < b
            /\ \A j \in (i + 1)..Len(handed) : \A n \in HandedOf(j) : place[n] > b
            /\ \A n \in StillQueued : place[n] > b

\* "planned in the order it arrived: nothing moves ahead of what came before it"
\* but for the focused terminal's caret, the old focus's state changes, a run at
\* the place of its newest, and the menu opening last.
Place(i) == Max({place[n] : n \in HandedOf(i)})
Moves(i) ==
    \/ handed[i].do = "Menu"
    \/ handed[i].entries[1].item \in {"State", "UiaCaret", "Caret"}
OrderKept ==
    \A i, j \in 1..Len(handed) :
        i < j /\ ~Moves(i) /\ ~Moves(j) => Place(i) < Place(j)

\* Each run of MSAA focus events is tried in the order Windows raised them,
\* newest first, across the wrap of the clock, whichever copy arrived first.
NewestTriedFirst ==
    \A i \in 1..Len(handed) :
        LET run == handed[i].entries
        IN  (\A k \in 1..Len(run) : run[k].time # NoStamp) =>
                \A k \in 1..(Len(run) - 1) :
                    \/ Ticks(run[k].time, run[k + 1].time) > 0
                    \/ run[k].time = run[k + 1].time /\ run[k].n > run[k + 1].n

\* A state change of the old focus that waits when the read of a focus inside
\* it takes its marker's place is handled before that focus, unless another
\* marker or an idle query has its place between them.
OldFocusStatesFirst ==
    \A i, j \in 1..Len(handed) :
        LET read == handed[i].entries[1]
            state == handed[j].entries[1]
        IN  /\ i < j
            /\ read.item = "Read" /\ Marks.focused \in read.inside /\ place[read.n] # read.n
            /\ state.item = "State" /\ Object(state) = Marks.focused
            /\ state.n < read.n
            => \E n \in Numbers :
                   /\ IsMarker(pushed[n]) \/ IsBarrier(pushed[n])
                   /\ place[read.n] < n /\ n < state.n

\* The focused terminal's caret event is not handed out ahead of a text change of
\* the terminal planned in its batch when only events came between them: the change's
\* read reads the caret too.
CaretBehindChange ==
    \A i, j \in 1..Len(intake.batch) :
        LET caret == intake.batch[i].entries[1]
            change == intake.batch[j].entries[1]
        IN  ~(/\ i < j
              /\ caret.item = "UiaCaret" /\ Object(caret) = Marks.focused
              /\ \/ change.item = "Text" /\ Object(change) = Marks.focused
                 \/ change.item = "Update" /\ change.obj = Marks.terminal
              /\ \A k \in (caret.n)..(change.n) : pushed[k].item \notin {"Query", "NodesHeld"})

\* Everything that arrives is handled, once, but what a rule of the intake leaves
\* out: marked, merged, planned and handed out through any number of batches.
IntakeWhole ==
    NothingLost /\ HandedOnce /\ OnePerKey /\ MarkersWaitForTheirReads

\* What is handed out keeps the order it arrived in, but for the moves intake.rs
\* states, none of which crosses a marker or an idle query.
IntakeOrdered ==
    /\ NothingPassesAMarker /\ BarrierDivides /\ OrderKept
    /\ NewestTriedFirst /\ OldFocusStatesFirst /\ CaretBehindChange
=============================================================================
