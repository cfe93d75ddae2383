------------------------------ MODULE MCOutpost ------------------------------
(* Instances of the outpost's reducer, and of its intake alone with every   *)
(* kind of entry.  A behaviour works one of the two.                        *)
EXTENDS Outpost

VARIABLES load, queue, pushed, place, handed, withdrawn

queueVars == <<load, queue, pushed, place, handed, withdrawn>>

Event(item, obj) == [item |-> item, obj |-> obj, front |-> "Not"]
Shown(obj, front) == [item |-> "Foreground", obj |-> obj, front |-> front]
Query(q) == Event("Query", q)

Kinds == [k1 |-> "Key", k2 |-> "Console", f |-> "FocusNow", s |-> "Shell"]
Nodes == [k1 |-> "a", k2 |-> "a", f |-> "a", s |-> "a"]

\* Two caret keys of one text, its caret events, Core's held list.
KeyLetters ==
    LET any == {Query("k1"), Query("k2"), Event("UiaCaret", "a"), Event("NodesHeld", "a")}
    IN  <<any, any, any \ {Event("NodesHeld", "a")}>>

\* A caret key left for another window, with or without a focus told there.
LeaveLetters ==
    <<{Query("k1")}, {Event("UiaCaret", "a"), Shown("b", "Title")},
      {Shown("b", "Focus"), Event("Focus", "b")}>>

\* Reads and focus-now, whose walks have bounds, and a shell query behind them.
WalkLetters == <<{Event("Read", "a"), Query("f")}, {Event("Read", "b"), Query("f"), Query("s")}>>

\* A run of focus events behind one in hand, with a drop for no window, which has
\* a copy dropped for UIA read at once.
GroupLetters ==
    <<{Event("Focus", "c")}, {Event("NoWindow", "a")}, {Event("Focus", "a")},
      {Event("Focus", "b")}>>

\* A round's query among what it has to wait for.
IdleLetters ==
    <<{Event("UiaCaret", "a"), Query("k2"), Shown("a", "Focus")},
      {Event("UiaCaret", "a"), Event("Focus", "a"), Event("Barrier", "round")},
      {Event("Barrier", "round"), Event("UiaCaret", "a")}>>

\* Events of windows that hang and are destroyed.
HangLetters ==
    <<{Event("Text", "a")}, {Event("Destroy", "a"), Event("Text", "b")},
      {Event("Destroy", "a"), Event("Text", "a")}>>

\* A caret key or a foreground change, a caret event, and a round's query.
LiveLetters ==
    <<{Query("k1"), Query("k2"), Shown("b", "Focus")}, {Event("UiaCaret", "a")},
      {Event("Barrier", "round")}>>

Scenario(letters) ==
    [letters |-> letters, verdicts |-> {}, finds |-> {}, owes |-> FALSE, closes |-> FALSE]
AtRest == Scenario(<<>>)
MCScenarios ==
    {AtRest, [Scenario(KeyLetters) EXCEPT !.closes = TRUE], Scenario(LeaveLetters),
     [Scenario(WalkLetters) EXCEPT !.verdicts = {"MovedOn"}, !.owes = TRUE, !.closes = TRUE],
     Scenario(GroupLetters), Scenario(IdleLetters),
     [Scenario(HangLetters) EXCEPT !.verdicts = {"Hung"}, !.finds = {"Hung", "Answered"}]}
LiveScenarios == {Scenario(LiveLetters)}

-----------------------------------------------------------------------------
(* The intake alone. *)

Letter(item, obj, thread, time, marker, inside) ==
    [item |-> item, obj |-> obj, thread |-> thread, time |-> time,
     marker |-> marker, inside |-> inside]
Plain(item, obj) == Letter(item, obj, 0, NoStamp, NoMarker, {})

Old == <<"Uia", "old">>
OnOld == [focused |-> Old, terminal |-> "none"]
OnTerminal == [focused |-> <<"Uia", "term">>, terminal |-> "window"]
OnWindow == [focused |-> <<"Msaa", "v">>, terminal |-> "none"]

\* Focus events and foreground changes of two windows, raised across the wrap of
\* the clock, with what ends a run and what does not.
RunLetters ==
    {Letter("Focus", w, 1, t, NoMarker, {}) : w \in {"v", "w"}, t \in {TickRange - 1, 0}}
    \cup {Letter("Foreground", "w", 1, t, NoMarker, {}) : t \in {TickRange - 1, 0}}
    \cup {Letter("Event", "v", 1, 0, NoMarker, {}),
          Plain("Menu", "m"), Plain("Barrier", "core")}

\* Two markers with their reads, a marked selection, drops and the end of the
\* reads, between the old focus's events, a query and an idle query.
MarkerLetters ==
    {Letter("Marker", "l", 0, NoStamp, m, {}) : m \in {1, 2}}
    \cup {Letter("Read", o, 0, NoStamp, m, {Old}) : o \in {"new"}, m \in {1, 2}}
    \cup {Letter("Selection", "s", 0, NoStamp, 2, {}), Letter("Dropped", "l", 0, NoStamp, 1, {}),
          Plain("ReadsEnded", "l"), Plain("Selection", "s"),
          Plain("State", "old"), Plain("Query", "q"), Plain("Barrier", "core")}

\* A focused terminal's caret and text changes, with what may lie between.
TerminalLetters ==
    {Plain(i, "term") : i \in {"UiaCaret", "Text"}}
    \cup {Letter(i, "window", 1, NoStamp, NoMarker, {}) : i \in {"Update", "Event"}}
    \cup {Plain("Query", "q"), Plain("NodesHeld", "core")}

NoLoad == [letters |-> {}, pushes |-> 0, marks |-> OnOld]
Loads ==
    {NoLoad,
     [letters |-> RunLetters, pushes |-> 4, marks |-> OnWindow],
     [letters |-> MarkerLetters, pushes |-> 5, marks |-> OnOld],
     [letters |-> TerminalLetters, pushes |-> 4, marks |-> OnTerminal]}

Alone == INSTANCE IntakeQueue WITH
    FocusEventsPerBatch <- 2, EventsPerThread <- 1,
    Scenarios <- Loads, scenario <- load, intake <- queue

MCInit == Init /\ Alone!Init /\ (scenario = AtRest) # (load = NoLoad)
MCNext ==
    \/ load = NoLoad /\ Next /\ UNCHANGED queueVars
    \/ scenario = AtRest /\ Alone!Next /\ UNCHANGED vars
MCSpec == MCInit /\ [][MCNext]_<<vars, queueVars>>

LiveSpec == MCSpec /\ Fairness

(***************************************************************************)
(* A view without the absolute numbers of requests, generations, batches   *)
(* and bounds.  A new one is always beyond every number in use and they    *)
(* are only compared for equality with the ones in charge, so states that  *)
(* differ in nothing else behave alike.                                    *)
(***************************************************************************)
Now(request) == RunningOf(st.flight, request)
Bare(e) == [e EXCEPT !.marker = IF e.marker = st.gap.number THEN 1 ELSE 0]
BareAll(entries) == [i \in 1..Len(entries) |-> Bare(entries[i])]
BareIntake ==
    [st.intake EXCEPT
        !.number = 0, !.waiting = BareAll(st.intake.waiting),
        !.batch = [i \in 1..Len(st.intake.batch) |->
            [do |-> st.intake.batch[i].do, entries |-> BareAll(st.intake.batch[i].entries)]]]
NumberFree ==
    <<[st EXCEPT
        !.flight = [@ EXCEPT !.generation = 0, !.requests = 0, !.request = NoRequest],
        !.job.request = NoRequest, !.asks = <<>>, !.intake = BareIntake,
        !.owed.attempting = IF @ = -1 THEN -1 ELSE IF @ = st.flight.generation THEN 1 ELSE 0,
        !.gap = [@ EXCEPT !.number = 0, !.bounds = 0]],
      [i \in 1..Len(posts) |-> <<Now(posts[i].request), [posts[i] EXCEPT !.request = NoRequest]>>],
      [i \in 1..Len(st.asks) |-> <<st.asks[i].ask, st.asks[i].why, Now(st.asks[i].request)>>],
      arrived, scenario, queueVars>>

-----------------------------------------------------------------------------
(* What IntakeQueue promises of the intake alone. *)

\* Everything is handled, once, but what a rule leaves out (intake.rs push, next).
IntakeWhole == Alone!IntakeWhole

\* What is handed out keeps its order but for the stated moves (intake.rs plan).
IntakeOrdered == Alone!IntakeOrdered
=============================================================================
