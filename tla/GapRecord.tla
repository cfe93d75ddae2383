------------------------------ MODULE GapRecord ------------------------------
(***************************************************************************)
(* The outpost's gap record (verbatim-outpost-logic, gap_record.rs): the   *)
(* wait, after a focus event dropped because its window is read through    *)
(* UIA, or after a foreground change, for a focus of that window to be     *)
(* told to Core.  Observations are numbers in the order they were made;    *)
(* every window is its own top-level window, and NoWindow is none.         *)
(***************************************************************************)
EXTENDS Integers

CONSTANTS Windows,         \* the top-level windows
          AnsweredBefore   \* ANSWERED_BEFORE_US, in observations

ASSUME GapAssumption == AnsweredBefore \in Nat

NoWindow == "none"
Never == -10    \* no observation; further back than AnsweredBefore reaches

\* bound: "Waiting", "Queued" or "Passed" of an open record, "Closed" for none.
NoGap == [bound |-> "Closed", window |-> NoWindow, stamp |-> 0, number |-> 0,
          awaits |-> "Focus", reported |-> [w \in Windows |-> Never],
          noWindow |-> Never, bounds |-> 0]

GapOpen(g) == g.bound # "Closed"
Pending(g) == g.bound \in {"Waiting", "Queued"}

Answers(reported, copy) == reported + AnsweredBefore >= copy

CloseGap(g) == [g EXCEPT !.bound = "Closed", !.window = NoWindow, !.stamp = 0,
                         !.number = 0, !.awaits = "Focus"]

\* A new bound armed for `window`, observed at `at`.
Arm(g, window, at, awaits) ==
    [g EXCEPT !.bound = "Waiting", !.window = window, !.stamp = at,
              !.number = g.bounds + 1, !.bounds = @ + 1, !.awaits = awaits]

\* copy_dropped.  A copy in the record's window restamps it, and arms a new
\* bound once its own has passed; one in another window closes the record, and
\* opens one unless a report, or a drop for no window, answers the copy.
CopyDropped(g, window, at) ==
    CASE GapOpen(g) /\ at <= g.stamp -> g
      [] GapOpen(g) /\ at > g.stamp /\ g.window = window ->
            IF g.bound = "Passed" THEN Arm(g, window, at, "Focus")
            ELSE [g EXCEPT !.stamp = at, !.awaits = "Focus"]
      [] OTHER -> IF Answers(g.reported[window], at) \/ Answers(g.noWindow, at) THEN CloseGap(g)
                  ELSE Arm(g, window, at, "Focus")

\* CopyDropped::ReadNow: a drop for no window answers the copy, and no report does.
ReadNow(g, window, at) ==
    /\ ~(GapOpen(g) /\ (at <= g.stamp \/ g.window = window))
    /\ ~Answers(g.reported[window], at)
    /\ Answers(g.noWindow, at)

\* foreground.
ForegroundTaken(g, window, at, awaits) ==
    IF GapOpen(g) /\ at <= g.stamp THEN g
    ELSE Arm(g, window, at,
             IF GapOpen(g) /\ g.window = window /\ g.awaits = "Focus" THEN "Focus" ELSE awaits)

\* reported: a focus told to Core, kept for the look-back unless it is the
\* whole window's, and closing the record it answers.
Reported(g, window, at, whole) ==
    LET closes ==
            /\ GapOpen(g)
            /\ IF window = g.window
               THEN Answers(at, g.stamp) /\ (~whole \/ g.awaits = "Title")
               ELSE at > g.stamp
        kept == IF whole \/ window = NoWindow \/ at <= g.reported[window] THEN g
                ELSE [g EXCEPT !.reported[window] = at]
    IN  IF closes THEN CloseGap(kept) ELSE kept

\* no_window: whether an open record is read at once, and the record after it.
NoWindowReads(g, at) == GapOpen(g) /\ g.awaits = "Focus" /\ Answers(at, g.stamp)
NoWindowTaken(g, at) ==
    LET kept == [g EXCEPT !.noWindow = IF at > @ THEN at ELSE @]
    IN  IF NoWindowReads(g, at) THEN CloseGap(kept) ELSE kept

\* at_bound, bound_passed, and bound_reached of the bound's own entry.
AtBound(g) == IF g.bound = "Waiting" THEN [g EXCEPT !.bound = "Queued"] ELSE g
BoundPassed(g) == IF GapOpen(g) THEN [g EXCEPT !.bound = "Passed"] ELSE g
BoundReads(g, number) == Pending(g) /\ g.number = number

\* window_destroyed.
WindowDestroyed(g, window) == [g EXCEPT !.reported[window] = Never]
=============================================================================
