------------------------------- MODULE MCKeys -------------------------------
(* Instances of the keyboard: keys held back and passed on in order, and    *)
(* the Verbatim modifier's taps and chords where nothing is held.  A        *)
(* behaviour works one of the two.                                          *)
EXTENDS KeyLine

VARIABLES taps, tapped, now, numLock, down, last, given, log, decided

tapVars == <<taps, tapped, now, numLock, down, last, given, log, decided>>

MCName == [downarrow |-> "downarrow", a |-> "a", v |-> "v", shift |-> "shift", alt |-> "alt",
           num |-> "numlock", caps |-> "capslock", ins |-> "insert", plus |-> "plus",
           ctrl |-> "control"]

(* Down Arrow is held, with and without Shift; Alt and V are a bound chord, *)
(* whose mask joins the line.                                               *)
MCBound == {{"alt", "v"}}
MCHeld == {{"downarrow"}, {"shift", "downarrow"}}

Bounds(keys, made, refused, focus, fronts, exit, place) ==
    [keys |-> {"downarrow"} \cup keys, made |-> made, refused |-> refused, focus |-> focus,
     fronts |-> fronts, exit |-> exit, place |-> place]

NoKeys == Bounds({}, 0, 0, 0, 0, FALSE, 0)

LineScenarios ==
    {NoKeys,
     Bounds({"a", "shift"}, 4, 0, 1, 0, FALSE, PlaceLimit - 2),
     Bounds({"a", "num"}, 4, 1, 0, 1, FALSE, PlaceLimit - 1),
     Bounds({"alt", "v"}, 4, 0, 1, 0, FALSE, 0),
     Bounds({"a", "shift"}, 4, 0, 0, 0, TRUE, 0)}

(* Caps Lock as the Verbatim modifier; Caps Lock and Insert, shared with    *)
(* the application.  V and the numpad's plus are bound.                     *)
TapBound == {{"verbatim", "v"}, {"verbatim", "plus"}}

Taps == INSTANCE KeyTaps WITH
    Keys <- {"caps", "v", "plus"}, VerbatimKeys <- {"caps"}, ShiftKeys <- {}, AltKeys <- {},
    LockKeys <- {"caps"}, CharacterKeys <- {"v"}, NumpadOperators <- {"plus"}, Bound <- TapBound,
    Observed <- {}, Held <- {}, MaxLog <- 5, MaxNow <- 2, DownFirst <- {"v"},
    m <- tapped, app <- given

Shared == INSTANCE KeyTaps WITH
    Keys <- {"caps", "ins", "v", "ctrl"}, VerbatimKeys <- {"caps", "ins"}, ShiftKeys <- {},
    ControlKeys <- {"ctrl"}, AltKeys <- {}, LockKeys <- {"caps"}, CharacterKeys <- {"v"},
    Bound <- TapBound, Observed <- {}, Held <- {}, ShareModifier <- TRUE,
    MaxLog <- 6, MaxNow <- 0, DownFirst <- {"v"}, m <- tapped, app <- given

MCInit ==
    /\ Init
    /\ taps \in {"none", "taps", "shared"}
    /\ (bounds = NoKeys) = (taps # "none")
    /\ taps # "none" => view.text
    /\ CASE taps = "none" -> Taps!Init /\ down = {} /\ numLock
         [] taps = "taps" -> Taps!Init
         [] taps = "shared" -> Shared!Init

MCNext ==
    \/ taps = "none" /\ Next /\ UNCHANGED tapVars
    \/ taps = "taps" /\ Taps!Next /\ UNCHANGED <<kvars, taps>>
    \/ taps = "shared" /\ Shared!Next /\ UNCHANGED <<kvars, taps>>

MCSpec == MCInit /\ [][MCNext]_<<kvars, tapVars>> /\ Fairness

-----------------------------------------------------------------------------
(* What KeyTaps promises of either configuration. *)

(* No application is told of a release of a press it never saw, and no key  *)
(* let go is left down in it.                                               *)
PressesAndReleasesPair ==
    IF taps = "shared" THEN Shared!PressesAndReleasesPair ELSE Taps!PressesAndReleasesPair

(* The modifier's own press reaches Windows only for a double tap. *)
HandedOverOnDoubleTap == taps = "taps" => Taps!HandedOverOnDoubleTap

(* A gesture's count is its presses in a row, auto-repeat never counting. *)
CountIsPressesInARow == taps = "taps" => Taps!CountIsPressesInARow

(* What the modifier's taps and chords leave the application and Windows    *)
(* with is what the user did.                                               *)
TapsAsMade == PressesAndReleasesPair /\ HandedOverOnDoubleTap /\ CountIsPressesInARow
=============================================================================
