------------------------------ MODULE KeyTaps ------------------------------
(***************************************************************************)
(* The decision machine fed by a keyboard, in a window where no key may be *)
(* held (permit None): presses, Windows' auto-repeat of the key pressed    *)
(* last, releases, keys already down when the hook starts.  app is what    *)
(* the application has down, log the transitions the hook saw.             *)
(***************************************************************************)
EXTENDS KeyDecisions

CONSTANTS MaxLog,   \* bound: transitions the user makes
          MaxNow,   \* bound: the clock
          DownFirst \* keys that may be down before the hook sees any

VARIABLES m, now, numLock, down, last, app, log, decided

tvars == <<m, now, numLock, down, last, app, log, decided>>

NothingDecided == [key |-> "none", pressed |-> FALSE, repeat |-> FALSE, handed |-> FALSE,
                   stray |-> FALSE, d |-> Decided]

Init ==
    /\ m = NewMachine /\ now = 0 /\ last = "none" /\ log = <<>> /\ decided = NothingDecided
    /\ down \in {{}, DownFirst} /\ app = down /\ numLock \in BOOLEAN

Event(key, pressed) ==
    [key |-> key, pressed |-> pressed, now |-> now, numLock |-> numLock, source |-> "User",
     permit |-> "None", mayMask |-> FALSE]

Handle(key, pressed, repeat) ==
    LET r == OnKey(m, Event(key, pressed))
        passes == r.d.verdict = "Pass"
    IN  /\ m' = r.m
        /\ app' = IF ~passes THEN app ELSE IF pressed THEN app \cup {key} ELSE app \ {key}
        /\ log' = Append(log, [key |-> key, pressed |-> pressed, repeat |-> repeat, at |-> now,
                              emitted |-> r.d.emitted,
                              handed |-> pressed /\ passes /\ key \in VerbatimKeys])
        /\ decided' = [key |-> key, pressed |-> pressed, repeat |-> repeat,
                       handed |-> pressed /\ passes /\ key \in VerbatimKeys
                                  /\ m.lone.is # "PassingThrough",
                       stray |-> passes /\ ~pressed /\ key \notin app, d |-> r.d]
        /\ UNCHANGED <<now, numLock>>

Press(key) ==
    /\ key \notin down /\ Len(log) < MaxLog
    /\ down' = down \cup {key} /\ last' = key
    /\ Handle(key, TRUE, FALSE)

AutoRepeat ==
    /\ last \in down /\ Len(log) < MaxLog
    /\ Handle(last, TRUE, TRUE)
    /\ UNCHANGED <<down, last>>

Release(key) ==
    /\ key \in down /\ Len(log) < MaxLog
    /\ down' = down \ {key} /\ last' = IF last = key THEN "none" ELSE last
    /\ Handle(key, FALSE, FALSE)

Tick == now < MaxNow /\ now' = now + 1 /\ UNCHANGED <<m, numLock, down, last, app, log, decided>>

Next == AutoRepeat \/ Tick \/ \E key \in Keys : Press(key) \/ Release(key)

Spec == Init /\ [][Next]_tvars

(***************************************************************************)
(* No application is told of a release of a press it never saw, and no key *)
(* the user has let go is left down in it, whatever the presses of the key *)
(* were (swallowed for a chord, handed over, repeated, then not).          *)
(***************************************************************************)
PressesAndReleasesPair ==
    /\ ~decided.stray
    /\ app \subseteq down
    /\ Down(m) \subseteq down /\ m.heldModifiers \subseteq down

(***************************************************************************)
(* The Verbatim modifier's own press reaches the operating system only for *)
(* a double tap: the same key was pressed and released, within the timeout *)
(* of this press, and nothing else was pressed from that press on.         *)
(***************************************************************************)
DoubleTap(key, i, j, n) ==
    /\ i < j /\ log[i].key = key /\ log[i].pressed /\ log[j].key = key /\ ~log[j].pressed
    /\ log[n].at - log[j].at < Timeout
    /\ \A l \in (i + 1)..(n - 1) : l # j => ~log[l].pressed /\ log[l].key # key
HandedOverOnDoubleTap ==
    decided.handed /\ ~ShareModifier =>
        LET n == Len(log)
        IN  /\ log[n].key = decided.key /\ ~log[n].repeat
            /\ \E i, j \in 1..(n - 1) : DoubleTap(decided.key, i, j, n)

(***************************************************************************)
(* The count a gesture is given is the number of times in a row it was     *)
(* pressed, each within the timeout of the one before, with no other key   *)
(* than a modifier pressed between: Windows' auto-repeat never counts.     *)
(***************************************************************************)
Matters == SelectSeq(log, LAMBDA entry :
               /\ entry.pressed
               /\ IF entry.emitted # {} THEN ~entry.repeat
                  ELSE entry.key \notin VerbatimKeys \cup NormalModifiers \/ entry.handed)
InARow ==
    LET n == Len(Matters)
        run == {i \in 1..n : /\ \A j \in i..n : Matters[j].emitted = Matters[n].emitted
                             /\ \A j \in (i + 1)..n : Matters[j].at - Matters[j - 1].at < Timeout}
    IN  Cardinality(run)
CountIsPressesInARow ==
    decided.d.emitted # {} /\ ~decided.repeat =>
        decided.d.repeat = IF InARow - 1 < RepeatLimit THEN InARow - 1 ELSE RepeatLimit

=============================================================================
