---------------------------- MODULE KeyDecisions ----------------------------
(***************************************************************************)
(* The keyboard decision machine, verbatim-input, state.rs: what one key   *)
(* transition does to the machine (a record m) and what is decided of it   *)
(* (a record d).  A gesture is the set of the names of its keys, {} is no  *)
(* gesture.  The machine owns no thread: the hook calls it.                *)
(***************************************************************************)
EXTENDS Integers, Sequences, FiniteSets, SequencesExt

CONSTANTS Keys, Name,        \* the keys, and the name each has in a gesture
          VerbatimKeys,      \* the keys configured as the Verbatim modifier
          ShiftKeys, ControlKeys, AltKeys,  \* the normal modifiers (AltKeys: Alt and Windows)
          LockKeys,          \* Caps Lock, Num Lock, Scroll Lock
          Unnamed,           \* keys Verbatim has no name for
          NumpadOperators, CharacterKeys, EnterKeys,
          QuietKeys,         \* the volume keys and the unknown key
          Bound, Observed, Held,  \* the gesture map: Held \subseteq Observed
          ShareModifier, InterruptForCharacters, InterruptForEnter,
          Timeout,           \* the multi-press timeout
          PlaceLimit,        \* the last place before the counter starts again at 1
          RepeatLimit        \* where the multi-press count saturates

ASSUME KeyAssumption ==
    /\ Held \subseteq Observed /\ Bound \cap Observed = {}
    /\ PlaceLimit \in Nat \ {0} /\ RepeatLimit \in Nat \ {0}
    /\ Timeout \in Nat

NormalModifiers == ShiftKeys \cup ControlKeys \cup AltKeys
MaskKey == "mask"

NewMachine == [heldModifiers |-> {}, keysDown |-> <<>>, lone |-> [is |-> "Idle"],
               lastGesture |-> [gesture |-> {}, at |-> 0], repeatCount |-> 0,
               line |-> <<>>, lastPlace |-> 0]

Down(m) == DOMAIN m.keysDown
OfDown(m, key) ==
    IF key \in Down(m) THEN m.keysDown[key] ELSE [reached |-> FALSE, swallowed |-> FALSE]
WithDown(m, key, down) ==
    [m EXCEPT !.keysDown = [k \in Down(m) \cup {key} |-> IF k = key THEN down ELSE m.keysDown[k]]]

(***************************************************************************)
(* The line of transitions held back and not yet passed on.                *)
(***************************************************************************)
NextPlace(m) == IF m.lastPlace < PlaceLimit THEN m.lastPlace + 1 ELSE 1

Queue(m, key, what) ==
    [m EXCEPT !.lastPlace = NextPlace(m),
              !.line = Append(@, [place |-> NextPlace(m), key |-> key, what |-> what])]

Places(m) == {m.line[i].place : i \in DOMAIN m.line}

PassedOn(m, place) ==
    IF place \in Places(m)
    THEN LET i == CHOOSE i \in DOMAIN m.line : /\ m.line[i].place = place
                                               /\ \A j \in 1..(i - 1) : m.line[j].place # place
         IN  [m EXCEPT !.line = SubSeq(@, i + 1, Len(@))]
    ELSE m

(***************************************************************************)
(* The lone tap of a Verbatim modifier: tapped alone, then pressed again   *)
(* within the timeout, its press is handed to the operating system.        *)
(***************************************************************************)
HandsPressToOs(m, key, now) ==
    \/ m.lone.is = "PassingThrough"
    \/ m.lone.is = "TapPending" /\ m.lone.key = key /\ now - m.lone.released < Timeout

Role(key, handsToOs) ==
    CASE ~handsToOs /\ key \in VerbatimKeys -> "Modifier"
      [] (handsToOs \/ key \notin VerbatimKeys) /\ key \in Unnamed -> "Unnamed"
      [] OTHER -> "Named"

AfterPress(key, handsToOs, role) ==
    CASE handsToOs -> [is |-> "PassingThrough"]
      [] ~handsToOs /\ role = "Modifier" -> [is |-> "HeldAlone", key |-> key]
      [] OTHER -> [is |-> "Idle"]

AfterRelease(lone, key, now) ==
    CASE lone.is = "PassingThrough" -> [is |-> "Idle"]
      [] lone.is \in {"HeldAlone", "TapPending"} /\ lone.key = key
         -> [is |-> "TapPending", key |-> key, released |-> now]
      [] OTHER -> lone

(***************************************************************************)
(* What a press completes, and how often it was pressed.                   *)
(***************************************************************************)
NameOf(key) == IF key \in VerbatimKeys THEN "verbatim" ELSE Name[key]

BuildGesture(m, key, role) ==
    {NameOf(k) : k \in m.heldModifiers \ {key}}
        \cup {IF role = "Modifier" THEN "verbatim" ELSE Name[key]}

\* Mutant: every press counts.
CountsEveryPress(m, gesture, key, now) ==
    LET again == m.lastGesture.gesture = gesture /\ now - m.lastGesture.at < Timeout
    IN  [m EXCEPT !.repeatCount = IF ~again THEN 0
                                  ELSE IF @ < RepeatLimit THEN @ + 1 ELSE @,
                  !.lastGesture = [gesture |-> gesture, at |-> now]]

CountPress(m, gesture, key, now) ==
    LET again == m.lastGesture.gesture = gesture /\ now - m.lastGesture.at < Timeout
    IN  IF OfDown(m, key).swallowed THEN m
        ELSE [m EXCEPT !.repeatCount = IF ~again THEN 0
                                       ELSE IF @ < RepeatLimit THEN @ + 1 ELSE @,
                       !.lastGesture = [gesture |-> gesture, at |-> now]]

EndStreak(m) == [m EXCEPT !.lastGesture = [gesture |-> {}, at |-> 0]]

Decided == [verdict |-> "Pass", place |-> 0, emitted |-> {}, repeat |-> 0, observed |-> {},
            speech |-> "None", shared |-> FALSE, typing |-> "Nothing", toggle |-> FALSE,
            mask |-> FALSE]
Swallowed(m, key) == WithDown(m, key, [OfDown(m, key) EXCEPT !.swallowed = TRUE])

OnPress(m, key, now, numLock) ==
    LET handsToOs == HandsPressToOs(m, key, now)
        role == Role(key, handsToOs)
        m1 == [m EXCEPT !.lone = AfterPress(key, handsToOs, role)]
        plain == role = "Unnamed" \/ (role = "Named" /\ numLock /\ key \in NumpadOperators)
        modifier == role = "Modifier" \/ key \in NormalModifiers
        m2 == IF modifier THEN [m1 EXCEPT !.heldModifiers = @ \cup {key}] ELSE m1
        gesture == BuildGesture(m2, key, role)
        counted == CountPress(m2, gesture, key, now)
        m3 == IF modifier THEN m2 ELSE EndStreak(m2)
    IN  CASE plain -> [m |-> EndStreak(m1), d |-> Decided]
          [] ~plain /\ gesture \in Bound ->
                [m |-> Swallowed(counted, key),
                 d |-> [Decided EXCEPT !.verdict = "Swallow", !.emitted = {gesture},
                                       !.repeat = counted.repeatCount]]
          [] ~plain /\ gesture \notin Bound /\ role = "Modifier" ->
                IF ShareModifier THEN [m |-> m3, d |-> [Decided EXCEPT !.shared = TRUE]]
                ELSE [m |-> Swallowed(m3, key), d |-> [Decided EXCEPT !.verdict = "Swallow"]]
          [] OTHER ->
                [m |-> m3,
                 d |-> [Decided EXCEPT !.shared = handsToOs /\ ShareModifier,
                                       !.observed = IF handsToOs /\ ShareModifier THEN {}
                                                    ELSE {gesture} \cap Observed]]

OnRelease(m, key, now) ==
    [m |-> [m EXCEPT !.lone = AfterRelease(@, key, now), !.heldModifiers = @ \ {key}],
     d |-> Decided]

(***************************************************************************)
(* What a press does to speech, read before the press is recorded.         *)
(***************************************************************************)
IsTypedCharacter(m, key) ==
    /\ key \notin VerbatimKeys
    /\ key \in LockKeys \/ (key \in CharacterKeys /\ m.heldModifiers \subseteq ShiftKeys)

SpeechEffect(m, key) ==
    CASE key \in QuietKeys -> "None"
      [] ~InterruptForCharacters /\ (key \in ShiftKeys \/ IsTypedCharacter(m, key)) -> "None"
      [] ~InterruptForEnter /\ key \in EnterKeys -> "None"
      [] key \in ShiftKeys -> IF key \in m.heldModifiers THEN "None" ELSE "TogglePause"
      [] OTHER -> "Cancel"

(***************************************************************************)
(* The verdict: held, deferred behind what is held, swallowed or passed.   *)
(***************************************************************************)
Defers(m, event) ==
    /\ event.source = "User"
    /\ event.key \notin LockKeys
    /\ event.permit # "None"
    /\ m.line # <<>>

PassOrDefer(m, d, event) ==
    IF Defers(m, event)
    THEN [m |-> Queue(m, event.key, IF event.pressed THEN "press" ELSE "release"),
          d |-> [d EXCEPT !.verdict = "Defer", !.place = NextPlace(m)]]
    ELSE [m |-> m, d |-> d]

\* Mutant: the key held back is not remembered.
ForgetsHeld(m, d, event) ==
    LET key == event.key
        held == /\ event.source = "User" /\ event.permit = "HoldAndDefer"
                /\ d.observed \cap Held # {}
        reached == WithDown(m, key, [OfDown(m, key) EXCEPT !.reached = TRUE])
    IN  IF d.verdict = "Swallow" THEN [m |-> WithDown(m, key, OfDown(m, key)), d |-> d]
        ELSE IF held THEN [m |-> Queue(reached, key, "held"),
                           d |-> [d EXCEPT !.verdict = "Hold", !.place = NextPlace(m)]]
        ELSE PassOrDefer(reached, d, event)

PlacePress(m, d, event) ==
    LET key == event.key
        held == /\ event.source = "User" /\ event.permit = "HoldAndDefer"
                /\ d.observed \cap Held # {}
        reached == WithDown(m, key, [OfDown(m, key) EXCEPT !.reached = ~held])
    IN  IF d.verdict = "Swallow" THEN [m |-> WithDown(m, key, OfDown(m, key)), d |-> d]
        ELSE IF held THEN [m |-> Queue(reached, key, "held"),
                           d |-> [d EXCEPT !.verdict = "Hold", !.place = NextPlace(m)]]
        ELSE PassOrDefer(reached, d, event)

PlaceRelease(m, d, event) ==
    LET key == event.key
        up == [m EXCEPT !.keysDown = [k \in Down(m) \ {key} |-> @[k]]]
    IN  IF key \in Down(m) /\ ~m.keysDown[key].reached
        THEN [m |-> up, d |-> [d EXCEPT !.verdict = "Swallow"]]
        ELSE PassOrDefer(up, d, event)

Report(d, event) ==
    LET own == event.source = "Own"
        reaches == d.verdict \in {"Pass", "Defer"}
    IN  [d EXCEPT !.speech = IF own THEN "None" ELSE @,
                  !.observed = IF own THEN {} ELSE @,
                  !.typing = IF ~event.pressed \/ ~reaches \/ d.shared \/ own THEN "Nothing"
                             ELSE IF d.observed = {} /\ event.key \notin NormalModifiers \cup LockKeys
                             THEN "TranslatedOrPassed" ELSE "Translated",
                  !.toggle = event.pressed /\ d.verdict = "Pass" /\ ~d.shared
                             /\ event.key \in LockKeys]

ModifiersMayActAlone(m) ==
    LET reached(set) == \E k \in set \cap m.heldModifiers : OfDown(m, k).reached
    IN  reached(AltKeys) \/ (reached(ControlKeys) /\ reached(ShiftKeys))

\* A gesture whose modifiers may act alone is followed by the mask key.
Masked(r, event) ==
    IF /\ r.d.emitted # {} /\ event.source = "User" /\ event.mayMask
       /\ ModifiersMayActAlone(r.m)
    THEN [m |-> Queue(Queue(r.m, MaskKey, "press"), MaskKey, "release"),
          d |-> [r.d EXCEPT !.mask = TRUE]]
    ELSE r

OnKey(m, event) ==
    LET down(r) == PlacePress(r.m, [r.d EXCEPT !.speech = SpeechEffect(m, event.key)], event)
        up(r) == PlaceRelease(r.m, r.d, event)
        reported(r) == [r EXCEPT !.d = Report(@, event)]
    IN  Masked(reported(IF event.pressed THEN down(OnPress(m, event.key, event.now, event.numLock))
                        ELSE up(OnRelease(m, event.key, event.now))), event)
=============================================================================
