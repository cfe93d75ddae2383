---------------------------- MODULE KeyTapsProofs ----------------------------
(***************************************************************************)
(* What a keyboard's presses and releases leave an application with, and   *)
(* when the Verbatim modifier's own press reaches Windows, for any keys,   *)
(* any modifiers, any gesture map and any timeout.                         *)
(***************************************************************************)
EXTENDS KeyTaps, TLAPS

\* A record with the machine's fields.
Machine(s) ==
    s = [heldModifiers |-> s.heldModifiers, keysDown |-> s.keysDown, lone |-> s.lone,
         lastGesture |-> s.lastGesture, repeatCount |-> s.repeatCount,
         line |-> s.line, lastPlace |-> s.lastPlace]

\* A record with a decision's fields.
Decision(d) ==
    d = [verdict |-> d.verdict, place |-> d.place, emitted |-> d.emitted, repeat |-> d.repeat,
         observed |-> d.observed, speech |-> d.speech, shared |-> d.shared, typing |-> d.typing,
         toggle |-> d.toggle, mask |-> d.mask]

\* What is recorded of the keys down.
Recorded(s) == s.keysDown \in [Down(s) -> [reached : BOOLEAN, swallowed : BOOLEAN]]

-----------------------------------------------------------------------------
(* Recording a key changes what is recorded of that key alone.             *)
LEMMA RecordKey ==
    ASSUME NEW s, Machine(s), Recorded(s), NEW key, NEW w \in [reached : BOOLEAN, swallowed : BOOLEAN]
    PROVE  LET n == WithDown(s, key, w)
           IN  /\ Machine(n) /\ Recorded(n) /\ Down(n) = Down(s) \cup {key}
               /\ n.keysDown[key] = w /\ \A k \in Down(s) \ {key} : n.keysDown[k] = s.keysDown[k]
               /\ n.heldModifiers = s.heldModifiers /\ n.lone = s.lone /\ n.line = s.line
<1> DEFINE n == WithDown(s, key, w)
           f == [k \in Down(s) \cup {key} |-> IF k = key THEN w ELSE s.keysDown[k]]
<1>1. n = [s EXCEPT !.keysDown = f]
  BY DEF WithDown
<1> HIDE DEF n, f
<1>2. n.keysDown = f /\ Machine(n) /\ n.heldModifiers = s.heldModifiers /\ n.lone = s.lone /\ n.line = s.line
  BY <1>1 DEF Machine
<1>3. /\ DOMAIN f = Down(s) \cup {key} /\ f[key] = w
      /\ \A k \in Down(s) \ {key} : f[k] = s.keysDown[k]
      /\ \A k \in DOMAIN f : f[k] \in [reached : BOOLEAN, swallowed : BOOLEAN]
      /\ f \in [DOMAIN f -> [reached : BOOLEAN, swallowed : BOOLEAN]]
  BY DEF f, Recorded
<1> QED
  BY <1>2, <1>3 DEF Recorded, Down, n

\* What is on record of a key, or of one that is not.
LEMMA OfDownIs ==
    ASSUME NEW s, Recorded(s), NEW key
    PROVE  /\ OfDown(s, key) \in [reached : BOOLEAN, swallowed : BOOLEAN]
           /\ key \in Down(s) => OfDown(s, key) = s.keysDown[key]
           /\ key \notin Down(s) => ~OfDown(s, key).reached
  BY DEF OfDown, Recorded

\* Recorded as swallowed, a key has reached the application as before.
LEMMA SwallowKey ==
    ASSUME NEW s, Machine(s), Recorded(s), NEW key
    PROVE  LET n == Swallowed(s, key)
           IN  /\ Machine(n) /\ Recorded(n) /\ Down(n) = Down(s) \cup {key}
               /\ n.keysDown[key].reached = OfDown(s, key).reached
               /\ \A k \in Down(s) \ {key} : n.keysDown[k] = s.keysDown[k]
               /\ n.heldModifiers = s.heldModifiers /\ n.lone = s.lone /\ n.line = s.line
<1> DEFINE w == [OfDown(s, key) EXCEPT !.swallowed = TRUE]
<1>1. w \in [reached : BOOLEAN, swallowed : BOOLEAN] /\ w.reached = OfDown(s, key).reached
  BY OfDownIs
<1>2. Swallowed(s, key) = WithDown(s, key, w)
  BY DEF Swallowed
<1> HIDE DEF w
<1> QED
  BY <1>1, <1>2, RecordKey

-----------------------------------------------------------------------------
\* A machine that records what s does, with the key perhaps held as a modifier.
Alike(s, n, key, lone) ==
    /\ Machine(n) /\ n.keysDown = s.keysDown /\ n.line = s.line /\ n.lone = lone
    /\ n.heldModifiers \subseteq s.heldModifiers \cup {key}

\* Press, once the modifiers and what the press completes are known (on_press).
LEMMA PressIs ==
    ASSUME NEW s, Machine(s), Recorded(s), NEW key, NEW at, NEW lock
    PROVE  LET r == OnPress(s, key, at, lock)
               hands == HandsPressToOs(s, key, at)
               lone == AfterPress(key, hands, Role(key, hands))
           IN  /\ r = [m |-> r.m, d |-> r.d] /\ Decision(r.d)
               /\ \/ r.d.verdict = "Pass" /\ Alike(s, r.m, key, lone)
                  \/ /\ r.d.verdict = "Swallow"
                     /\ \E n : Alike(s, n, key, lone) /\ r.m = Swallowed(n, key)
               /\ r.d.verdict = "Pass" /\ key \in VerbatimKeys /\ ~ShareModifier => hands
<1> DEFINE hands == HandsPressToOs(s, key, at)
           role == Role(key, hands)
           lone == AfterPress(key, hands, role)
           m1 == [s EXCEPT !.lone = lone]
           plain == role = "Unnamed" \/ (role = "Named" /\ lock /\ key \in NumpadOperators)
           modifier == role = "Modifier" \/ key \in NormalModifiers
           m2 == IF modifier THEN [m1 EXCEPT !.heldModifiers = @ \cup {key}] ELSE m1
           gesture == BuildGesture(m2, key, role)
           counted == CountPress(m2, gesture, key, at)
           m3 == IF modifier THEN m2 ELSE EndStreak(m2)
           r == OnPress(s, key, at, lock)
<1>1. r = CASE plain -> [m |-> EndStreak(m1), d |-> Decided]
            [] ~plain /\ gesture \in Bound ->
                  [m |-> Swallowed(counted, key),
                   d |-> [Decided EXCEPT !.verdict = "Swallow", !.emitted = {gesture},
                                         !.repeat = counted.repeatCount]]
            [] ~plain /\ gesture \notin Bound /\ role = "Modifier" ->
                  IF ShareModifier THEN [m |-> m3, d |-> [Decided EXCEPT !.shared = TRUE]]
                  ELSE [m |-> Swallowed(m3, key), d |-> [Decided EXCEPT !.verdict = "Swallow"]]
            [] OTHER ->
                  [m |-> m3,
                   d |-> [Decided EXCEPT !.shared = hands /\ ShareModifier,
                                         !.observed = IF hands /\ ShareModifier THEN {}
                                                      ELSE {gesture} \cap Observed]]
  BY DEF OnPress
<1>2. key \in VerbatimKeys /\ ~hands => role = "Modifier"
  BY DEF Role
<1> HIDE DEF hands, role, lone, r
<1>3. Alike(s, m1, key, lone) /\ m1.heldModifiers = s.heldModifiers
  BY DEF Machine, Alike
<1> HIDE DEF m1
<1>4. Alike(s, m2, key, lone)
  BY <1>3 DEF Machine, Alike
<1> HIDE DEF m2, modifier, gesture
<1>5. ASSUME NEW n, Alike(s, n, key, lone) PROVE Alike(s, EndStreak(n), key, lone)
  BY <1>5 DEF Machine, Alike, EndStreak
<1>6. Alike(s, counted, key, lone)
  BY <1>4 DEF Machine, Alike, CountPress
<1> HIDE DEF counted
<1>7. Alike(s, m3, key, lone) /\ Alike(s, EndStreak(m1), key, lone)
  BY <1>3, <1>4, <1>5
<1> HIDE DEF m3, plain
<1>8. CASE plain
  <2>1. r = [m |-> EndStreak(m1), d |-> Decided]
    BY <1>1, <1>8
  <2>2. Decision(r.d) /\ r.d.verdict = "Pass" /\ r.m = EndStreak(m1)
    BY <2>1 DEF Decision, Decided
  <2>3. role # "Modifier"
    BY <1>8 DEF plain
  <2> QED
    BY <1>2, <1>7, <2>1, <2>2, <2>3 DEF r, hands, lone, role
<1>9. CASE ~plain /\ gesture \in Bound
  <2>1. r = [m |-> Swallowed(counted, key),
             d |-> [Decided EXCEPT !.verdict = "Swallow", !.emitted = {gesture},
                                   !.repeat = counted.repeatCount]]
    BY <1>1, <1>9
  <2>2. Decision(r.d) /\ r.d.verdict = "Swallow" /\ r.m = Swallowed(counted, key)
    BY <2>1 DEF Decision, Decided
  <2> QED
    BY <1>6, <2>1, <2>2 DEF r, hands, lone, role
<1>10. CASE ~plain /\ gesture \notin Bound /\ role = "Modifier" /\ ShareModifier
  <2>1. r = [m |-> m3, d |-> [Decided EXCEPT !.shared = TRUE]]
    BY <1>1, <1>10
  <2>2. Decision(r.d) /\ r.d.verdict = "Pass" /\ r.m = m3
    BY <2>1 DEF Decision, Decided
  <2> QED
    BY <1>7, <1>10, <2>1, <2>2 DEF r, hands, lone, role
<1>11. CASE ~plain /\ gesture \notin Bound /\ role = "Modifier" /\ ~ShareModifier
  <2>1. r = [m |-> Swallowed(m3, key), d |-> [Decided EXCEPT !.verdict = "Swallow"]]
    BY <1>1, <1>11
  <2>2. Decision(r.d) /\ r.d.verdict = "Swallow" /\ r.m = Swallowed(m3, key)
    BY <2>1 DEF Decision, Decided
  <2> QED
    BY <1>7, <2>1, <2>2 DEF r, hands, lone, role
<1>12. CASE ~plain /\ gesture \notin Bound /\ role # "Modifier"
  <2> DEFINE shared == hands /\ ShareModifier
             observed == IF shared THEN {} ELSE {gesture} \cap Observed
  <2>1. r = [m |-> m3, d |-> [Decided EXCEPT !.shared = shared, !.observed = observed]]
    BY <1>1, <1>12
  <2> HIDE DEF shared, observed
  <2>2. Decision(r.d) /\ r.d.verdict = "Pass" /\ r.m = m3
    BY <2>1 DEF Decision, Decided
  <2> QED
    BY <1>2, <1>7, <1>12, <2>1, <2>2 DEF r, hands, lone, role
<1> QED
  BY <1>8, <1>9, <1>10, <1>11, <1>12

-----------------------------------------------------------------------------
\* Where no key may be held, a press is recorded and passes, unless it completes
\* a gesture or is the modifier's (place_press, report).
LEMMA PressOutcome ==
    ASSUME NEW s, Machine(s), Recorded(s), NEW event, event.pressed = TRUE, event.permit = "None",
           event.mayMask = FALSE
    PROVE  LET r == OnKey(s, event)
               key == event.key
               hands == HandsPressToOs(s, key, event.now)
           IN  /\ Machine(r.m) /\ Recorded(r.m) /\ Down(r.m) = Down(s) \cup {key}
               /\ r.m.heldModifiers \subseteq s.heldModifiers \cup {key}
               /\ r.m.lone = AfterPress(key, hands, Role(key, hands))
               /\ r.d.verdict \in {"Pass", "Swallow"}
               /\ r.d.verdict = "Pass" => r.m.keysDown[key].reached
               /\ r.d.verdict = "Swallow" => r.m.keysDown[key].reached = OfDown(s, key).reached
               /\ \A k \in Down(s) \ {key} : r.m.keysDown[k] = s.keysDown[k]
               /\ r.d.verdict = "Pass" /\ key \in VerbatimKeys /\ ~ShareModifier => hands
<1> DEFINE key == event.key
           hands == HandsPressToOs(s, key, event.now)
           lone == AfterPress(key, hands, Role(key, hands))
           o == OnPress(s, key, event.now, event.numLock)
           d == [o.d EXCEPT !.speech = SpeechEffect(s, key)]
           p == PlacePress(o.m, d, event)
           x == [p EXCEPT !.d = Report(@, event)]
           r == OnKey(s, event)
<1>1. r = Masked(x, event)
  BY DEF OnKey
<1>2. r = x
  BY <1>1 DEF Masked
<1>3. /\ Decision(o.d)
      /\ \/ o.d.verdict = "Pass" /\ Alike(s, o.m, key, lone)
         \/ o.d.verdict = "Swallow" /\ \E n : Alike(s, n, key, lone) /\ o.m = Swallowed(n, key)
      /\ o.d.verdict = "Pass" /\ key \in VerbatimKeys /\ ~ShareModifier => hands
  BY PressIs
<1> HIDE DEF hands, lone, o, r
<1>4. Decision(d) /\ d.verdict = o.d.verdict
  BY <1>3 DEF Decision
<1> HIDE DEF d
<1>5. ASSUME NEW n, Alike(s, n, key, lone)
      PROVE  Recorded(n) /\ Down(n) = Down(s) /\ OfDown(n, key) = OfDown(s, key)
  BY <1>5 DEF Alike, Recorded, Down, OfDown
<1>6. CASE o.d.verdict = "Pass"
  <2> DEFINE w == [OfDown(o.m, key) EXCEPT !.reached = TRUE]
  <2>1. Alike(s, o.m, key, lone)
    BY <1>3, <1>6
  <2>2. OfDown(o.m, key) \in [reached : BOOLEAN, swallowed : BOOLEAN]
    BY <1>5, <2>1, OfDownIs
  <2>3. w \in [reached : BOOLEAN, swallowed : BOOLEAN] /\ w.reached
    BY <2>2
  <2>4. p = [m |-> WithDown(o.m, key, w), d |-> d]
    BY <1>4, <1>6 DEF PlacePress, PassOrDefer, Defers
  <2> HIDE DEF w, p
  <2>5. x.m = WithDown(o.m, key, w) /\ x.d = Report(d, event)
    BY <2>4
  <2>6. Report(d, event).verdict = "Pass"
    BY <1>4, <1>6 DEF Report, Decision
  <2>7. /\ Machine(x.m) /\ Recorded(x.m) /\ Down(x.m) = Down(o.m) \cup {key} /\ x.m.keysDown[key] = w
        /\ \A k \in Down(o.m) \ {key} : x.m.keysDown[k] = o.m.keysDown[k]
        /\ x.m.heldModifiers = o.m.heldModifiers /\ x.m.lone = o.m.lone
    BY <1>5, <2>1, <2>3, <2>5, RecordKey DEF Alike
  <2> HIDE DEF x
  <2>8. /\ Down(o.m) = Down(s) /\ o.m.keysDown = s.keysDown /\ o.m.lone = lone
        /\ o.m.heldModifiers \subseteq s.heldModifiers \cup {key}
    BY <1>5, <2>1 DEF Alike
  <2> QED
    BY <1>2, <1>3, <1>6, <2>3, <2>5, <2>6, <2>7, <2>8 DEF r, hands, lone
<1>7. CASE o.d.verdict = "Swallow"
  <2>1. PICK n : Alike(s, n, key, lone) /\ o.m = Swallowed(n, key)
    BY <1>3, <1>7
  <2>2. /\ Machine(n) /\ Recorded(n) /\ Down(n) = Down(s) /\ OfDown(n, key) = OfDown(s, key)
        /\ n.keysDown = s.keysDown /\ n.lone = lone
        /\ n.heldModifiers \subseteq s.heldModifiers \cup {key}
    BY <1>5, <2>1 DEF Alike
  <2>3. /\ Machine(o.m) /\ Recorded(o.m) /\ Down(o.m) = Down(n) \cup {key}
        /\ o.m.keysDown[key].reached = OfDown(n, key).reached
        /\ \A k \in Down(n) \ {key} : o.m.keysDown[k] = n.keysDown[k]
        /\ o.m.heldModifiers = n.heldModifiers /\ o.m.lone = n.lone
    BY <2>1, <2>2, SwallowKey
  <2> DEFINE w == OfDown(o.m, key)
  <2>4. w \in [reached : BOOLEAN, swallowed : BOOLEAN] /\ w = o.m.keysDown[key]
    BY <2>3, OfDownIs
  <2>5. p = [m |-> WithDown(o.m, key, w), d |-> d]
    BY <1>4, <1>7 DEF PlacePress
  <2> HIDE DEF w, p
  <2>6. x.m = WithDown(o.m, key, w) /\ x.d = Report(d, event)
    BY <2>5
  <2>7. Report(d, event).verdict = "Swallow"
    BY <1>4, <1>7 DEF Report, Decision
  <2>8. /\ Machine(x.m) /\ Recorded(x.m) /\ Down(x.m) = Down(o.m) \cup {key} /\ x.m.keysDown[key] = w
        /\ \A k \in Down(o.m) \ {key} : x.m.keysDown[k] = o.m.keysDown[k]
        /\ x.m.heldModifiers = o.m.heldModifiers /\ x.m.lone = o.m.lone
    BY <2>3, <2>4, <2>6, RecordKey
  <2> HIDE DEF x
  <2>9. /\ Down(x.m) = Down(s) \cup {key} /\ x.m.keysDown[key].reached = OfDown(s, key).reached
        /\ \A k \in Down(s) \ {key} : x.m.keysDown[k] = s.keysDown[k]
    BY <2>2, <2>3, <2>4, <2>8
  <2> QED
    BY <1>2, <2>2, <2>3, <2>6, <2>7, <2>8, <2>9 DEF r, hands, lone
<1> QED
  BY <1>3, <1>6, <1>7

\* A release is swallowed when no press of the key reached the application, and
\* passes otherwise (on_release, place_release).
LEMMA ReleaseOutcome ==
    ASSUME NEW s, Machine(s), Recorded(s), NEW event, event.pressed = FALSE, event.permit = "None",
           event.mayMask = FALSE
    PROVE  LET r == OnKey(s, event)
               key == event.key
           IN  /\ Machine(r.m) /\ Recorded(r.m) /\ Down(r.m) = Down(s) \ {key}
               /\ r.m.heldModifiers = s.heldModifiers \ {key}
               /\ r.m.lone = AfterRelease(s.lone, key, event.now)
               /\ r.d.verdict = IF key \in Down(s) /\ ~s.keysDown[key].reached THEN "Swallow" ELSE "Pass"
               /\ \A k \in Down(s) \ {key} : r.m.keysDown[k] = s.keysDown[k]
<1> DEFINE key == event.key
           o == [s EXCEPT !.lone = AfterRelease(@, key, event.now), !.heldModifiers = @ \ {key}]
           f == [k \in Down(s) \ {key} |-> s.keysDown[k]]
           u == [o EXCEPT !.keysDown = f]
           p == PlaceRelease(o, Decided, event)
           x == [p EXCEPT !.d = Report(@, event)]
           r == OnKey(s, event)
<1>1. r = Masked(x, event)
  BY DEF OnKey, OnRelease
<1>2. r = x
  BY <1>1 DEF Masked
<1>3. /\ Machine(o) /\ o.keysDown = s.keysDown /\ o.heldModifiers = s.heldModifiers \ {key}
      /\ o.lone = AfterRelease(s.lone, key, event.now)
  <2> DEFINE lone == AfterRelease(s.lone, key, event.now)
             held == s.heldModifiers \ {key}
  <2>1. o = [s EXCEPT !.lone = lone, !.heldModifiers = held]
    BY DEF Machine
  <2> HIDE DEF lone, held, o
  <2>2. Machine(o) /\ o.keysDown = s.keysDown /\ o.heldModifiers = held /\ o.lone = lone
    BY <2>1 DEF Machine
  <2> QED
    BY <2>2 DEF lone, held
<1> HIDE DEF o
<1>4. Down(o) = Down(s)
  BY <1>3 DEF Down
<1>5. p = IF key \in Down(s) /\ ~s.keysDown[key].reached
          THEN [m |-> u, d |-> [Decided EXCEPT !.verdict = "Swallow"]]
          ELSE [m |-> u, d |-> Decided]
  BY <1>3, <1>4 DEF PlaceRelease, PassOrDefer, Defers
<1>6. /\ Machine(u) /\ u.keysDown = f /\ u.heldModifiers = o.heldModifiers /\ u.lone = o.lone
  BY <1>3 DEF Machine
<1>7. /\ DOMAIN f = Down(s) \ {key} /\ f \in [DOMAIN f -> [reached : BOOLEAN, swallowed : BOOLEAN]]
      /\ \A k \in Down(s) \ {key} : f[k] = s.keysDown[k]
  BY DEF Recorded
<1> HIDE DEF p, u, f
<1>8. /\ x.m = u
      /\ x.d = Report(IF key \in Down(s) /\ ~s.keysDown[key].reached
                      THEN [Decided EXCEPT !.verdict = "Swallow"] ELSE Decided, event)
  BY <1>5
<1>9. x.d.verdict = IF key \in Down(s) /\ ~s.keysDown[key].reached THEN "Swallow" ELSE "Pass"
  <2>1. ASSUME NEW d, Decision(d) PROVE Report(d, event).verdict = d.verdict
    BY <2>1 DEF Report, Decision
  <2>2. Decision(Decided) /\ Decided.verdict = "Pass"
    BY SMTT(30) DEF Decision, Decided
  <2>3. ASSUME NEW c, Decision(c), NEW d, d = [c EXCEPT !.verdict = "Swallow"]
        PROVE  Decision(d) /\ d.verdict = "Swallow"
    BY SMTT(30), <2>3 DEF Decision
  <2>4. CASE key \in Down(s) /\ ~s.keysDown[key].reached
    BY <1>8, <2>1, <2>2, <2>3, <2>4
  <2>5. CASE ~(key \in Down(s) /\ ~s.keysDown[key].reached)
    BY <1>8, <2>1, <2>2, <2>5
  <2> QED
    BY <2>4, <2>5
<1>10. Recorded(u) /\ Down(u) = Down(s) \ {key} /\ \A k \in Down(s) \ {key} : u.keysDown[k] = s.keysDown[k]
  BY <1>6, <1>7 DEF Recorded, Down
<1> HIDE DEF x, r
<1> QED
  BY <1>2, <1>3, <1>6, <1>8, <1>9, <1>10 DEF r

-----------------------------------------------------------------------------
(* The invariant.  A key down that the machine has no record of was down   *)
(* before the hook saw any, and reached the application; of the others the *)
(* machine knows whether a press did.                                      *)
PairInv ==
    /\ Machine(m) /\ Recorded(m)
    /\ Down(m) \subseteq down /\ down \ Down(m) \subseteq DownFirst
    /\ m.heldModifiers \subseteq down
    /\ app \subseteq down
    /\ \A k \in down : k \in app <=> (k \in Down(m) => m.keysDown[k].reached)
    /\ last \in down => last \in Down(m)
    /\ ~decided.stray

\* The press of key at i in the log is the last press of all, and nothing of
\* the key came after it but what is at j.
PressedAt(key, i, j) ==
    /\ i \in 1..Len(log) /\ log[i].key = key /\ log[i].pressed
    /\ \A l \in (i + 1)..Len(log) : l # j => ~log[l].pressed /\ log[l].key # key

\* What the lone tap the machine remembers says of the transitions before.
TapInv ==
    /\ m.lone.is = "HeldAlone" => \E i \in 1..Len(log) : PressedAt(m.lone.key, i, 0)
    /\ m.lone.is = "TapPending" =>
          /\ m.lone.key \notin down
          /\ \E i, j \in 1..Len(log) :
                /\ i < j /\ PressedAt(m.lone.key, i, j)
                /\ log[j].key = m.lone.key /\ ~log[j].pressed /\ log[j].at = m.lone.released
    /\ HandedOverOnDoubleTap

IsSeq(q) == \E S : q \in Seq(S)

TapsInv == PairInv /\ TapInv /\ IsSeq(log)

-----------------------------------------------------------------------------
\* The log with one more transition.
LEMMA AppendIs ==
    ASSUME NEW q, IsSeq(q), NEW e
    PROVE  LET n == Append(q, e)
           IN  /\ IsSeq(n) /\ Len(q) \in Nat /\ Len(n) = Len(q) + 1 /\ n[Len(n)] = e
               /\ \A i \in 1..Len(q) : n[i] = q[i]
<1>1. PICK S : q \in Seq(S)
  BY DEF IsSeq
<1>2. q \in Seq(S \cup {e}) /\ e \in S \cup {e}
  BY <1>1
<1>3. Append(q, e) \in Seq(S \cup {e})
  BY <1>2
<1> QED
  BY <1>2, <1>3 DEF IsSeq

\* A press, of a key that was up or that the hook saw go down.
LEMMA PairPress ==
    ASSUME PairInv, NEW key, key \notin down \/ key \in Down(m), NEW repeat,
           Handle(key, TRUE, repeat), down' = down \cup {key}, last' = key
    PROVE  PairInv'
<1> DEFINE event == Event(key, TRUE)
           r == OnKey(m, event)
<1>1. event.key = key /\ event.pressed = TRUE /\ event.permit = "None" /\ event.mayMask = FALSE
  BY DEF Event
<1> HIDE DEF event
<1>2. /\ m' = r.m /\ decided'.stray = FALSE
      /\ app' = IF r.d.verdict = "Pass" THEN app \cup {key} ELSE app
  BY DEF Handle, event
<1>3. /\ Machine(r.m) /\ Recorded(r.m) /\ Down(r.m) = Down(m) \cup {key}
      /\ r.m.heldModifiers \subseteq m.heldModifiers \cup {key}
      /\ r.d.verdict \in {"Pass", "Swallow"}
      /\ r.d.verdict = "Pass" => r.m.keysDown[key].reached
      /\ r.d.verdict = "Swallow" => r.m.keysDown[key].reached = OfDown(m, key).reached
      /\ \A k \in Down(m) \ {key} : r.m.keysDown[k] = m.keysDown[k]
  BY <1>1, PressOutcome DEF PairInv
<1> HIDE DEF r
<1>4. Machine(m') /\ Recorded(m') /\ Down(m') = Down(m) \cup {key}
  BY <1>2, <1>3
<1>5. \A k \in down' : k \in app' <=> (k \in Down(m') => m'.keysDown[k].reached)
  <2>1. ASSUME NEW k \in down', k # key
        PROVE  k \in app' <=> (k \in Down(m') => m'.keysDown[k].reached)
    <3>1. k \in down /\ (k \in app' <=> k \in app) /\ (k \in Down(m') <=> k \in Down(m))
      BY <1>2, <1>4, <2>1
    <3>2. k \in Down(m) => m'.keysDown[k] = m.keysDown[k]
      BY <1>2, <1>3, <2>1
    <3> QED
      BY <3>1, <3>2 DEF PairInv
  <2>2. key \in app' <=> m'.keysDown[key].reached
    <3>1. CASE r.d.verdict = "Pass"
      BY <1>2, <1>3, <3>1
    <3>2. CASE r.d.verdict = "Swallow"
      <4>1. app' = app /\ m'.keysDown[key].reached = OfDown(m, key).reached
        BY <1>2, <1>3, <3>2
      <4>2. CASE key \in Down(m)
        BY <4>1, <4>2 DEF PairInv, OfDown
      <4>3. CASE key \notin Down(m)
        <5>1. key \notin app
          BY <4>3 DEF PairInv
        <5>2. OfDown(m, key).reached = FALSE
          BY <4>3 DEF OfDown
        <5> QED
          BY <4>1, <5>1, <5>2
      <4> QED
        BY <4>2, <4>3
    <3> QED
      BY <1>3, <3>1, <3>2
  <2> QED
    BY <1>4, <2>1, <2>2
<1>6. /\ Down(m') \subseteq down' /\ down' \ Down(m') \subseteq DownFirst
      /\ m'.heldModifiers \subseteq down' /\ app' \subseteq down'
      /\ last' \in Down(m') /\ ~decided'.stray
  BY <1>2, <1>3, <1>4 DEF PairInv
<1> QED
  BY <1>4, <1>5, <1>6 DEF PairInv, Machine, Recorded, Down

\* A release.
LEMMA PairRelease ==
    ASSUME PairInv, "none" \notin DownFirst, NEW key \in down, Handle(key, FALSE, FALSE),
           down' = down \ {key}, last' = IF last = key THEN "none" ELSE last
    PROVE  PairInv'
<1> DEFINE event == Event(key, FALSE)
           r == OnKey(m, event)
<1>1. event.key = key /\ event.pressed = FALSE /\ event.permit = "None" /\ event.mayMask = FALSE
  BY DEF Event
<1> HIDE DEF event
<1>2. /\ m' = r.m /\ decided'.stray = (r.d.verdict = "Pass" /\ key \notin app)
      /\ app' = IF r.d.verdict = "Pass" THEN app \ {key} ELSE app
  BY DEF Handle, event
<1>3. /\ Machine(r.m) /\ Recorded(r.m) /\ Down(r.m) = Down(m) \ {key}
      /\ r.m.heldModifiers = m.heldModifiers \ {key}
      /\ r.d.verdict = IF key \in Down(m) /\ ~m.keysDown[key].reached THEN "Swallow" ELSE "Pass"
      /\ \A k \in Down(m) \ {key} : r.m.keysDown[k] = m.keysDown[k]
  <2>1. Machine(m) /\ Recorded(m)
    BY DEF PairInv
  <2> HIDE DEF r
  <2>2. /\ Machine(r.m) /\ Recorded(r.m) /\ Down(r.m) = Down(m) \ {event.key}
        /\ r.m.heldModifiers = m.heldModifiers \ {event.key}
        /\ r.d.verdict = IF event.key \in Down(m) /\ ~m.keysDown[event.key].reached
                         THEN "Swallow" ELSE "Pass"
        /\ \A k \in Down(m) \ {event.key} : r.m.keysDown[k] = m.keysDown[k]
    BY ZenonT(60), <1>1, <2>1, ReleaseOutcome DEF r
  <2> QED
    BY <1>1, <2>2
<1> HIDE DEF r
<1>4. Machine(m') /\ Recorded(m') /\ Down(m') = Down(m) \ {key}
  BY <1>2, <1>3
<1>5. app' = app \ {key} /\ ~decided'.stray
  <2>1. key \in app <=> r.d.verdict = "Pass"
    BY <1>3 DEF PairInv
  <2> QED
    BY <1>2, <2>1
<1>6. \A k \in down' : k \in app' <=> (k \in Down(m') => m'.keysDown[k].reached)
  BY <1>2, <1>3, <1>4, <1>5 DEF PairInv
<1>7. /\ Down(m') \subseteq down' /\ down' \ Down(m') \subseteq DownFirst
      /\ m'.heldModifiers \subseteq down' /\ app' \subseteq down'
  BY <1>2, <1>3, <1>4, <1>5 DEF PairInv
<1>8. last' \in down' => last' \in Down(m')
  BY <1>4, <1>7 DEF PairInv
<1> QED
  BY <1>4, <1>5, <1>6, <1>7, <1>8 DEF PairInv, Machine, Recorded, Down

-----------------------------------------------------------------------------
(* The lone tap.  The log grows by one entry e.                            *)
LEMMA StillPressedAt ==
    ASSUME IsSeq(log), NEW e, log' = Append(log, e), NEW key, NEW i, NEW j,
           PressedAt(key, i, j), ~e.pressed, e.key # key
    PROVE  PressedAt(key, i, j)'
<1>1. /\ Len(log) \in Nat /\ Len(log') = Len(log) + 1 /\ log'[Len(log')] = e
      /\ \A k \in 1..Len(log) : log'[k] = log[k]
  BY AppendIs
<1>2. i \in 1..Len(log) /\ i \in 1..Len(log') /\ log'[i] = log[i]
  BY <1>1 DEF PressedAt
<1>3. ASSUME NEW l \in (i + 1)..Len(log'), l # j
      PROVE  ~log'[l].pressed /\ log'[l].key # key
  <2>1. CASE l = Len(log')
    BY <1>1, <2>1
  <2>2. CASE l # Len(log')
    <3>1. l \in (i + 1)..Len(log) /\ l \in 1..Len(log)
      BY <1>1, <1>2, <1>3, <2>2
    <3> QED
      BY <1>1, <1>3, <3>1 DEF PressedAt
  <2> QED
    BY <2>1, <2>2
<1> QED
  BY <1>2, <1>3 DEF PressedAt

\* A press that is handed over is the second of a double tap, and a press that
\* is not remembers no tap but its own.
LEMMA TapPress ==
    ASSUME PairInv, TapInv, IsSeq(log), NEW key, NEW repeat, repeat \in BOOLEAN,
           repeat => key \in down,
           Handle(key, TRUE, repeat), down' = down \cup {key}
    PROVE  TapInv' /\ IsSeq(log')
<1> DEFINE event == Event(key, TRUE)
           r == OnKey(m, event)
           hands == HandsPressToOs(m, key, now)
           e == [key |-> key, pressed |-> TRUE, repeat |-> repeat, at |-> now,
                 emitted |-> r.d.emitted,
                 handed |-> r.d.verdict = "Pass" /\ key \in VerbatimKeys]
<1>1. /\ event.key = key /\ event.pressed = TRUE /\ event.permit = "None" /\ event.mayMask = FALSE
      /\ event.now = now
  BY DEF Event
<1>2. Machine(m) /\ Recorded(m)
  BY DEF PairInv
<1> HIDE DEF event
<1>3. /\ r.m.lone = AfterPress(key, hands, Role(key, hands))
      /\ r.d.verdict = "Pass" /\ key \in VerbatimKeys /\ ~ShareModifier => hands
  BY <1>1, <1>2, PressOutcome
<1>4. /\ m' = r.m /\ decided'.key = key
      /\ decided'.handed = (r.d.verdict = "Pass" /\ key \in VerbatimKeys
                             /\ m.lone.is # "PassingThrough")
  BY DEF Handle, event
<1>5. log' = Append(log, e)
  BY DEF Handle, event
<1>6. e.key = key /\ e.pressed = TRUE /\ e.repeat = repeat /\ e.at = now
  OBVIOUS
<1> HIDE DEF r, e, hands
<1>7. /\ IsSeq(log') /\ Len(log) \in Nat /\ Len(log') = Len(log) + 1 /\ log'[Len(log')] = e
      /\ \A i \in 1..Len(log) : log'[i] = log[i]
  BY <1>5, AppendIs
<1>8. m'.lone.is # "TapPending" /\ (m'.lone.is = "HeldAlone" => m'.lone.key = key)
  BY <1>3, <1>4 DEF AfterPress
<1> PICK n \in Nat : n = Len(log) + 1
  BY <1>7
<1>9. n \in 1..Len(log') /\ PressedAt(key, n, 0)'
  BY <1>6, <1>7 DEF PressedAt
<1>10. HandedOverOnDoubleTap'
  <2> SUFFICES ASSUME decided'.handed, ~ShareModifier
               PROVE  /\ log'[n].key = key /\ ~log'[n].repeat
                      /\ \E i, j \in 1..(n - 1) : DoubleTap(key, i, j, n)'
    BY <1>4, <1>7 DEF HandedOverOnDoubleTap, DoubleTap
  <2>1. m.lone.is = "TapPending" /\ m.lone.key = key /\ now - m.lone.released < Timeout
    BY <1>3, <1>4 DEF hands, HandsPressToOs
  <2>2. PICK i \in 1..Len(log), j \in 1..Len(log) :
           /\ i < j /\ PressedAt(key, i, j)
           /\ log[j].key = key /\ ~log[j].pressed /\ log[j].at = m.lone.released
    BY <2>1 DEF TapInv
  <2>3. ~repeat
    BY <2>1 DEF TapInv
  <2>4. DoubleTap(key, i, j, n)'
    <3>1. log'[i] = log[i] /\ log'[j] = log[j] /\ log'[n] = e
      BY <1>7, <2>2
    <3>2. \A l \in (i + 1)..(n - 1) : l \in 1..Len(log) /\ log'[l] = log[l]
      BY <1>7, <2>2
    <3> QED
      BY <1>6, <2>1, <2>2, <3>1, <3>2 DEF DoubleTap, PressedAt
  <2> QED
    BY <1>6, <1>7, <2>2, <2>3, <2>4
<1> QED
  BY <1>7, <1>8, <1>9, <1>10 DEF TapInv

\* A release makes a tap of the key held alone, and leaves another's as it was.
LEMMA TapRelease ==
    ASSUME PairInv, TapInv, IsSeq(log), NEW key \in down, Handle(key, FALSE, FALSE),
           down' = down \ {key}
    PROVE  TapInv' /\ IsSeq(log')
<1> DEFINE event == Event(key, FALSE)
           r == OnKey(m, event)
           e == [key |-> key, pressed |-> FALSE, repeat |-> FALSE, at |-> now,
                 emitted |-> r.d.emitted, handed |-> FALSE]
<1>1. /\ event.key = key /\ event.pressed = FALSE /\ event.permit = "None" /\ event.mayMask = FALSE
      /\ event.now = now
  BY DEF Event
<1>2. Machine(m) /\ Recorded(m)
  BY DEF PairInv
<1> HIDE DEF event
<1>3. r.m.lone = AfterRelease(m.lone, key, now)
  <2>1. r.m.lone = AfterRelease(m.lone, event.key, event.now)
    BY ZenonT(60), <1>1, <1>2, ReleaseOutcome
  <2> HIDE DEF r
  <2> QED
    BY <1>1, <2>1
<1>4. m' = r.m /\ decided'.handed = FALSE
  BY DEF Handle, event
<1>5. log' = Append(log, e)
  BY DEF Handle, event
<1>6. e.key = key /\ ~e.pressed /\ e.at = now
  OBVIOUS
<1> HIDE DEF r, e
<1>7. /\ IsSeq(log') /\ Len(log) \in Nat /\ Len(log') = Len(log) + 1 /\ log'[Len(log')] = e
      /\ \A i \in 1..Len(log) : log'[i] = log[i]
  BY <1>5, AppendIs
<1>8. HandedOverOnDoubleTap'
  BY <1>4 DEF HandedOverOnDoubleTap
<1>9. CASE m.lone.is = "PassingThrough"
  <2>1. m'.lone.is = "Idle"
    BY <1>3, <1>4, <1>9 DEF AfterRelease
  <2> QED
    BY <1>7, <1>8, <2>1 DEF TapInv
<1>10. CASE m.lone.is = "HeldAlone" /\ m.lone.key = key
  <2>1. m'.lone.is = "TapPending" /\ m'.lone.key = key /\ m'.lone.released = now
    BY <1>3, <1>4, <1>10 DEF AfterRelease
  <2>2. PICK i \in 1..Len(log) : PressedAt(key, i, 0)
    BY <1>10 DEF TapInv
  <2> PICK n \in Nat : n = Len(log) + 1
    BY <1>7
  <2>3. PressedAt(key, i, n)'
    <3>1. i \in 1..Len(log') /\ log'[i] = log[i]
      BY <1>7, <2>2
    <3>2. \A l \in (i + 1)..Len(log') : l # n =>
              l \in 1..Len(log) /\ l \in (i + 1)..Len(log) /\ l # 0 /\ log'[l] = log[l]
      BY <1>7, <2>2
    <3> QED
      BY <2>2, <3>1, <3>2 DEF PressedAt
  <2>4. i < n /\ i \in 1..Len(log') /\ n \in 1..Len(log') /\ log'[n] = e
    BY <1>7, <2>2
  <2>5. m'.lone.key \notin down'
    BY <2>1
  <2> QED
    BY <1>6, <1>7, <1>8, <2>1, <2>3, <2>4, <2>5 DEF TapInv
<1>11. CASE m.lone.is # "PassingThrough" /\ ~(m.lone.is = "HeldAlone" /\ m.lone.key = key)
  <2>1. ~(m.lone.is \in {"HeldAlone", "TapPending"} /\ m.lone.key = key)
    BY <1>11 DEF TapInv
  <2>2. m'.lone = m.lone
    BY <1>3, <1>4, <1>11, <2>1 DEF AfterRelease
  <2>3. ASSUME NEW i, NEW j, NEW k, PressedAt(k, i, j), k # key
        PROVE  PressedAt(k, i, j)'
    BY <1>5, <1>6, <2>3, StillPressedAt
  <2> PICK k : k = m.lone.key
    OBVIOUS
  <2>4. 1..Len(log) \subseteq 1..Len(log')
    BY <1>7
  <2>5. m.lone.is = "HeldAlone" => \E i \in 1..Len(log') : PressedAt(k, i, 0)'
    BY <2>1, <2>3, <2>4 DEF TapInv
  <2>6. ASSUME m.lone.is = "TapPending"
        PROVE  /\ k \notin down'
               /\ \E i, j \in 1..Len(log') :
                     /\ i < j /\ PressedAt(k, i, j)'
                     /\ log'[j].key = k /\ ~log'[j].pressed /\ log'[j].at = m.lone.released
    <3>1. PICK i \in 1..Len(log), j \in 1..Len(log) :
             /\ i < j /\ PressedAt(k, i, j)
             /\ log[j].key = k /\ ~log[j].pressed /\ log[j].at = m.lone.released
      BY <2>6 DEF TapInv
    <3>2. k # key /\ k \notin down'
      BY <2>1, <2>6 DEF TapInv
    <3>3. PressedAt(k, i, j)' /\ log'[j] = log[j]
      BY <1>7, <2>3, <3>1, <3>2
    <3> QED
      BY <2>4, <3>1, <3>2, <3>3
  <2> HIDE DEF PressedAt
  <2> QED
    BY <1>7, <1>8, <2>2, <2>5, <2>6 DEF TapInv
<1> QED
  BY <1>9, <1>10, <1>11

-----------------------------------------------------------------------------
\* A hook that starts, keys down or not.
LEMMA TapsInit ==
    ASSUME "none" \notin DownFirst, Init
    PROVE  TapsInv
<1>1. Machine(m) /\ Recorded(m) /\ Down(m) = {} /\ m.heldModifiers = {} /\ m.lone.is = "Idle"
  BY DEF Init, NewMachine, Machine, Recorded, Down
<1>2. PairInv
  BY <1>1 DEF PairInv, Init, NothingDecided
<1>3. TapInv
  BY <1>1 DEF TapInv, Init, NothingDecided, HandedOverOnDoubleTap
<1>4. IsSeq(log)
  BY DEF Init, IsSeq
<1> QED
  BY <1>2, <1>3, <1>4 DEF TapsInv

\* Every press, auto-repeat, release and tick.
LEMMA TapsNext ==
    ASSUME "none" \notin DownFirst, TapsInv, [Next]_tvars
    PROVE  TapsInv'
<1> USE DEF TapsInv
<1>1. CASE AutoRepeat
  <2>1. PICK key : key = last
    OBVIOUS
  <2>2. /\ key \in down /\ key \in Down(m) /\ Handle(key, TRUE, TRUE)
        /\ down' = down \cup {key} /\ last' = key
    BY <1>1, <2>1 DEF AutoRepeat, PairInv
  <2>3. PairInv'
    BY <2>2, PairPress
  <2>4. TapInv' /\ IsSeq(log')
    BY <2>2, TapPress
  <2> QED
    BY <2>3, <2>4
<1>2. ASSUME NEW key \in Keys, Press(key)
      PROVE  TapsInv'
  <2>1. PairInv'
    BY <1>2, PairPress DEF Press
  <2>2. TapInv' /\ IsSeq(log')
    BY <1>2, TapPress DEF Press
  <2> QED
    BY <2>1, <2>2
<1>3. ASSUME NEW key \in Keys, Release(key)
      PROVE  TapsInv'
  <2>1. PairInv'
    BY <1>3, PairRelease DEF Release
  <2>2. TapInv' /\ IsSeq(log')
    BY <1>3, TapRelease DEF Release
  <2> QED
    BY <2>1, <2>2
<1>4. ASSUME UNCHANGED <<m, down, last, app, log, decided>>
      PROVE  TapsInv'
  <2>1. PairInv'
    BY <1>4 DEF PairInv, Machine, Recorded, Down
  <2>2. TapInv' /\ IsSeq(log')
    BY <1>4 DEF TapInv, PressedAt, HandedOverOnDoubleTap, DoubleTap, IsSeq
  <2> QED
    BY <2>1, <2>2
<1>5. Tick \/ UNCHANGED tvars => UNCHANGED <<m, down, last, app, log, decided>>
  BY DEF Tick, tvars
<1> QED
  BY <1>1, <1>2, <1>3, <1>4, <1>5 DEF Next

(***************************************************************************)
(* Where no key may be held, an application is told of no release whose    *)
(* press it was not told of, and of a key let go none stays down in it or  *)
(* in the machine: for any keys, gestures and timeout (on_key).            *)
(***************************************************************************)
THEOREM PressesPairWithReleases ==
    ASSUME "none" \notin DownFirst
    PROVE  Spec => []PressesAndReleasesPair
<1>1. TapsInv => PressesAndReleasesPair
  BY DEF TapsInv, PairInv, PressesAndReleasesPair
<1> QED
  BY <1>1, TapsInit, TapsNext, PTL DEF Spec

(***************************************************************************)
(* The modifier's own press reaches Windows only as the second of two taps *)
(* of that key, nothing else pressed from the first on, the second within  *)
(* the timeout of the release of the first (hands_press_to_os).            *)
(***************************************************************************)
THEOREM ModifierHandedOverOnDoubleTap ==
    ASSUME "none" \notin DownFirst
    PROVE  Spec => []HandedOverOnDoubleTap
<1>1. TapsInv => HandedOverOnDoubleTap
  BY DEF TapsInv, TapInv
<1> QED
  BY <1>1, TapsInit, TapsNext, PTL DEF Spec

=============================================================================
