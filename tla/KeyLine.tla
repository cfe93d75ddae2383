------------------------------ MODULE KeyLine ------------------------------
(***************************************************************************)
(* Keys held back and passed on in order: the hook thread with its machine *)
(* (verbatim-input-windows, hook.rs; verbatim-app, key_reports.rs), the    *)
(* reducer thread with the shell's line (held_keys.rs) and Core's held     *)
(* keys (verbatim-core, editing.rs, state.rs), Windows between them.       *)
(* Every transition the user makes has a number, which stands for its      *)
(* trace; a watch is named by the key it watches.  0 is none.              *)
(***************************************************************************)
EXTENDS KeyDecisions

CONSTANTS MaxKeys,     \* bound: transitions the user makes
          Scenarios    \* bounds on the rest, one of them a behaviour's: keys, the
                       \* keyboard; made, transitions; refused, posts a port
                       \* refuses (a system out of memory); focus, moves between
                       \* text and no text; fronts, changes of the window in
                       \* front; exit, whether Verbatim may; place, the last place
                       \* given before (the counter is never reset)

VARIABLES m,           \* the machine, on the hook thread
          hook,        \* [on, kept, refused]: the hook thread's kept posts
          port,        \* the reducer's commands, in the order posted
          line,        \* the shell's line
          core,        \* Core's held keys, its open watches, the shell's one deadline
          sent,        \* SendInput's batches the hook has not handled
          app,         \* what the application has down, and was given
          user,        \* the keyboard: down, last, made; free: what may overtake
          view,        \* [text, front]: Core's view and whether its window is in front
          bounds       \* the scenario, never changed

kvars == <<m, hook, port, line, core, sent, app, user, view, bounds>>

(***************************************************************************)
(* Core.  NextHeld handles what waits, in order, until a read is in flight *)
(* or the watch of the key ahead is awaited.  odd are the held keys and    *)
(* commands pressed more than KEY_AHEAD_BOUND_MS after the key ahead was   *)
(* passed on, and the later keys whose handling opens a watch.             *)
(***************************************************************************)
NewCore == [waiting |-> <<>>, reading |-> 0, awaiting |-> 0, bounded |-> 0, watches |-> {},
            slot |-> 0, passes |-> <<>>]

HeldBusy(c) == c.reading # 0 \/ c.waiting # <<>>

PassHeld(c, id, text) ==
    [c EXCEPT !.awaiting = IF text THEN id ELSE 0,
              !.watches = IF text THEN @ \cup {id} ELSE @,
              !.passes = Append(@, id)]

StartHeld(c, id, text) ==
    IF text THEN [c EXCEPT !.reading = id, !.bounded = id, !.slot = id] ELSE PassHeld(c, id, text)

CaretKey(c, id, text, odd) ==
    IF text /\ id \in odd
    THEN [c EXCEPT !.watches = @ \cup {id}, !.awaiting = IF @ # 0 THEN id ELSE 0] ELSE c

ClearDeadline(c, blocked) ==
    IF c.reading = 0 /\ c.bounded # blocked THEN [c EXCEPT !.bounded = 0, !.slot = 0] ELSE c

Blocks(c, front, odd) ==
    front.is # "Later" /\ c.awaiting # 0 /\ (c.bounded = front.id \/ front.id \notin odd)

RECURSIVE NextHeld(_, _, _)
NextHeld(c, text, odd) ==
    IF HeldBusy(c) /\ c.reading = 0
    THEN LET front == Head(c.waiting)
             rest == [c EXCEPT !.waiting = Tail(@), !.awaiting = IF front.is = "Later" THEN @ ELSE 0]
         IN  IF Blocks(c, front, odd)
             THEN [c EXCEPT !.bounded = front.id, !.slot = front.id]
             ELSE NextHeld(CASE front.is = "Held" -> StartHeld(rest, front.id, text)
                             [] front.is = "Later" -> CaretKey(rest, front.id, text, odd)
                             [] front.is = "Command" -> rest,
                           text, odd)
    ELSE ClearDeadline(c, 0)

Waits(c, is, id) == [c EXCEPT !.waiting = Append(@, [is |-> is, id |-> id])]

HeldKey(c, id, text, odd) == NextHeld(Waits(c, "Held", id), text, odd)

LaterKey(c, id, text, odd) ==
    IF HeldBusy(c) THEN Waits(c, "Later", id) ELSE CaretKey(c, id, text, odd)

QueueCommand(c, id, text, odd) ==
    IF HeldBusy(c) THEN Waits(c, "Command", id)
    ELSE IF c.awaiting # 0 THEN NextHeld(Waits(c, "Command", id), text, odd)
    ELSE c

HeldRead(c, text, odd) ==
    NextHeld(PassHeld([c EXCEPT !.reading = 0], c.reading, text), text, odd)

\* Mutant: a deadline ends only the wait for a watch.
DueEndsOnlyWaits(c, text, odd) ==
    LET fired == [c EXCEPT !.slot = 0, !.bounded = IF @ = c.slot THEN 0 ELSE @]
    IN  IF c.bounded = c.slot /\ c.reading = 0 /\ c.waiting # <<>>
        THEN NextHeld([fired EXCEPT !.awaiting = 0], text, odd) ELSE fired

HeldKeyDue(c, text, odd) ==
    LET fired == [c EXCEPT !.slot = 0, !.bounded = IF @ = c.slot THEN 0 ELSE @]
    IN  IF c.bounded # c.slot THEN fired
        ELSE IF c.reading = c.slot THEN HeldRead(fired, text, odd)
        ELSE IF c.reading = 0 /\ c.awaiting # 0 /\ c.waiting # <<>> /\ Head(c.waiting).id = c.slot
             THEN NextHeld([fired EXCEPT !.awaiting = 0], text, odd)
        ELSE fired

Ended(c, watch, text, odd) ==
    LET closed == [c EXCEPT !.watches = @ \ {watch}]
    IN  IF c.awaiting = watch THEN NextHeld([closed EXCEPT !.awaiting = 0], text, odd)
        ELSE closed

(***************************************************************************)
(* The shell's line: whatever may go at its front goes in one SendInput.   *)
(* down is what Windows has down once what was sent before is in.          *)
(***************************************************************************)
Input(key, pressed, place, id) == [key |-> key, pressed |-> pressed, place |-> place, id |-> id]

Applied(down, batch) ==
    FoldLeft(LAMBDA d, in : IF in.pressed THEN d \cup {in.key} ELSE d \ {in.key}, down, batch)
IsDown == Applied(app.down, FlattenSeq(sent))

HeldInputs(w, down) ==
    LET up == IF w.key \in down THEN <<Input(w.key, FALSE, 0, 0)>> ELSE <<>>
        mods == SetToSeq(w.mods \ down)
        all == up \o [i \in DOMAIN mods |-> Input(mods[i], TRUE, 0, 0)]
                  \o <<Input(w.key, TRUE, 0, 0), Input(w.key, FALSE, 0, 0)>>
                  \o [i \in DOMAIN mods |-> Input(mods[Len(mods) + 1 - i], FALSE, 0, 0)]
    IN  [all EXCEPT ![Len(all)].place = w.place, ![Len(all)].id = w.id]

Ready(w) == w.what # "held" \/ w.passed

ReadyCount(ln) ==
    CHOOSE n \in 0..Len(ln) : (\A i \in 1..n : Ready(ln[i])) /\ (n < Len(ln) => ~Ready(ln[n + 1]))

SendReady(ln, batches, down) ==
    LET n == ReadyCount(ln)
        inputs(w) == IF w.what = "held" THEN HeldInputs(w, down)
                     ELSE <<Input(w.key, w.what = "press", w.place, w.id)>>
    IN  [line |-> SubSeq(ln, n + 1, Len(ln)),
         sent |-> IF n = 0 THEN batches
                  ELSE Append(batches, FlattenSeq([i \in 1..n |-> inputs(ln[i])]))]

PassOn(s, id) ==
    LET marked == [i \in DOMAIN s.line |-> IF s.line[i].id = id /\ s.line[i].what = "held"
                                           THEN [s.line[i] EXCEPT !.passed = TRUE] ELSE s.line[i]]
    IN  SendReady(marked, s.sent, Applied(app.down, FlattenSeq(s.sent)))

Leaves(s) == line' = s.line /\ sent' = s.sent

Carry(c, ln) ==   \* Core's effects, carried out in order
    /\ core' = [c EXCEPT !.passes = <<>>]
    /\ Leaves(FoldLeft(LAMBDA acc, id : PassOn(acc, id), [line |-> ln, sent |-> sent], c.passes))

ReleasesAtExit(ln, down) ==
    LET lastOf(i) == \A j \in (i + 1)..Len(ln) : ln[j].key # ln[i].key
        due == SelectSeq([i \in DOMAIN ln |-> [key |-> ln[i].key, go |-> /\ lastOf(i)
                              /\ ln[i].what # "press" /\ ln[i].key \in down]], LAMBDA r : r.go)
    IN  [i \in DOMAIN due |-> Input(due[i].key, FALSE, 0, 0)]

(***************************************************************************)
(* The hook thread: what Core's view lets the machine do, the reports, the *)
(* posts.  A post refused is kept and goes again ahead of the next one.    *)
(***************************************************************************)
Permit ==
    CASE ~view.front -> "None"
      [] view.front /\ view.text -> "HoldAndDefer"
      [] view.front /\ ~view.text -> IF m.line # <<>> THEN "Defer" ELSE "None"

Waiting(is, id, key, what, place, mods) ==
    [is |-> is, id |-> id, key |-> key, what |-> what, place |-> place, mods |-> mods,
     passed |-> FALSE]

Reports(r, id, event) ==
    LET d == r.d
        if(cond, report) == IF cond THEN <<report>> ELSE <<>>
        mods == r.m.heldModifiers \ {event.key}
        masks == SubSeq(r.m.line, Len(r.m.line) - 1, Len(r.m.line))
        bare(is) == Waiting(is, id, event.key, "none", 0, {})
    IN  if(d.emitted # {}, bare("Command"))
        \o if(d.verdict = "Hold", Waiting("Held", id, event.key, "held", d.place, mods))
        \o if(d.verdict # "Hold" /\ (d.observed # {} \/ d.typing = "TranslatedOrPassed"), bare("Later"))
        \o if(d.verdict = "Defer", Waiting("Deferred", id, event.key,
                                        IF event.pressed THEN "press" ELSE "release", d.place, {}))
        \o (IF d.mask THEN [i \in 1..2 |-> Waiting("Deferred", id, MaskKey, masks[i].what, masks[i].place, {})]
            ELSE <<>>)

Post(reports) ==
    LET all == hook.kept \o reports
    IN  \E n \in 0..Len(all) :
            /\ reports = <<>> => n = 0
            /\ reports # <<>> /\ n < Len(all) => hook.refused < bounds.refused
            /\ port' = port \o SubSeq(all, 1, n)
            /\ hook' = [hook EXCEPT !.kept = SubSeq(all, n + 1, Len(all)),
                            !.refused = IF reports # <<>> /\ n < Len(all) THEN @ + 1 ELSE @]

Given(a, key, pressed, id) ==
    [a EXCEPT !.down = IF pressed THEN @ \cup {key} ELSE @ \ {key}, !.got = Append(@, id)]

Obey(r, id, event) ==
    LET key == event.key
        passes == r.d.verdict = "Pass"
    IN  /\ m' = r.m
        /\ app' = IF passes THEN Given(app, key, event.pressed, id) ELSE app
        /\ user' = [user EXCEPT !.made = id,
                        !.down = IF event.pressed THEN @ \cup {key} ELSE @ \ {key},
                        !.last = IF event.pressed THEN key ELSE IF @ = key THEN "none" ELSE @,
                        !.free = IF passes /\ (key \in LockKeys \/ event.permit = "None")
                                 THEN @ \cup {id} ELSE @]
        /\ Post(Reports(r, id, event))
        /\ UNCHANGED <<line, core, sent, view, bounds>>

Decide(key, pressed, mayMask) ==
    LET event == [key |-> key, pressed |-> pressed, now |-> 0, numLock |-> FALSE,
                  source |-> "User", permit |-> Permit, mayMask |-> mayMask]
    IN  Obey(OnKey(m, event), user.made + 1, event)

(* With the hook gone, a key goes to the application as Windows has it,    *)
(* behind what was sent before it.                                         *)
Unhooked(key, pressed) ==
    LET id == user.made + 1
    IN  /\ sent = <<>>
        /\ app' = Given(app, key, pressed, id)
        /\ user' = [user EXCEPT !.made = id, !.free = @ \cup {id}, !.last = IF pressed THEN key ELSE "none",
                        !.down = IF pressed THEN @ \cup {key} ELSE @ \ {key}]
        /\ UNCHANGED <<m, hook, port, line, core, sent, view, bounds>>

Transition(key, pressed) ==
    /\ user.made < bounds.made
    /\ Len(m.line) < PlaceLimit - 1   \* bound: the line is shorter than the places, 2^32 - 1
    /\ IF hook.on THEN \E mayMask \in (IF view.front THEN {TRUE} ELSE BOOLEAN) : Decide(key, pressed, mayMask)
       ELSE Unhooked(key, pressed)

Press(key) == key \notin user.down /\ Transition(key, TRUE)
AutoRepeat == user.last \in user.down /\ Transition(user.last, TRUE)
Release(key) == key \in user.down /\ Transition(key, FALSE)

(* A batch Windows took goes through the hook, unless it is dropped because *)
(* the window in front by then has higher integrity than Verbatim.          *)
HookSent ==
    /\ sent # <<>>
    /\ LET batch == Head(sent)
           places == [i \in DOMAIN batch |-> batch[i].place]
           given == SelectSeq(batch, LAMBDA in : in.id # 0)
       IN  /\ m' = IF hook.on THEN FoldLeft(PassedOn, m, places) ELSE m
           /\ app' = [down |-> Applied(app.down, batch),
                      got |-> app.got \o [i \in DOMAIN given |-> given[i].id]]
    /\ sent' = Tail(sent)
    /\ UNCHANGED <<hook, port, line, core, user, view, bounds>>

WindowsDrops ==
    /\ sent # <<>> /\ ~view.front
    /\ sent' = Tail(sent)
    /\ user' = [user EXCEPT !.dropped = TRUE]
    /\ UNCHANGED <<m, hook, port, line, core, app, view, bounds>>

(***************************************************************************)
(* The reducer thread.                                                     *)
(***************************************************************************)
Ids == 1..MaxKeys
WaitingIds == {core.waiting[i].id : i \in DOMAIN core.waiting}

HandleCommand ==
    /\ port # <<>>
    /\ LET c == Head(port)
       IN  \E odd \in SUBSET ({c.id} \cup WaitingIds) :
              CASE c.is = "Held" -> Carry(HeldKey(core, c.id, view.text, odd), Append(line, c))
                [] c.is = "Later" -> Carry(LaterKey(core, c.id, view.text, odd), line)
                [] c.is = "Command" -> Carry(QueueCommand(core, c.id, view.text, odd), line)
                [] c.is = "Deferred" ->
                      Leaves(SendReady(Append(line, c), sent, IsDown)) /\ UNCHANGED core
                [] c.is = "Exiting" ->
                      /\ line' = <<>> /\ UNCHANGED core
                      /\ sent' = IF ReleasesAtExit(line, IsDown) = <<>> THEN sent
                                 ELSE Append(sent, ReleasesAtExit(line, IsDown))
    /\ user' = [user EXCEPT !.exited = Head(port).is = "Exiting",
                            !.lateSend = @ \/ (~hook.on /\ Head(port).is # "Exiting" /\ sent' # sent)]
    /\ port' = Tail(port)
    /\ UNCHANGED <<m, hook, app, view, bounds>>

CoreStep(Handler(_)) ==
    /\ \E odd \in SUBSET WaitingIds : Carry(Handler(odd), line)
    /\ user' = [user EXCEPT !.lateSend = @ \/ (~hook.on /\ ~user.exited /\ sent' # sent)]
    /\ UNCHANGED <<m, hook, port, app, view, bounds>>

ReadAnswered ==
    core.reading # 0 /\ CoreStep(LAMBDA odd : HeldRead(core, view.text, odd))
WatchAnswered(watch) ==
    watch \in core.watches /\ CoreStep(LAMBDA odd : Ended(core, watch, view.text, odd))
Due ==
    core.slot # 0 /\ CoreStep(LAMBDA odd : HeldKeyDue(core, view.text, odd))

FocusMoves ==
    /\ view.moves < bounds.focus
    /\ view' = [view EXCEPT !.text = ~@, !.moves = @ + 1]
    /\ UNCHANGED <<m, hook, port, line, core, sent, app, user, bounds>>
FrontChanges ==
    /\ view.fronts < bounds.fronts
    /\ view' = [view EXCEPT !.front = ~@, !.fronts = @ + 1]
    /\ UNCHANGED <<m, hook, port, line, core, sent, app, user, bounds>>

HookStops ==
    /\ bounds.exit /\ hook.on
    /\ hook' = [hook EXCEPT !.on = FALSE, !.kept = <<>>]
    /\ port' = Append(port, Waiting("Exiting", 0, "none", "none", 0, {}))
    /\ UNCHANGED <<m, line, core, sent, app, user, view, bounds>>

Init ==
    /\ bounds \in Scenarios
    /\ m = [NewMachine EXCEPT !.lastPlace = bounds.place]
    /\ hook = [on |-> TRUE, kept |-> <<>>, refused |-> 0]
    /\ port = <<>> /\ line = <<>> /\ core = NewCore /\ sent = <<>>
    /\ app = [down |-> {}, got |-> <<>>]
    /\ user = [down |-> {}, last |-> "none", made |-> 0, free |-> {}, dropped |-> FALSE,
               exited |-> FALSE, lateSend |-> FALSE]
    /\ view \in [text : BOOLEAN, front : {TRUE}, moves : {0}, fronts : {0}]

Reducer == HandleCommand \/ ReadAnswered \/ Due
Environment == \/ AutoRepeat \/ FocusMoves \/ FrontChanges \/ HookStops \/ WindowsDrops
               \/ \E key \in bounds.keys : Press(key) \/ Release(key)
               \/ \E watch \in core.watches : WatchAnswered(watch)

Next == Reducer \/ HookSent \/ Environment

Spec == Init /\ [][Next]_kvars

(* The hook thread pumps, the reducer thread takes what is posted, and the *)
(* deadline it keeps fires: no read or watch need ever be answered.        *)
Fairness ==
    /\ []<>(sent = <<>>) \/ []<><<HookSent>>_kvars
    /\ []<>(port = <<>>) \/ []<><<HandleCommand>>_kvars
    /\ []<>(core.slot = 0) \/ []<><<Due>>_kvars

FairSpec == Spec /\ Fairness

(***************************************************************************)
(* Properties.                                                             *)
(***************************************************************************)
HeldBack == SelectSeq(FlattenSeq(sent), LAMBDA in : in.id # 0)
            \o SelectSeq(line \o port \o hook.kept, LAMBDA w : w.is \in {"Held", "Deferred"})
PlacesOf(s) == [i \in DOMAIN s |-> s[i].place]
IdsOf(s) == [i \in DOMAIN s |-> s[i].id]

(***************************************************************************)
(* The line the machine defers by is the keys really on their way, in      *)
(* order: what the hook reported and has not seen come back, wherever it   *)
(* is, kept, posted, in the shell's line or sent.  With keys Windows       *)
(* dropped, each one still on its way is in the machine's line, in order.  *)
(***************************************************************************)
LineIsWhatIsOnItsWay ==
    hook.on =>
        LET onItsWay == PlacesOf(HeldBack)
            kept == SelectSeq(PlacesOf(m.line), LAMBDA p : user.dropped => p \in Range(onItsWay))
        IN  kept = onItsWay

(***************************************************************************)
(* Nothing waits in Core without something to wake it: whatever waits      *)
(* waits behind a read or a watch, and the one deadline is that of what is *)
(* read, or of what waits at the front for the watch of the key ahead,     *)
(* which is open.  The shell's deadline is Core's.                         *)
(***************************************************************************)
NoKeyStranded ==
    /\ core.slot = core.bounded
    /\ core.reading # 0 => core.bounded = core.reading
    /\ core.reading = 0 /\ core.waiting # <<>> =>
           core.bounded = Head(core.waiting).id /\ core.awaiting \in core.watches
    /\ core.reading = 0 /\ core.waiting = <<>> => core.bounded = 0
    /\ \A id \in Ids : (\E i \in DOMAIN line : line[i].id = id /\ line[i].what = "held" /\ ~line[i].passed)
           => id = core.reading \/ \E i \in DOMAIN core.waiting : core.waiting[i].id = id

(***************************************************************************)
(* No key is left down and no release is lost: once what is on its way has *)
(* arrived, the application has down exactly the keys the machine counts   *)
(* as having reached it, all of them under the user's fingers.  Where the  *)
(* window in front changes, key-holding.md accepts that it may not be so.  *)
(***************************************************************************)
Arrived(down, s) ==
    FoldLeft(LAMBDA d, w : IF w.what = "press" THEN d \cup {w.key} ELSE d \ {w.key}, down, s)
DownInTheEnd ==
    Arrived(IsDown, SelectSeq(line \o port \o hook.kept, LAMBDA w : w.is \in {"Held", "Deferred"}))
ReachedKeysAreDown ==
    hook.on /\ view.fronts = 0 =>
        /\ DownInTheEnd = {k \in Down(m) : m.keysDown[k].reached}
        /\ Down(m) = user.down

(***************************************************************************)
(* A modifier pressed ahead of a held key is down when the key arrives, so *)
(* passing it on presses no modifier of its own (held_keys.rs: extra       *)
(* modifiers only for a key whose modifiers went down unseen).             *)
(***************************************************************************)
ModifiersAsPressed ==
    [][view.fronts = 0 => \A i \in DOMAIN line :
          (line[i].what = "held" /\ Len(line') < Len(line) /\ i = 1 /\ hook.on)
              => line[i].mods \subseteq Applied(app.down, FlattenSeq(sent))]_kvars

(* Keys reach the application in the order pressed: the abstract KeyOrder. *)
Promise == INSTANCE KeyOrder WITH waiting <- IdsOf(HeldBack), got <- app.got, free <- user.free
KeysInOrder == Promise!Spec

(***************************************************************************)
(* Every key held back reaches the application, though no read and no      *)
(* watch is ever answered, unless Windows drops it or the port refused it: *)
(* that one waits for the next the user makes.                             *)
(***************************************************************************)
HeldKeysArrive ==
    [](m.line # <<>> /\ hook.on =>
          <>(m.line = <<>> \/ ~hook.on \/ hook.kept # <<>> \/ user.dropped))

(* At exit the keys still in line are dropped, but the line leaves no key  *)
(* down, provided nothing of it was passed on once the hook was gone.      *)
ExitLeavesNoKeyDown ==
    user.exited /\ sent = <<>> /\ ~user.lateSend => app.down \subseteq user.down

(* The machine, the shell's line, Core and the application agree on every  *)
(* key held back, and none is stranded, lost or left down, at exit or      *)
(* before.                                                                 *)
LineKept ==
    LineIsWhatIsOnItsWay /\ NoKeyStranded /\ ReachedKeysAreDown /\ ExitLeavesNoKeyDown

(* Every key held back reaches the application, in order and with its      *)
(* modifiers.                                                              *)
KeysReachInOrder == ModifiersAsPressed /\ KeysInOrder /\ HeldKeysArrive
=============================================================================
