--------------------------- MODULE TerminalSpeech ---------------------------
(* What a focused terminal says: a program writes output, the terminal's    *)
(* outpost reads it at once or on demand (verbatim-outpost's                *)
(* terminal/reading.rs), Core hands it to speech in groups by its flood     *)
(* policy (verbatim-core/src/terminal.rs), and playback tells Core the      *)
(* marks it reaches.                                                        *)
(*                                                                          *)
(* The output is a script of lines, blank lines, what the line before grew  *)
(* by, and places where a read loses track of the terminal; a read shows    *)
(* how far the script was written.  Core's part is one record, changed by   *)
(* one function per input; its open queries are the sequence of what their  *)
(* answers continue, since the outpost answers in order.  Time is a counter *)
(* that each cut of speech moves on.                                        *)
EXTENDS TerminalQueue, FiniteSets

CONSTANT
    Scenarios       \* the limits, what the program writes, how large each line is,
                    \* and how often each of these may happen: a key cuts speech off,
                    \* an utterance interrupts, "report new output" is pressed, an
                    \* utterance fails, a read fails, a request is refused while
                    \* the window hangs, the outpost ends

VARIABLES
    core,       \* Core's flood policy and its model of the terminal
    written,    \* how much of the script is written
    changed,    \* a change the outpost has not taken
    reading,    \* the outpost's on-demand reading of the terminal
    work,       \* the read the outpost is making
    requests,   \* Core's requests, on their way to the outpost
    messages,   \* the outpost's reports and answers, on their way to Core
    speech,     \* the utterances of output in the speech queue
    port,       \* marks reached, endings and cuts, on their way to Core
    now,        \* the time, moved on by each cut
    alive,      \* the outpost runs
    used,       \* how many of each of the scenario's events happened
    scenario

vars == <<core, written, changed, reading, work, requests, messages, speech, port, now, alive, used, limits, scenario>>

Script == scenario.script
LineSize == scenario.size
May(event) == used[event] < scenario.may[event]

AHEAD == 2

Live == "live"
Held == "held"              \* held, nothing changed since the last read
HeldChanged == "changed"    \* held, and the text changed

Idle == [busy |-> FALSE, op |-> "none", answer |-> FALSE, started |-> 0]

Init ==
    /\ core = [waiting |-> <<>>, group |-> NoGroup, ahead |-> <<>>, sounding |-> 0,
               trace |-> FALSE, deciding |-> FALSE, cut_at |-> 0, held |-> FALSE,
               model |-> TRUE, report |-> TRUE, open |-> <<>>, mark |-> 1, seen |-> 0,
               asks |-> <<>>, says |-> <<>>, handed |-> <<>>, base |-> 0, last_cut |-> 0]
    /\ written = 0 /\ changed = FALSE
    /\ reading = Live /\ work = Idle
    /\ requests = <<>> /\ messages = <<>>
    /\ speech = <<>> /\ port = <<>>
    /\ now = 1 /\ alive = TRUE
    /\ used = [cuts |-> 0, interrupts |-> 0, toggles |-> 0, fails |-> 0, unread |-> 0, hung |-> 0, ends |-> 0]
    /\ scenario \in Scenarios /\ limits = scenario.limits

-----------------------------------------------------------------------------
(* What the reading rules say of a read *)

(* The number of the line that item i of the script is or grows. *)
LineOf(i) == Cardinality({j \in 1..i : Script[j] \in {"line", "blank"}})

(* What the rules say of the script from `seen` to `upto`, read at `at`: a  *)
(* line with what it grew by since, whole; the growth of one read before.   *)
(* A read that loses track says so first: it counts its lines by their text *)
(* ("about"), or the lines before that place are gone ("more").             *)
News(seen, upto, at) ==
    LET lost == {i \in seen + 1..upto : Script[i] = "more"}
        from == IF lost = {} THEN seen + 1 ELSE (CHOOSE i \in lost : \A j \in lost : j <= i) + 1
        Says(i) == CASE Script[i] = "line" -> <<Line(LineOf(i), "exactly", FALSE, LineSize, at)>>
                     [] Script[i] = "blank" -> <<Line(LineOf(i), "exactly", TRUE, 0, at)>>
                     [] Script[i] = "growth" /\ LineOf(i) = LineOf(from - 1) ->
                          <<Growth(LineOf(i), LineSize, at)>>
                     [] OTHER -> <<>>
        kind == IF lost # {} THEN <<SkippedItem(MoreThan(0))>>
                ELSE IF \E i \in from..upto : Script[i] = "about" THEN <<SkippedItem(About(0))>>
                ELSE <<>>
    IN  kind \o FlattenSeq([i \in 1..upto + 1 - from |-> Says(from + i - 1)])

-----------------------------------------------------------------------------
(* Core: the requests it makes of the outpost *)

asked(k, ask) == \E i \in DOMAIN k.open : k.open[i] = ask

holds(k) == k.model /\ k.held

(* A request about the terminal, none once Core no longer models it. *)
request(k, op, then, hold) ==
    IF ~k.model THEN k
    ELSE [k EXCEPT !.asks = Append(@, op), !.open = Append(@, then), !.held = hold]

(* Tells the outpost to hold once as many lines wait, here or in speech, as *)
(* a group speaks.                                                          *)
hold_if_full(k) ==
    IF \/ holds(k) \/ asked(k, "cancel")
       \/ Lines(k.waiting) + Len(SelectSeq(k.ahead, LAMBDA a : a.line)) < full_lines
    THEN k
    ELSE request(k, "hold", "nothing", TRUE)

(* Asks for what is new, then to hold or to read each change at once.       *)
ask(k, hold) ==
    IF asked(k, "read") \/ asked(k, "cancel") THEN k
    ELSE request(k, IF hold THEN "read_hold" ELSE "read_live", "read", hold)

(* Mutant: a request already open is taken for the cancel. *)
cancel_asked(k) ==
    IF ~holds(k) THEN k
    ELSE IF asked(k, "read") THEN [k EXCEPT !.held = FALSE]
    ELSE request(k, "cancel", "cancel", FALSE)

(* Tells an outpost that holds, or that was asked, to read to the end       *)
(* without speaking; the request still unanswered is overtaken.             *)
cancel(k) ==
    IF ~holds(k) /\ ~asked(k, "read") THEN k
    ELSE LET forgotten == [i \in DOMAIN k.open |->
                             CASE k.open[i] \in {"cancel", "overtaken"} -> "nothing"
                               [] k.open[i] = "read" -> "overtaken"
                               [] OTHER -> k.open[i]]
         IN  IF k.model THEN request([k EXCEPT !.open = forgotten], "cancel", "cancel", FALSE) ELSE k

-----------------------------------------------------------------------------
(* Core: handing output to speech *)

(* A blank line is not spoken, and a lost read's "more than" count of none  *)
(* is not when a skip after it will say it.                                 *)
Silent(k, item) ==
    \/ item.kind \in {"line", "growth"} /\ item.blank
    \/ is_mark(item) /\ skip_says_more_than(k.waiting, IF k.group = NoGroup THEN 0 ELSE k.group)

(* One item handed on: the last line of a group, handed while the outpost   *)
(* holds, asks for what is new; an utterance has a mark at either end.      *)
speak(k, item) ==
    IF Silent(k, item) THEN k
    ELSE [k EXCEPT !.says = Append(@, [open |-> k.mark, close |-> k.mark + 1,
                                       item |-> item, begun |-> FALSE]),
                   !.ahead = Append(@, [mark |-> k.mark, line |-> is_line(item)]),
                   !.sounding = k.mark + 1, !.mark = @ + 2]

hand(k) ==
    LET item == Head(k.waiting)
        counts == is_line(item) /\ k.group # NoGroup
        Asking(k1) == IF counts /\ k1.group = 0 /\ holds(k1) THEN ask(k1, TRUE) ELSE k1
    IN  speak(Asking([k EXCEPT !.waiting = Tail(@), !.handed = Append(@, item),
                               !.group = IF counts /\ @ > 0 THEN @ - 1 ELSE @]), item)

(* Whether the group, or everything waiting, has been handed on and heard. *)
Heard(k) ==
    /\ k.sounding = 0 /\ k.ahead = <<>>
    /\ k.group # NoGroup /\ (k.group = 0 \/ k.waiting = <<>>)

RECURSIVE pump(_), decide_and_pump(_), hand_on(_)

(* Hands on until enough is ahead of playback, as far as the group goes. *)
hand_on(k) ==
    IF \/ Len(k.ahead) >= AHEAD \/ k.waiting = <<>>
       \/ k.group = 0 /\ ~belongs(Head(k.waiting))
    THEN k
    ELSE hand_on(hand(k))

pump(k) ==
    LET HandedOn(k1) ==
            IF ~Heard(k1) THEN k1
            ELSE IF asked(k1, "read") THEN [k1 EXCEPT !.deciding = TRUE]
            ELSE decide_and_pump(k1)
    IN  HandedOn(hand_on(k))

(* Mutant: reading does not go live again once nothing waits. *)
decide_and_pump_held(k) == IF ~k.trace THEN k ELSE pump(decide(k))

(* The decision, then the next group; with nothing left, reading goes live. *)
decide_and_pump(k) ==
    IF ~k.trace THEN k
    ELSE LET Over(k1) == IF k1.group = NoGroup THEN [k1 EXCEPT !.handed = <<>>] ELSE k1
             GoLive(k2) == IF k2.waiting = <<>> /\ holds(k2) THEN ask(k2, FALSE) ELSE k2
         IN  GoLive(pump(Over(decide(k))))

(* Takes in what a read said, unless it was read before a cut. *)
take(k, items, before_cut) ==
    IF ~k.report \/ before_cut \/ items = <<>> THEN k
    ELSE LET Queued(k1) == bound([k1 EXCEPT !.waiting = queue(@, k1.group, items)])
         IN  hold_if_full(pump(Queued(
                [k EXCEPT !.trace = TRUE,
                          !.group = IF @ = NoGroup THEN full_lines ELSE @,
                          !.base = IF k.handed \o k.waiting # <<>> THEN @
                                   ELSE IF \E i \in DOMAIN items : is_line(items[i])
                                   THEN SelectSeq(items, is_line)[1].id - 1
                                   ELSE LineOf(k.seen)])))

-----------------------------------------------------------------------------
(* Core: its inputs *)

(* A read's rows taken into Core's memory, and what they say. *)
Aligned(k, upto) == [k EXCEPT !.seen = IF upto > @ THEN upto ELSE @]

(* A live report: dropped when it was read before speech was last cut off,  *)
(* or before the outpost took the cancel.                                   *)
snapshot(k, upto, started) ==
    take(Aligned(k, upto), News(k.seen, upto, started),
         asked(k, "cancel") \/ started < k.cut_at)

(* The outpost's answer to the oldest request: what was new when Core       *)
(* asked, and the backlog looked at when the group was already heard; of    *)
(* the answer to a cancel, or to a request one overtook, no output.         *)
answered(k, upto, started) ==
    LET then == Head(k.open)
        ended == [k EXCEPT !.open = Tail(@)]
        Looked(k1) == IF then = "read" /\ k1.deciding
                      THEN decide_and_pump([k1 EXCEPT !.deciding = FALSE]) ELSE k1
    IN  IF then = "nothing" THEN ended
        ELSE Looked(take(Aligned(ended, upto), News(k.seen, upto, started), then # "read"))

(* An utterance starts to play, or the last one has been heard. *)
mark_reached(k, mark) ==
    IF ~k.trace THEN k
    ELSE IF \E i \in DOMAIN k.ahead : k.ahead[i].mark = mark
    THEN pump([k EXCEPT !.ahead = SelectSeq(@, LAMBDA a : a.mark > mark)])
    ELSE IF k.sounding # mark THEN k
    ELSE LET Silenced(k1) ==
                 IF ~Heard(k1) THEN pump(k1)
                 ELSE IF asked(k1, "read") THEN [k1 EXCEPT !.deciding = TRUE]
                 ELSE decide_and_pump(k1)
         IN  Silenced([k EXCEPT !.sounding = 0])

(* Speech was cut off: what waits and what was handed on is dropped. *)
cut(k, at) ==
    cancel([k EXCEPT !.waiting = <<>>, !.ahead = <<>>, !.sounding = 0, !.group = NoGroup,
                     !.deciding = FALSE, !.cut_at = IF at > @ THEN at ELSE @,
                     !.handed = <<>>,
                     !.last_cut = IF at = 0 THEN now + 1 ELSE IF at > @ THEN at ELSE @])

utterance_cancelled(k, marks, at) ==
    IF k.sounding \in marks \/ \E i \in DOMAIN k.ahead : k.ahead[i].mark \in marks
    THEN cut(k, at) ELSE k

(* "Report new output" turned off drops what waits. *)
drop_waiting(k) ==
    cancel([k EXCEPT !.waiting = <<>>, !.group = IF k.ahead = <<>> THEN NoGroup ELSE @,
                     !.deciding = FALSE, !.handed = <<>>])

toggle(k) ==
    IF k.report THEN drop_waiting([k EXCEPT !.report = FALSE]) ELSE [k EXCEPT !.report = TRUE]

(* The outpost ended: its terminal's model goes, and each open request ends *)
(* unanswered, in order.                                                    *)
RECURSIVE outpost_gone(_)
outpost_gone(k) == IF k.open = <<>> THEN k ELSE outpost_gone(answered(k, k.seen, 0))

outpost_ended(k) == outpost_gone([k EXCEPT !.model = FALSE, !.held = FALSE])

-----------------------------------------------------------------------------
(* Core's steps *)

(* Core becomes k: what it asks and says goes out. *)
Becomes(k) ==
    /\ core' = [k EXCEPT !.asks = <<>>, !.says = <<>>]
    /\ requests' = requests \o k.asks
    /\ speech' = speech \o k.says

RECURSIVE marks_reached(_, _)
marks_reached(k, marks) ==
    IF marks = <<>> THEN k ELSE marks_reached(mark_reached(k, Head(marks)), Tail(marks))

(* Core takes what playback, the speech queue and the keyboard hook post. *)
TakePost ==
    /\ port # <<>>
    /\ port' = Tail(port)
    /\ LET post == Head(port) IN
       \/ post.kind = "mark"      /\ Becomes(mark_reached(core, post.marks[1]))
       \/ post.kind = "failed"    /\ Becomes(marks_reached(core, post.marks))
       \/ post.kind = "cancelled" /\ Becomes(utterance_cancelled(core, ToSet(post.marks), post.at))
       \/ post.kind = "cut"       /\ Becomes(cut(core, post.at))
    /\ UNCHANGED <<written, changed, reading, work, messages, now, alive, used, limits, scenario>>

(* Core takes the outpost's next report or answer. *)
TakeMessage ==
    /\ messages # <<>>
    /\ messages' = Tail(messages)
    /\ LET m == Head(messages) IN
       \/ m.kind = "report" /\ Becomes(snapshot(core, m.upto, m.started))
       \/ m.kind = "answer" /\ Becomes(answered(core, m.upto, m.started))
       \/ m.kind = "none"   /\ Becomes(answered(core, core.seen, 0))
    /\ UNCHANGED <<written, changed, reading, work, port, now, alive, used, limits, scenario>>

Toggle ==
    /\ May("toggles")
    /\ used' = [used EXCEPT !.toggles = @ + 1]
    /\ Becomes(toggle(core))
    /\ UNCHANGED <<written, changed, reading, work, messages, port, now, alive, limits, scenario>>

(* The endings of the utterances a cut takes from the speech queue. *)
Cancelled(us) ==
    IF us = <<>> THEN <<>>
    ELSE <<[kind |-> "cancelled", at |-> now + 1,
            marks |-> FlattenSeq([i \in DOMAIN us |-> <<us[i].open, us[i].close>>])]>>

(* An utterance that interrupts cuts speech off as Core speaks it. *)
Interrupt ==
    /\ May("interrupts")
    /\ used' = [used EXCEPT !.interrupts = @ + 1]
    /\ now' = now + 1
    /\ LET k == cut(core, 0) IN
       /\ core' = [k EXCEPT !.asks = <<>>]
       /\ requests' = requests \o k.asks
    /\ speech' = <<>>
    /\ port' = port \o Cancelled(speech)
    /\ UNCHANGED <<written, changed, reading, work, messages, alive, limits, scenario>>

-----------------------------------------------------------------------------
(* The keyboard hook and playback *)

(* A key cuts speech off and tells Core when. *)
Press ==
    /\ May("cuts")
    /\ used' = [used EXCEPT !.cuts = @ + 1]
    /\ now' = now + 1
    /\ speech' = <<>>
    /\ port' = Append(port, [kind |-> "cut", marks |-> <<>>, at |-> now + 1]) \o Cancelled(speech)
    /\ UNCHANGED <<core, written, changed, reading, work, requests, messages, alive, limits, scenario>>

(* Playback reaches the next mark of the utterance playing. *)
Play ==
    /\ speech # <<>>
    /\ LET u == Head(speech) IN
       /\ speech' = IF u.begun THEN Tail(speech) ELSE [speech EXCEPT ![1].begun = TRUE]
       /\ port' = Append(port, [kind |-> "mark", at |-> 0,
                                marks |-> <<IF u.begun THEN u.close ELSE u.open>>])
    /\ UNCHANGED <<core, written, changed, reading, work, requests, messages, now, alive, used, limits, scenario>>

(* An utterance fails, prepared ahead or playing. *)
Fail(i) ==
    /\ May("fails")
    /\ used' = [used EXCEPT !.fails = @ + 1]
    /\ speech' = RemoveAt(speech, i)
    /\ port' = Append(port, [kind |-> "failed", at |-> 0, marks |-> <<speech[i].open, speech[i].close>>])
    /\ UNCHANGED <<core, written, changed, reading, work, requests, messages, now, alive, limits, scenario>>

-----------------------------------------------------------------------------
(* The program and the outpost *)

Write ==
    /\ written < Len(Script)
    /\ written' = written + 1
    /\ changed' = alive
    /\ UNCHANGED <<core, reading, work, requests, messages, speech, port, now, alive, used, limits, scenario>>

(* The on-demand reading after an event, and what the worker does for it. *)
ReadingNext(state, event) ==
    CASE event = "cancel" -> <<Live, IF state = HeldChanged THEN "read" ELSE "empty">>
      [] event = "changed" -> IF state = Live THEN <<Live, "report">> ELSE <<HeldChanged, "nothing">>
      [] event = "hold" -> <<IF state = Live THEN Held ELSE state, "empty">>
      [] event \in {"read_hold", "read_live"} ->
           <<IF event = "read_hold" THEN Held ELSE Live, IF state = HeldChanged THEN "read" ELSE "empty">>

(* The worker takes a change of the text: read at once, or noted.  A change *)
(* a read has begun after is covered by it.                                 *)
Change ==
    /\ alive /\ ~work.busy /\ changed
    /\ changed' = FALSE
    /\ LET next == ReadingNext(reading, "changed") IN
       /\ reading' = next[1]
       /\ work' = IF next[2] = "report"
                  THEN [busy |-> TRUE, op |-> "changed", answer |-> FALSE, started |-> now] ELSE Idle
    /\ UNCHANGED <<core, written, requests, messages, speech, port, now, alive, used, limits, scenario>>

(* The worker takes Core's next request: answered at once with nothing, or  *)
(* by a read.                                                               *)
Serve ==
    /\ alive /\ ~work.busy /\ requests # <<>>
    /\ requests' = Tail(requests)
    /\ LET op == Head(requests)
           next == ReadingNext(reading, op) IN
       /\ reading' = next[1]
       /\ \/ /\ next[2] = "read"
             /\ work' = [busy |-> TRUE, op |-> op, answer |-> TRUE, started |-> now]
             /\ changed' = FALSE
             /\ UNCHANGED messages
          \/ /\ next[2] = "empty"
             /\ messages' = Append(messages, [kind |-> "none", upto |-> 0, started |-> 0])
             /\ UNCHANGED <<work, changed>>
    /\ UNCHANGED <<core, written, speech, port, now, alive, used, limits, scenario>>

(* The terminal answers the read, which is sent. *)
Read ==
    /\ work.busy
    /\ work' = Idle
    /\ messages' = Append(messages, [kind |-> IF work.answer THEN "answer" ELSE "report",
                                     upto |-> written, started |-> work.started])
    /\ UNCHANGED <<core, written, changed, reading, requests, speech, port, now, alive, used, limits, scenario>>

(* The read fails: the request is answered as unanswered. *)
Unread ==
    /\ work.busy /\ May("unread")
    /\ used' = [used EXCEPT !.unread = @ + 1]
    /\ work' = Idle
    /\ messages' = IF work.answer
                   THEN Append(messages, [kind |-> "none", upto |-> 0, started |-> 0]) ELSE messages
    /\ UNCHANGED <<core, written, changed, reading, requests, speech, port, now, alive, limits, scenario>>

(* The terminal's window hangs: a request is answered as abandoned, before  *)
(* its first call, with nothing of the terminal's entry changed.            *)
Refuse ==
    /\ alive /\ ~work.busy /\ requests # <<>> /\ May("hung")
    /\ used' = [used EXCEPT !.hung = @ + 1]
    /\ requests' = Tail(requests)
    /\ messages' = Append(messages, [kind |-> "none", upto |-> 0, started |-> 0])
    /\ UNCHANGED <<core, written, changed, reading, work, speech, port, now, alive, limits, scenario>>

(* The outpost ends: what it sent is taken first, then its requests end. *)
End ==
    /\ alive /\ May("ends")
    /\ used' = [used EXCEPT !.ends = @ + 1]
    /\ alive' = FALSE
    /\ work' = Idle /\ changed' = FALSE
    /\ UNCHANGED <<core, written, reading, requests, messages, speech, port, now, limits, scenario>>

Ended ==
    /\ ~alive /\ core.model /\ messages = <<>>
    /\ LET Gone(k) == core' = [k EXCEPT !.asks = <<>>, !.says = <<>>] /\ speech' = speech \o k.says
       IN  Gone(outpost_ended(core))
    /\ requests' = <<>>
    /\ UNCHANGED <<written, changed, reading, work, messages, port, now, alive, used, limits, scenario>>

Next ==
    \/ TakePost \/ TakeMessage \/ Toggle \/ Interrupt
    \/ Press \/ Play \/ \E i \in DOMAIN speech : Fail(i)
    \/ Write \/ Change \/ Serve \/ Read \/ Unread \/ Refuse \/ End \/ Ended

Spec == Init /\ [][Next]_vars

-----------------------------------------------------------------------------
(* Properties *)

(* What is handed to speech of a burst and what waits account for every     *)
(* line read: each line comes in order, a skipped count stands for exactly  *)
(* the lines missing in its place, a growth follows the line it grew, and   *)
(* the last is the last line read.  Only after "more than" is the count not *)
(* known.  (take, queue, skip_all_but, bound, decide and pump together.)    *)
Accounted ==
    LET said == core.handed \o core.waiting
        Step(at, item) ==
          CASE is_line(item) ->
                 [ok |-> at.ok /\ (at.known => item.id = at.line + 1), line |-> item.id, known |-> TRUE]
            [] item.kind = "growth" -> [at EXCEPT !.ok = @ /\ (at.known => item.id = at.line)]
            [] item.kind = "skipped" /\ item.count[1] \in {"count", "about"} ->
                 [at EXCEPT !.line = @ + item.count[2]]
            [] item.kind = "skipped" -> [at EXCEPT !.known = FALSE]
            [] OTHER -> at
        end == FoldLeft(Step, [ok |-> TRUE, line |-> core.base, known |-> TRUE], said)
    IN  core.trace /\ said # <<>> => end.ok /\ (end.known => end.line = LineOf(core.seen))

(* The first "Lines spoken in full" lines of a burst are spoken whole,      *)
(* however fast the rest arrives: none of them is ever part of a skipped    *)
(* count.  Of output that fits the byte bound, and of which no read loses   *)
(* track.                                                                   *)
OpensWhole ==
    LET said == core.handed \o core.waiting
        fits == Len(Script) * LineSize <= MAX_WAITING_BYTES /\ \A i \in DOMAIN Script : Script[i] # "more"
    IN  core.trace /\ fits => \A i \in DOMAIN said :
        said[i].kind = "skipped" => Lines(SubSeq(said, 1, i)) >= full_lines

(* Output read before a cut is not spoken after it: what waits, and what    *)
(* Core has handed to speech since its last cut, was read after that cut.   *)
(* Of a cut by an interrupting utterance Core notes no time.                *)
NothingFromBefore ==
    LET said == core.handed \o core.waiting IN
    used.interrupts = 0 => \A i \in DOMAIN said : is_line(said[i]) => said[i].at >= core.last_cut

(* Core and the outpost agree on whether reading is held, whenever no       *)
(* request of Core's is open: an outpost left holding while Core believes   *)
(* it reads live would never report again.  A request refused while the     *)
(* window hangs changes Core's side alone.                                  *)
HoldAgrees ==
    used.hung = 0 /\ core.open = <<>> /\ alive /\ core.model => (core.held <=> reading # Live)

(* Playback, the pipes and the outpost are quiet. *)
Quiet ==
    /\ speech = <<>> /\ port = <<>> /\ core.open = <<>> /\ messages = <<>>
    /\ ~work.busy /\ ~changed

(* Nothing read is left unspoken: once all is quiet, no output waits and    *)
(* the burst is over, so the next output starts one.                        *)
NothingLeft ==
    core.trace /\ Quiet => core.waiting = <<>> /\ core.group = NoGroup /\ ~core.deciding

(* Every line read is spoken or counted in its place and none is left, a    *)
(* burst opens whole, nothing read before a cut is spoken after it, and     *)
(* Core and the outpost agree on the hold.                                  *)
SpokenInPlace == Accounted /\ OpensWhole /\ NothingFromBefore /\ HoldAgrees /\ NothingLeft

(* Nothing written is left unread: once all is quiet reading is live again, *)
(* and all that could be read has been.                                     *)
LiveAgain ==
    Quiet /\ alive /\ used.unread = 0 => ~core.held /\ core.seen = written

(* What the program, the outpost, Core and the device do of themselves.     *)
Step ==
    TakePost \/ TakeMessage \/ Play \/ Write \/ Change \/ Serve \/ Read \/ Ended

Settled ==
    /\ port = <<>> /\ messages = <<>> /\ speech = <<>> /\ written = Len(Script)
    /\ IF alive THEN ~changed /\ ~work.busy /\ requests = <<>> ELSE ~core.model

(* As long as one of them can step, one does: weak fairness of Step, with   *)
(* its guard written out.                                                   *)
Fairness == []<>Settled \/ []<><<Step>>_vars

(* With more lines spoken in full than are handed on ahead of playback, and *)
(* nothing going wrong.                                                     *)
Calm == full_lines > AHEAD /\ \A event \in DOMAIN scenario.may : scenario.may[event] = 0

(* Everything written is read in the end and nothing is left waiting: a     *)
(* hold of Core's on the reading ends.                                      *)
AllRead ==
    Fairness =>
        (Calm => <>[](~core.held /\ core.seen = Len(Script) /\ core.waiting = <<>> /\ reading = Live))

=============================================================================
