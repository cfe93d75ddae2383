------------------------------- MODULE SayAll -------------------------------
(* Say all: Core reads a document a batch at a time, cuts it into           *)
(* utterances at its sentence ends, hands them to speech two ahead of       *)
(* playback, and moves the caret as playback reaches their marks, until the *)
(* document ends, a key is pressed, or its outpost goes.                    *)
(*                                                                          *)
(* The document is a sequence of chunks, each a sequence of the pieces read *)
(* of it (none of a blank one); a piece is told by where its last sentence  *)
(* end is: none, at its end, or in its middle, where its text is two parts. *)
(* Core is one record of its state and of what its effects reach, changed   *)
(* by one function per input.                                               *)
EXTENDS Integers, Sequences, SequencesExt, FiniteSets

CONSTANTS
    Worlds,         \* the documents read, and what happens meanwhile
    READ_AHEAD, HANDED, LOW_WATER, MAX_HELD

ASSUME SayAllAssumption ==
    /\ {READ_AHEAD, HANDED, LOW_WATER, MAX_HELD} \subseteq Nat \ {0}
    /\ \A w \in Worlds : ~w.supported => \A c \in DOMAIN w.doc : Len(w.doc[c]) <= 1

VARIABLES
    core,       \* Core's state, its requests, and what it speaks in a step
    inbox,      \* the speech queue's inbox: utterances, keys' cancels, endings
    speech,     \* the utterances in the speech queue and being played
    fence,      \* the latest key that cancelled speech
    caret,      \* the application's caret
    answers,    \* the outpost's answers Core has not taken
    port,       \* keys, marks reached and endings Core has not taken
    alive,      \* whether the outpost is there
    pressed,    \* the keys pressed
    failed,     \* utterances failed
    refused,    \* reads not answered
    reached,    \* the units whose text playback has reached
    world       \* the chunks of the text, whether the provider has the unit
                \* asked for, how many keys are pressed, utterances fail and
                \* reads are not answered, and whether the outpost may end

vars == <<core, inbox, speech, fence, caret, answers, port, alive, pressed, failed, refused, reached, world>>

----------------------------------------------------------------------------
(* Positions and text *)

Doc == world.doc

Pos(c, p) == [chunk |-> c, piece |-> p]

Nowhere == Pos(0, 0)

Before(a, b) == a.chunk < b.chunk \/ (a.chunk = b.chunk /\ a.piece < b.piece)

(* The parts of a piece's text, divided by a sentence end in its middle. *)
Parts(c, p) == IF Doc[c][p] = "mid" THEN 2 ELSE 1

(* A BufferedPiece: parts from..to of a piece; marked where the piece starts. *)
Piece(c, p) == [at |-> Pos(c, p), from |-> 1, to |-> Parts(c, p), marked |-> TRUE]

TextOf(piece) == [i \in 1..piece.to - piece.from + 1 |-> <<piece.at, piece.from + i - 1>>]

TextOfAll(pieces) == FlattenSeq([i \in DOMAIN pieces |-> TextOf(pieces[i])])

(* The text of the document from a position to the end of a chunk. *)
TextBetween(from, last) ==
    LET Rest(c) == LET first == IF c = from.chunk THEN from.piece ELSE 1 IN
                   TextOfAll([i \in 1..Len(Doc[c]) - first + 1 |-> Piece(c, first + i - 1)])
    IN FlattenSeq([i \in 1..last - from.chunk + 1 |-> Rest(from.chunk + i - 1)])

----------------------------------------------------------------------------
(* Core *)

NoSayAll ==
    [on |-> FALSE, unit |-> "none", last |-> 0, queued |-> <<>>, buffer |-> <<>>,
     held |-> <<>>, held_units |-> 0, trace |-> 0, finished |-> FALSE,
     display_held |-> FALSE, by |-> 0, from |-> Nowhere]

Init ==
    /\ core = [say |-> NoSayAll, open |-> {}, asked |-> 0, mark |-> 0,
               focus |-> TRUE, keep_display_on |-> TRUE,
               display |-> FALSE, cursor |-> Nowhere,
               asks |-> <<>>, spoken |-> <<>>, handed |-> <<>>, told |-> Nowhere]
    /\ inbox = <<>> /\ speech = <<>> /\ fence = 0
    /\ caret = Pos(1, 1)
    /\ answers = <<>> /\ port = <<>>
    /\ alive = TRUE
    /\ pressed = 0 /\ failed = 0 /\ refused = 0
    /\ reached = {}
    /\ world \in Worlds

(* Queries::ask: a request to the outpost, under the trace of the input     *)
(* that caused it, named by its key, or 0 for one no key caused.            *)
Ask(k, op, then, trace) ==
    [k EXCEPT !.asked = @ + 1,
              !.open = @ \cup {[id |-> k.asked + 1, then |-> then]},
              !.asks = Append(@, [op EXCEPT !.id = k.asked + 1, !.trace = trace])]

Op(kind, at, moves) ==
    [id |-> 0, trace |-> 0, kind |-> kind, at |-> at, moves |-> moves, unit |-> "none"]

Reading(k) == \E q \in k.open : q.then = "say_all"

stop(k) ==
    [k EXCEPT !.say = NoSayAll,
              !.open = {[q EXCEPT !.then = IF @ = "say_all" THEN "nothing" ELSE @] : q \in @},
              !.display = IF k.say.on /\ k.say.display_held THEN FALSE ELSE @]

(* The first batch at the caret, each later one a unit on from the last. *)
read_next(k, trace) ==
    LET op == IF k.say.last = 0 THEN Op("read", Nowhere, FALSE)
              ELSE Op("read", Pos(k.say.last, 1), TRUE)
    IN IF ~k.say.on THEN k
       ELSE Ask(k, [op EXCEPT !.unit = k.say.unit], "say_all", trace)

(* Starts reading from the caret, the key of its command being key. *)
start(k, key) ==
    LET k1 == stop(k) IN
    read_next([k1 EXCEPT
        !.say = [NoSayAll EXCEPT !.on = TRUE, !.unit = "sentence", !.by = key,
                                 !.display_held = k1.keep_display_on],
        !.display = IF k1.keep_display_on THEN TRUE ELSE @,
        !.handed = <<>>, !.told = Nowhere], key)

(* A command stops say-all; say-all's starts it afresh in a live focus. *)
caret_command(k, key) == IF k.focus THEN start(stop(k), key) ELSE stop(k)

release(s) ==
    [s EXCEPT !.held_units = 0,
              !.buffer = IF s.held = <<>> THEN @ ELSE Append(@, s.held),
              !.held = <<>>]

heldBack(s) ==
    LET s1 == [s EXCEPT !.held_units = @ + 1] IN
    IF s1.held_units >= MAX_HELD THEN release(s1) ELSE s1

(* Speaks a unit without pauses: what is held back and the unit up to its   *)
(* last sentence end become an utterance, and the rest is held back.        *)
hold(s, piece) ==
    LET pause == Doc[piece.at.chunk][piece.at.piece]
        head  == [piece EXCEPT !.to = IF pause = "mid" THEN 1 ELSE @]
        rest  == [piece EXCEPT !.from = 2, !.marked = FALSE]
        s1    == [s EXCEPT !.held = Append(@, head)]
    IN CASE pause = "none" -> heldBack(s1)
         [] pause = "end"  -> release(s1)
         [] pause = "mid"  -> [release(s1) EXCEPT !.held = <<rest>>]

(* The pieces of a chunk from one of them on; a blank chunk counts among    *)
(* the units with no sentence end.                                          *)
takeChunk(s, c, from) ==
    LET pieces == [i \in 1..Len(Doc[c]) - from + 1 |-> Piece(c, from + i - 1)]
        s1 == [s EXCEPT !.last = c]
    IN IF pieces = <<>> THEN heldBack(s1) ELSE FoldLeft(hold, s1, pieces)

unstarted(s) == Len(SelectSeq(s.queued, LAMBDA m : m.opens))

(* The marks of an utterance: one opens it, and one is at the start of each *)
(* unit in it, to which the cursor moves.                                   *)
MarksOf(pieces, first) ==
    LET marked == SelectSeq([i \in DOMAIN pieces |-> i], LAMBDA i : i = 1 \/ pieces[i].marked)
    IN [n \in DOMAIN marked |->
          [mark |-> first + n,
           unit |-> IF pieces[marked[n]].marked THEN pieces[marked[n]].at ELSE Nowhere,
           text |-> pieces[marked[n]].at,
           opens |-> marked[n] = 1]]

(* Hands speech the buffered utterances it can take, stamped with the key   *)
(* of the input's trace, or else of the latest read's.                      *)
RECURSIVE hand_out(_, _)
hand_out(k, trace) ==
    IF ~k.say.on \/ unstarted(k.say) >= HANDED \/ k.say.buffer = <<>> THEN k
    ELSE LET pieces == Head(k.say.buffer)
             ms     == MarksOf(pieces, k.mark)
             k1 == [k EXCEPT !.mark = @ + Len(ms),
                             !.say.buffer = Tail(@),
                             !.say.queued = @ \o ms,
                             !.handed = @ \o TextOfAll(pieces)]
             utterance == [marks |-> ms, played |-> 0, by |-> k.say.by,
                           key |-> IF trace # 0 THEN trace ELSE k.say.trace]
         IN hand_out([k1 EXCEPT !.spoken = Append(@, utterance)], trace)

end_if_done(k) ==
    IF k.say.on /\ k.say.finished /\ k.say.queued = <<>>
         /\ k.say.buffer = <<>> /\ k.say.held = <<>>
    THEN stop(k) ELSE k

read_on_or_end(k, trace) ==
    CASE ~k.say.on      -> k
      [] k.say.finished -> end_if_done(k)
      [] OTHER -> IF ~Reading(k) /\ unstarted(k.say) + Len(k.say.buffer) < LOW_WATER
                  THEN read_next(k, trace) ELSE k

(* Mutant: the text held back at the end is never spoken. *)
reply_unreleased(k, trace, answer) ==
    LET s == [k.say EXCEPT !.trace = trace]
        taken == FoldLeft(LAMBDA t, c : takeChunk(t, c, IF t.last = 0 THEN answer.from.piece ELSE 1),
                          s, answer.chunks)
        read == IF (s.last # 0 /\ ~answer.moved) \/ answer.chunks = <<>>
                THEN [s EXCEPT !.finished = TRUE]
                ELSE [taken EXCEPT !.finished = @ \/ answer.last,
                                   !.from = IF s.last = 0 THEN answer.from ELSE @]
    IN CASE ~k.say.on -> k
         [] k.say.on /\ answer.kind = "unsupported" /\ s.unit # "line" ->
              read_next([k EXCEPT !.say.unit = "line"], trace)
         [] k.say.on /\ answer.kind = "chunks" ->
              read_on_or_end(hand_out([k EXCEPT !.say = read], trace), trace)
         [] OTHER -> stop(k)

(* The answer to say-all's read. *)
reply(k, trace, answer) ==
    LET s == [k.say EXCEPT !.trace = trace]
        taken == FoldLeft(LAMBDA t, c : takeChunk(t, c, IF t.last = 0 THEN answer.from.piece ELSE 1),
                          s, answer.chunks)
        read == IF (s.last # 0 /\ ~answer.moved) \/ answer.chunks = <<>>
                THEN [s EXCEPT !.finished = TRUE]
                ELSE [taken EXCEPT !.finished = @ \/ answer.last,
                                   !.from = IF s.last = 0 THEN answer.from ELSE @]
        whole == IF read.finished THEN release(read) ELSE read
    IN CASE ~k.say.on -> k
         [] k.say.on /\ answer.kind = "unsupported" /\ s.unit # "line" ->
              read_next([k EXCEPT !.say.unit = "line"], trace)
         [] k.say.on /\ answer.kind = "chunks" ->
              read_on_or_end(hand_out([k EXCEPT !.say = whole], trace), trace)
         [] OTHER -> stop(k)

(* queries::answered: the query ends, and what it continues runs. *)
answered(k, answer) ==
    LET ended == {q \in k.open : q.id = answer.id}
        k1 == [k EXCEPT !.open = @ \ ended]
    IN IF \E q \in ended : q.then = "say_all" THEN reply(k1, answer.trace, answer) ELSE k1

(* Mutant: only the marks before the one reached are taken off. *)
passed_before(k, mark, moves) ==
    LET off  == SelectSeq(k.say.queued, LAMBDA m : m.mark < mark)
        on   == SelectSeq(k.say.queued, LAMBDA m : m.mark >= mark)
        units == SelectSeq(off, LAMBDA m : m.unit # Nowhere)
        k1   == [k EXCEPT !.say.queued = on]
        k2   == IF moves /\ units # <<>>
                THEN [Ask(k1, Op("move", Last(units).unit, FALSE), "nothing", 0)
                         EXCEPT !.cursor = Last(units).unit]
                ELSE k1
    IN IF \E i \in DOMAIN k.say.queued : k.say.queued[i].mark = mark
       THEN read_on_or_end(hand_out(k2, 0), 0) ELSE k

(* Playback has gone past a mark: the marks up to it are taken off, the     *)
(* cursor moves to the last unit among them, and the next is handed on.     *)
passed(k, mark, moves) ==
    LET off  == SelectSeq(k.say.queued, LAMBDA m : m.mark <= mark)
        on   == SelectSeq(k.say.queued, LAMBDA m : m.mark > mark)
        units == SelectSeq(off, LAMBDA m : m.unit # Nowhere)
        k1   == [k EXCEPT !.say.queued = on]
        k2   == IF moves /\ units # <<>>
                THEN [Ask(k1, Op("move", Last(units).unit, FALSE), "nothing", 0)
                         EXCEPT !.cursor = Last(units).unit]
                ELSE k1
    IN IF \E i \in DOMAIN k.say.queued : k.say.queued[i].mark = mark
       THEN read_on_or_end(hand_out(k2, 0), 0) ELSE k

(* Playback reached the mark that starts a unit, or none: told, of the      *)
(* say-all running, is the last such unit.                                  *)
mark_reached(k, mark) ==
    LET k1 == passed(k, mark.mark, TRUE) IN
    [k1 EXCEPT !.told = IF k.say.on /\ k1.say.on /\ mark.by = k.say.by /\ mark.unit # Nowhere
                        THEN mark.unit ELSE @]

(* A failed utterance counts as heard, but moves no cursor. *)
utterance_failed(k, ms) == passed(k, Last(ms).mark, FALSE)

utterance_cancelled(k, ms) ==
    IF \E i \in DOMAIN k.say.queued : \E j \in DOMAIN ms : k.say.queued[i].mark = ms[j].mark
    THEN stop(k) ELSE k

(* outpost_ended and outpost_gone: nothing is open at it any more. *)
outpost_ended(k) == [stop(k) EXCEPT !.focus = FALSE, !.open = {}, !.asks = <<>>]

----------------------------------------------------------------------------
(* Core takes an input, and what it speaks goes to the speech queue. *)

Becomes(k) ==
    /\ core' = [k EXCEPT !.spoken = <<>>]
    /\ inbox' = inbox \o [i \in DOMAIN k.spoken |-> [kind |-> "speak", item |-> k.spoken[i]]]
    /\ UNCHANGED <<speech, fence, caret, alive, pressed, failed, refused, reached, world>>

TakeAnswer ==
    /\ answers # <<>>
    /\ answers' = Tail(answers)
    /\ Becomes(IF Head(answers).kind = "ended" THEN outpost_ended(core)
               ELSE answered(core, Head(answers)))
    /\ UNCHANGED port

(* What the keyboard hook, the speech queue and playback post, in order. *)
TakePost ==
    /\ port # <<>>
    /\ port' = Tail(port)
    /\ LET post == Head(port) IN
       \/ post.kind = "key"       /\ Becomes(stop(core))
       \/ post.kind = "command"   /\ Becomes(caret_command(core, post.key))
       \/ post.kind = "mark"      /\ Becomes(mark_reached(core, post))
       \/ post.kind = "failed"    /\ Becomes(utterance_failed(core, post.marks))
       \/ post.kind = "cancelled" /\ Becomes(utterance_cancelled(core, post.marks))
    /\ UNCHANGED answers

(* The setting that keeps the display on is changed. *)
ChangeSetting ==
    /\ core.keep_display_on
    /\ Becomes([core EXCEPT !.keep_display_on = FALSE])
    /\ UNCHANGED <<answers, port>>

----------------------------------------------------------------------------
(* The keyboard hook, the speech queue and playback *)

(* A key cancels speech and tells Core, and may then be say-all's command. *)
Press(command) ==
    /\ pressed < world.keys
    /\ pressed = 0 => command
    /\ pressed' = pressed + 1
    /\ inbox' = Append(inbox, [kind |-> "cancel", item |-> pressed + 1])
    /\ port' = port \o <<[kind |-> "key"]>>
                    \o (IF command THEN <<[kind |-> "command", key |-> pressed + 1]>> ELSE <<>>)
    /\ UNCHANGED <<core, speech, fence, caret, answers, alive, failed, refused, reached, world>>

Ending(kind, utterance) == [kind |-> kind, marks |-> utterance.marks]

(* The speech queue: a cancel ends what waits at once, and what playback    *)
(* has, the first n, when playback has cut it; an utterance is dropped when *)
(* a key later than the one that caused it has cancelled speech; the ending *)
(* of one cut or failed is told to Core.                                    *)
TakeSpeech ==
    /\ inbox # <<>>
    /\ LET event == Head(inbox) IN
       \/ /\ event.kind = "cancel"
          /\ fence' = event.item
          /\ speech' = <<>>
          /\ \E n \in 0..Len(speech) :
               /\ speech # <<>> /\ speech[1].played > 0 => n > 0
               /\ inbox' = Tail(inbox) \o [i \in 1..n |->
                              [kind |-> "ended", item |-> Ending("cancelled", speech[i])]]
               /\ port' = port \o [i \in 1..Len(speech) - n |->
                                     Ending("cancelled", speech[n + i])]
       \/ /\ event.kind = "speak"
          /\ event.item.key # 0 /\ event.item.key < fence
          /\ inbox' = Tail(inbox)
          /\ port' = Append(port, Ending("cancelled", event.item))
          /\ UNCHANGED <<speech, fence>>
       \/ /\ event.kind = "speak"
          /\ event.item.key = 0 \/ event.item.key >= fence
          /\ inbox' = Tail(inbox)
          /\ speech' = Append(speech, event.item)
          /\ UNCHANGED <<port, fence>>
       \/ /\ event.kind = "ended"
          /\ inbox' = Tail(inbox)
          /\ port' = Append(port, event.item)
          /\ UNCHANGED <<speech, fence>>
    /\ UNCHANGED <<core, caret, answers, alive, pressed, failed, refused, reached, world>>

(* Playback reaches the first utterance's next mark, or its end. *)
Play ==
    /\ speech # <<>>
    /\ LET u == Head(speech) IN
       \/ /\ u.played = Len(u.marks)
          /\ speech' = Tail(speech)
          /\ UNCHANGED <<port, reached>>
       \/ /\ u.played < Len(u.marks)
          /\ speech' = [speech EXCEPT ![1].played = @ + 1]
          /\ port' = Append(port, [kind |-> "mark", mark |-> u.marks[u.played + 1].mark,
                                   unit |-> u.marks[u.played + 1].unit, by |-> u.by])
          /\ reached' = reached \cup {u.marks[u.played + 1].text}
    /\ UNCHANGED <<core, inbox, fence, caret, answers, alive, pressed, failed, refused, world>>

(* Synthesis of an utterance fails, perhaps while one before it plays; the  *)
(* failure does not wait for the marks before it.                           *)
Fail(i) ==
    /\ failed < world.fails
    /\ failed' = failed + 1
    /\ speech' = RemoveAt(speech, i)
    /\ inbox' = Append(inbox, [kind |-> "ended", item |-> Ending("failed", speech[i])])
    /\ UNCHANGED <<core, port, fence, caret, answers, alive, pressed, refused, reached, world>>

----------------------------------------------------------------------------
(* The outpost answers its requests in order. *)

Answer(kind, from, chunks, moved, last) ==
    [id |-> Head(core.asks).id, trace |-> Head(core.asks).trace, kind |-> kind,
     from |-> from, chunks |-> chunks, moved |-> moved, last |-> last]

Answers(answer) ==
    /\ core.asks # <<>>
    /\ core' = [core EXCEPT !.asks = Tail(@)]
    /\ answers' = Append(answers, answer)
    /\ UNCHANGED <<inbox, speech, fence, port, alive, pressed, failed, reached, world>>

MoveCaret ==
    /\ alive /\ core.asks # <<>>
    /\ Head(core.asks).kind = "move"
    /\ caret' = Head(core.asks).at
    /\ Answers(Answer("done", Nowhere, <<>>, FALSE, FALSE))
    /\ UNCHANGED refused

(* Up to a batch of chunks from the caret, or a unit on from the last; the  *)
(* provider may know that the last of them is the document's last.          *)
ReadAhead ==
    /\ alive /\ core.asks # <<>>
    /\ Head(core.asks).kind = "read"
    /\ world.supported \/ Head(core.asks).unit = "line"
    /\ LET ask   == Head(core.asks)
           from  == IF ask.at = Nowhere THEN caret ELSE ask.at
           moved == ask.moves /\ from.chunk < Len(Doc)
           first == IF moved THEN from.chunk + 1 ELSE from.chunk
       IN \E n \in 1..READ_AHEAD, knows \in BOOLEAN :
            LET last == IF first + n - 1 < Len(Doc) THEN first + n - 1 ELSE Len(Doc) IN
            /\ knows => last = Len(Doc)
            /\ Answers(Answer("chunks", from, [i \in 1..last - first + 1 |-> first + i - 1],
                              moved, knows))
    /\ UNCHANGED <<caret, refused>>

NoSuchUnit ==
    /\ alive /\ core.asks # <<>>
    /\ Head(core.asks).kind = "read"
    /\ ~world.supported /\ Head(core.asks).unit # "line"
    /\ Answers(Answer("unsupported", Nowhere, <<>>, FALSE, FALSE))
    /\ UNCHANGED <<caret, refused>>

NoAnswer ==
    /\ refused < world.refusals
    /\ alive /\ core.asks # <<>>
    /\ Head(core.asks).kind = "read"
    /\ refused' = refused + 1
    /\ Answers(Answer("failed", Nowhere, <<>>, FALSE, FALSE))
    /\ UNCHANGED caret

(* A request that cannot be sent to its outpost fails at once. *)
Unsent ==
    /\ ~alive /\ core.asks # <<>>
    /\ Answers(Answer("failed", Nowhere, <<>>, FALSE, FALSE))
    /\ UNCHANGED <<caret, refused>>

(* The outpost ends with its requests unanswered, and Core is told. *)
OutpostGone ==
    /\ world.ends
    /\ alive
    /\ alive' = FALSE
    /\ core' = [core EXCEPT !.asks = <<>>]
    /\ answers' = Append(answers, [kind |-> "ended"])
    /\ UNCHANGED <<inbox, speech, fence, caret, port, pressed, failed, refused, reached, world>>

----------------------------------------------------------------------------

CoreStep == TakeAnswer \/ TakePost

OutpostStep == MoveCaret \/ ReadAhead \/ NoSuchUnit \/ NoAnswer \/ Unsent

Next ==
    \/ CoreStep
    \/ ChangeSetting
    \/ \E command \in BOOLEAN : Press(command)
    \/ TakeSpeech
    \/ Play
    \/ \E i \in DOMAIN speech : Fail(i)
    \/ OutpostStep
    \/ OutpostGone

Spec == Init /\ [][Next]_vars

(* The reducer's thread takes what is posted to it, the outpost answers,    *)
(* the speech queue takes its inbox, and the device plays on: as long as    *)
(* one of them can step, one does.  Weak fairness of Step, with its guard   *)
(* written out.                                                             *)
Step == CoreStep \/ OutpostStep \/ TakeSpeech \/ Play

Settled ==
    /\ answers = <<>> /\ port = <<>> /\ core.asks = <<>>
    /\ inbox = <<>> /\ speech = <<>>

Fairness == []<>Settled \/ []<><<Step>>_vars

----------------------------------------------------------------------------

(* At most one batch is read at a time, whatever marks, failures and        *)
(* restarts cross the answer.                                               *)
OneRead == Cardinality({q \in core.open : q.then = "say_all"}) <= 1

(* What the running say-all has handed to speech, what it buffers and what  *)
(* it holds back are the document's text from where it started to the last  *)
(* chunk read, with nothing left out, read twice or taken from the answer   *)
(* to an earlier say-all's read.                                            *)
TextWhole ==
    core.say.on /\ core.say.last # 0 =>
        core.handed \o TextOfAll(FlattenSeq(core.say.buffer)) \o TextOfAll(core.say.held)
            = TextBetween(core.say.from, core.say.last)

(* The caret, and where Core takes it to be, is never beyond the text that  *)
(* playback has reached: text that was not heard is not passed over.        *)
NeverAhead ==
    /\ caret = Pos(1, 1) \/ \E heard \in reached : ~Before(heard, caret)
    /\ core.cursor = Nowhere \/ \E heard \in reached : ~Before(heard, core.cursor)

(* When Core has been told that playback reached the start of a unit of the *)
(* say-all running, it has moved the cursor there or beyond: until an       *)
(* utterance fails, which takes the marks of those before it with it.       *)
CursorFollows == core.say.on /\ failed = 0 /\ core.told # Nowhere => ~Before(core.cursor, core.told)

(* The display is kept on exactly while a say-all that asked for it runs,   *)
(* whatever the setting is when it ends.                                    *)
DisplayHeld == core.display = (core.say.on /\ core.say.display_held)

(* No request is made of an outpost whose end Core has handled. *)
NothingAskedOfTheDead == ~core.focus => core.asks = <<>> /\ core.open = {}

(* A say-all reads the whole text once, from where it started, and the      *)
(* caret follows what is heard of it and nothing else.                      *)
ReadAsHeard ==
    /\ OneRead /\ TextWhole /\ NeverAhead /\ CursorFollows
    /\ DisplayHeld /\ NothingAskedOfTheDead

(* A say-all ends: at the document's end, at a failure, at a key, or with   *)
(* its outpost.  It never waits for marks that do not come, nor for a read  *)
(* it did not ask for.                                                      *)
SayAllEnds == Fairness => []<>~core.say.on
============================================================================
