------------------------------- MODULE Speech -------------------------------
(***************************************************************************)
(* The speech queue thread, verbatim-speech, manager.rs: its inbox, the    *)
(* lanes waiting, what was handed on, the pause, the focus and the key     *)
(* fence.  The synth thread and the mixer behind it are the promise of     *)
(* module Playback.  An utterance is its priority, the key that caused it, *)
(* the focus it is about and its marks.                                    *)
(***************************************************************************)
EXTENDS Playback, Sequences, FiniteSets, SequencesExt

CONSTANTS Priority,    \* of each utterance: "Interrupt", "Next" or "Queued"
          Key,         \* the key press that caused it, 0 for none
          About,       \* the focus it is only worth hearing on, "any" for none
          Foci,        \* where the focus goes
          Keys         \* the key presses that cancel speech, 0 for a cancel of no key

VARIABLES inbox,       \* what was posted to the queue thread, in order
          q,           \* the queue thread
          ended,       \* endings the queue thread reports itself, by utterance
          marksCut,    \* marks reported cut or failed, by utterance
          posted       \* the utterances spoken so far

speechVars == <<generation, under, told, inbox, q, ended, marksCut, posted>>

Event(is, what) == [is |-> is, what |-> what]

SpeechInit ==
    /\ PlaybackInit
    /\ inbox = <<>>
    /\ q = [next |-> <<>>, queued |-> <<>>, inFlight |-> 0, handedOn |-> {}, paused |-> FALSE,
            focus |-> "none", through |-> 0, marked |-> {}, running |-> TRUE,
            held |-> {}]      \* what had been taken when the pause began
    /\ ended = [u \in Utterances |-> 0]
    /\ marksCut = [u \in Utterances |-> 0]
    /\ posted = {}

(***************************************************************************)
(* What the queue thread does, as operators on a record of all it writes.  *)
(***************************************************************************)
Now == [q |-> q, generation |-> generation, under |-> under, ended |-> ended, cut |-> marksCut]

Holds(u, focus) == About[u] = "any" \/ focus = "none" \/ About[u] = focus

HasMarks(u) == Marks[u] > 0

(* Utterances never handed on end cancelled, their marks with them.        *)
EndWaiting(st, us) ==
    [st EXCEPT !.ended = [u \in Utterances |-> IF u \in us THEN @[u] + 1 ELSE @[u]],
               !.cut = [u \in Utterances |-> IF u \in us /\ HasMarks(u) THEN @[u] + 1 ELSE @[u]]]

\* Mutant: what was handed on is still taken for playing.
StopKeepsHandedOn(st) == [st EXCEPT !.generation = @ + 1, !.q.paused = FALSE]

StopHandedOn(st) == [st EXCEPT !.generation = @ + 1, !.q.handedOn = {}, !.q.paused = FALSE]

\* Mutant: what waits gets no ending.
CancelForgetsWaiting(st) == StopHandedOn([st EXCEPT !.q.next = <<>>, !.q.queued = <<>>])

CancelEverything(st) ==
    StopHandedOn(EndWaiting([st EXCEPT !.q.next = <<>>, !.q.queued = <<>>],
                            ToSet(st.q.next) \cup ToSet(st.q.queued)))

(* The next utterance still worth hearing is handed on when the synth      *)
(* thread is idle; those before it whose focus has moved on end here.      *)
Pump(st) ==
    LET a == st.q.next
        b == st.q.queued
        line == a \o b
        good == {i \in DOMAIN line : Holds(line[i], st.q.focus)}
        k == IF good = {} THEN Len(line) + 1 ELSE CHOOSE i \in good : \A j \in good : i <= j
        rest == EndWaiting(
                    [st EXCEPT !.q.next = SubSeq(a, k + 1, Len(a)),
                               !.q.queued = IF k > Len(a) THEN SubSeq(b, k - Len(a) + 1, Len(b)) ELSE b],
                    ToSet(SubSeq(line, 1, k - 1)))
        u == line[k]
    IN  IF st.q.inFlight # 0 THEN st
        ELSE IF k > Len(line) THEN rest
        ELSE [rest EXCEPT !.q.handedOn = @ \cup {u}, !.q.inFlight = u,
                          !.q.marked = IF HasMarks(u) THEN @ \cup {u} ELSE @,
                          !.under[u] = rest.generation]

\* Mutant: the next utterance is not handed on.
SynthDoneOnly(st) == [st EXCEPT !.q.inFlight = 0]

SynthDone(st) == Pump([st EXCEPT !.q.inFlight = 0])

(* Speech arriving while paused cancels what was paused first.             *)
Speak(st, u) ==
    LET s1 == IF st.q.paused THEN CancelEverything(st) ELSE st
        s2 == IF Priority[u] = "Interrupt" THEN CancelEverything(s1) ELSE s1
    IN  Pump(IF Priority[u] = "Queued" THEN [s2 EXCEPT !.q.queued = Append(@, u)]
             ELSE [s2 EXCEPT !.q.next = Append(@, u)])

Fenced(st, u) == Key[u] # 0 /\ Key[u] < st.q.through

Taken(st) == ToSet(st.q.next) \cup ToSet(st.q.queued)
             \cup {u \in Utterances : st.under[u] >= 0 \/ st.ended[u] > 0}

Cancel(st, key) == CancelEverything([st EXCEPT !.q.through = IF key > @ THEN key ELSE @])

TogglePause(st) ==
    [st EXCEPT !.q.paused = ~@, !.q.held = IF st.q.paused THEN {} ELSE Taken(st)]

DropExpired(st, focus) ==
    LET moved == [st EXCEPT !.q.focus = focus]
    IN  IF \E u \in st.q.handedOn : ~Holds(u, focus)
        THEN StopHandedOn(moved) ELSE moved

(* The mixer's ending of an utterance; the marks of one not completed are  *)
(* reported cut, or failed.                                                *)
EndedByMixer(st, u, ending) ==
    [st EXCEPT !.q.handedOn = @ \ {u},
               !.q.marked = @ \ {u},
               !.cut[u] = IF u \in st.q.marked /\ ending # "Completed" THEN @ + 1 ELSE @]

Handle(st, event) ==
    CASE event.is = "Speak" -> IF Fenced(st, event.what) THEN EndWaiting(st, {event.what})
                               ELSE Speak(st, event.what)
      [] event.is = "SynthFinished" -> SynthDone(st)
      [] event.is = "Cancel" -> Cancel(st, event.what)
      [] event.is = "Switch" -> CancelEverything(st)
      [] event.is = "TogglePause" -> TogglePause(st)
      [] event.is = "DropExpired" -> DropExpired(st, event.what)
      [] event.is = "Ended" -> EndedByMixer(st, event.what[1], event.what[2])
      [] OTHER -> [CancelEverything(st) EXCEPT !.q.running = FALSE]

(* The queue thread takes the next event.                                  *)
Run ==
    /\ q.running /\ inbox # <<>>
    /\ LET after == Handle(Now, Head(inbox))
       IN  /\ q' = after.q /\ generation' = after.generation /\ under' = after.under
           /\ ended' = after.ended /\ marksCut' = after.cut
    /\ inbox' = Tail(inbox)
    /\ UNCHANGED <<told, posted>>

(***************************************************************************)
(* What the others post.                                                   *)
(***************************************************************************)
Post(event) ==
    /\ inbox' = Append(inbox, event)
    /\ UNCHANGED <<generation, under, told, q, ended, marksCut>>

Speaks(u) ==
    /\ u \notin posted
    /\ posted' = posted \cup {u}
    /\ Post(Event("Speak", u))

(* Cancels, pauses, focus changes, a switch of synthesizer, the drop.      *)
Requests ==
    {Event("Cancel", key) : key \in Keys} \cup {Event("DropExpired", focus) : focus \in Foci}
    \cup {Event("TogglePause", 0), Event("Switch", 0), Event("Shutdown", 0)}

Asks(event) == Post(event) /\ UNCHANGED posted

(* The synth thread is done with its job, whatever became of it.           *)
SynthFinishes ==
    /\ q.inFlight # 0
    /\ \A i \in DOMAIN inbox : inbox[i].is # "SynthFinished"
    /\ Post(Event("SynthFinished", 0)) /\ UNCHANGED posted

(* The mixer reports of what it was handed, the ending to the inbox too.   *)
MixerReports ==
    \E u \in Utterances :
        /\ \/ ReportMark(u) /\ UNCHANGED inbox
           \/ \E ending \in Endings :
                /\ ReportEnd(u, ending)
                /\ inbox' = Append(inbox, Event("Ended", <<u, ending>>))
        /\ UNCHANGED <<q, ended, marksCut, posted>>

SpeechNext ==
    \/ Run \/ SynthFinishes \/ MixerReports
    \/ \E u \in Utterances : Speaks(u)
    \/ \E event \in Requests : Asks(event)

SpeechSpec == SpeechInit /\ [][SpeechNext]_speechVars

(***************************************************************************)
(* Properties.                                                             *)
(***************************************************************************)
EndsOf(u) == told[u].ends + ended[u]
Line == q.next \o q.queued
Waiting == ToSet(q.next) \cup ToSet(q.queued)
InInbox(u) == \E i \in DOMAIN inbox : inbox[i].is = "Speak" /\ inbox[i].what = u

(* Every utterance spoken is in exactly one place: the inbox, a lane, the  *)
(* mixer's hands, or reported ended by the queue thread; it is in line     *)
(* once and never ended twice (fenced_off, end_waiting, pump, cancel_everything and the mixer   *)
(* each end utterances).                                                   *)
NoneLostOrEndedTwice ==
    /\ \A i, j \in DOMAIN Line : Line[i] = Line[j] => i = j
    /\ \A u \in posted :
        /\ EndsOf(u) <= 1
        /\ Cardinality({p \in 1..4 : CASE p = 1 -> InInbox(u)
                                       [] p = 2 -> u \in Waiting
                                       [] p = 3 -> under[u] >= 0
                                       [] OTHER -> ended[u] = 1}) = 1

(* Speech an earlier key press caused is not heard after a later one's     *)
(* cancel, whichever of the two is posted first: nothing of it waits, and  *)
(* nothing of it was handed on since (the key fence, cancelled_through).   *)
FenceHolds ==
    \A u \in Utterances : Key[u] # 0 /\ Key[u] < q.through =>
        u \notin Waiting /\ ~(Playing(u) /\ under[u] = generation)

(* What is handed on and not cut is worth hearing where the focus is.      *)
HandedOnHolds == \A u \in q.handedOn : Holds(u, q.focus)

(* A pause holds only what was there when it began: speech that comes      *)
(* later ends the pause and is heard.                                      *)
PauseHoldsOnlyOlder ==
    q.paused => Waiting \cup {u \in Utterances : Playing(u) /\ under[u] = generation} \subseteq q.held

(* The marks of an utterance are reported cut at most once, and only of    *)
(* one that did not complete; of one the queue thread ended itself, with   *)
(* the ending (say all waits for it).                                      *)
MarksCutOnce ==
    \A u \in Utterances :
        /\ marksCut[u] <= 1
        /\ marksCut[u] = 1 => ended[u] = 1 \/ told[u].ending \in {"Cancelled", "Failed"}
        /\ ended[u] = 1 /\ HasMarks(u) => marksCut[u] = 1

(* A focus change stops what was handed on only for an utterance that has  *)
(* expired and that no earlier cancel has already cut: speech handed on    *)
(* since is not stopped for one cut before it (stop_handed_on's clear).    *)
StopsOnlyForTheExpired ==
    [][inbox # <<>> /\ inbox' = Tail(inbox) /\ Head(inbox).is = "DropExpired" /\ generation' > generation
        => \E u \in Utterances : under[u] = generation /\ ~Holds(u, Head(inbox).what)]_speechVars

(* Every utterance spoken is accounted for, and so are its marks.          *)
EndedOnce == NoneLostOrEndedTwice /\ MarksCutOnce

(* Speech is heard when it is due and worth hearing, and only then: across *)
(* a key's cancel, a focus change and a pause, in whatever order they and  *)
(* the speech come to the queue thread.                                    *)
HeardWhenDue ==
    [](FenceHolds /\ HandedOnHolds /\ PauseHoldsOnlyOlder) /\ StopsOnlyForTheExpired

(* The threads go on.  The mixer keeps its promise: what plays ends, once  *)
(* it is not held by a pause.                                              *)
MixerEnds(u) == ~(q.paused /\ under[u] = generation) /\ Playing(u)
SynthAtWork == q.inFlight # 0 /\ \A i \in DOMAIN inbox : inbox[i].is # "SynthFinished"
Fairness ==
    /\ []<>~(q.running /\ inbox # <<>>) \/ []<><<Run>>_speechVars
    /\ []<>~SynthAtWork \/ []<><<SynthFinishes>>_speechVars
    /\ []<>~(\E u \in Utterances : MixerEnds(u)) \/ []<><<MixerReports>>_speechVars

(* Every utterance spoken ends, unless speech stays paused.                *)
EveryUtteranceEnds ==
    Fairness => <>[]q.paused \/ []<>(\A u \in posted : EndsOf(u) = 1)
=============================================================================
