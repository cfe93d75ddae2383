------------------------------- MODULE Mixer --------------------------------
(***************************************************************************)
(* The mixer, verbatim-audio, mixer/*.rs, with the synth thread that feeds *)
(* it (verbatim-speech, manager.rs): the synth thread writes utterances    *)
(* into the speech lane; the audio thread drains the lanes, reads the      *)
(* cancel generation and the pause, reports what has played and writes the *)
(* device; the delivery thread hands each report on.  The device and the   *)
(* synthesizer driver are external.  Positions, rings and room are counted *)
(* in frames; the samples of a frame, conversion between formats, gains,   *)
(* the device's clock and the underrun count are left out.                 *)
(***************************************************************************)
EXTENDS MixerStore

CONSTANTS Utterances,
          SpeechSounds,  \* the sounds within utterances
          Sounds,        \* the sounds played at once on the events source
          Length,        \* their lengths in frames
          Buffer,        \* frames the device queues
          StartFrames    \* frames that start a stopped device

VARIABLES scenario,  \* never changed: script, what the driver makes of each utterance, a
                     \* sequence of [is |-> "pcm", n], [is |-> "mark", n] and
                     \* [is |-> "sound", id, n]; fails, whether it may fail; lane, the
                     \* records a lane holds; ahead, the frames a source may hold
                     \* beyond the device's; the rest bounds what others do
          lanes,     \* records pushed and not yet taken, by source
          ctl,       \* the atomics: generation, paused, released, format, shutdown, and the room event
          wake,      \* the audio thread's wake event
          audio,     \* the audio thread
          ring,      \* the outbound ring
          delivery,  \* the delivery thread and its event
          device,    \* the device: frames queued, and what it asks for
          synth,     \* the synth thread
          jobs,      \* jobs handed on and not yet taken
          cut,       \* utterances whose job's token is cancelled
          inbox,     \* what the mixer and the synth thread post to the queue thread
          ear,       \* how far into each owner's frames the listener has heard
          tape,      \* how many of them the tap has been given
          told       \* what was reported of each utterance

mixerVars == <<scenario, lanes, ctl, wake, audio, ring, delivery, device, synth, jobs, cut, inbox, ear, tape, told>>

Sources == {"speech", "events"}
Script == scenario.script
Capacity == Buffer + scenario.ahead
LaneRoom == scenario.lane

ItemsOf(u, kind) == SelectSeq(Script[u], LAMBDA item : item.is = kind)
FramesIn(items) == FoldLeft(LAMBDA sum, item : IF item.is = "pcm" THEN sum + item.n ELSE sum, 0, items)
Owners == Utterances \cup SpeechSounds \cup Sounds
Reported == Utterances \cup Sounds

MixerInit ==
    /\ lanes = [source \in Sources |-> <<>>]
    /\ ctl = [generation |-> 0, paused |-> FALSE, released |-> 0, format |-> 1,
              shutdown |-> FALSE, room |-> FALSE]
    /\ wake = FALSE
    /\ audio = [pc |-> "take", sources |-> [source \in Sources |-> NewSource], format |-> 1,
                written |-> 0, played |-> 0, running |-> FALSE, tapped |-> 0, tapPending |-> <<>>]
    /\ ring = <<>>
    /\ delivery = [pc |-> "drain", took |-> 0, signal |-> FALSE]
    /\ device = [queue |-> <<>>, wants |-> "nothing"]
    /\ synth = [pc |-> "idle", u |-> 0, generation |-> 0, item |-> 1, at |-> 0, left |-> 0,
                format |-> 1, pushed |-> 0, back |-> "idle"]
    /\ jobs = <<>> /\ cut = {} /\ inbox = <<>>
    /\ ear = [o \in Owners |-> 0] /\ tape = [o \in Owners |-> 0]
    /\ told = [u \in Reported |-> [ending |-> "none", ends |-> 0, started |-> FALSE, marks |-> <<>>]]

(***************************************************************************)
(* The device, external.  A stopped device has let go of its queue.        *)
(***************************************************************************)
(* The frames of one mix position reach the listener, or the tap.          *)
Of(mix, o) == {f \in mix : f[1] = o}
Hears(heard, mix) == [o \in Owners |->
    IF Of(mix, o) = {} THEN heard[o] ELSE Most(heard[o], (CHOOSE f \in Of(mix, o) : TRUE)[2])]
Tapes(taped, mix) == [o \in Owners |-> taped[o] + Cardinality(Of(mix, o))]

DevicePlays ==
    /\ audio.running /\ device.queue # <<>>
    /\ device' = [device EXCEPT !.queue = Tail(@)]
    /\ ear' = Hears(ear, Head(device.queue))
    /\ UNCHANGED <<scenario, lanes, ctl, wake, audio, ring, delivery, synth, jobs, cut, inbox, tape, told>>

(* It fails at its next call, or asks to be reopened, as it is or in       *)
(* another format.                                                         *)
DeviceWants(what) ==
    /\ device.wants = "nothing" /\ audio.pc # "stopped"
    /\ device' = [device EXCEPT !.wants = what]
    /\ wake' = (wake \/ what # "fails")
    /\ UNCHANGED <<scenario, lanes, ctl, audio, ring, delivery, synth, jobs, cut, inbox, ear, tape, told>>

(***************************************************************************)
(* One pass of the audio thread, on its state a, the ring out and the      *)
(* device's queue, as pure operators.                                      *)
(***************************************************************************)
Current(a, format) == format = a.format

Admits(s, record, out) ==
    CASE record.is = "Register" -> AdmitsRegister(s)
      [] record.is = "Frames" -> AdmitsFrames(s, Len(record.frames))
      [] record.is \in {"Mark", "Finish"} -> AdmitsEvent(s)
      [] record.is \in {"Sound", "Play"} -> Len(out) < OUTBOUND /\ AdmitsVoice(s)
      [] record.is = "PlayToEnd" -> Len(out) < OUTBOUND /\ AdmitsVoice(s) /\ AdmitsRegister(s)
      [] OTHER -> Len(out) < OUTBOUND /\ AdmitsEvent(s)

(* What a pass carries along: the loop's state, the ring, the device's     *)
(* queue.                                                                  *)
Discard(p) ==
    [p EXCEPT !.a.running = FALSE, !.a.written = p.a.played, !.a.tapPending = <<>>,
              !.a.sources = [source \in Sources |-> Rewind(@[source], p.a.played)],
              !.queue = <<>>]

Apply(p, source, record) ==
    LET s == p.a.sources[source]
        Now(st) == [p EXCEPT !.a.sources[source] = st]
        Sounding(placed) == [p EXCEPT !.a.sources[source] = placed.s,
                                      !.out = IF placed.left THEN Append(@, Freed) ELSE @]
    IN  CASE record.is = "Register" -> Now(Register(s, record.u, record.generation))
          [] record.is = "Frames" -> Now(Frames(s, record.u, record.frames, Current(p.a, record.format)))
          [] record.is = "Mark" -> Now(Mark(s, record.u, record.mark))
          [] record.is = "Finish" -> Now(Finish(s, record.u))
          [] record.is \in {"Sound", "Play"} ->
                Sounding(Voice(s, record.u, record.voice, Current(p.a, record.format)))
          [] record.is = "PlayToEnd" ->
                Sounding(PlayToEnd(s, record.u, record.voice, Current(p.a, record.format)))
          [] OTHER -> \* a failure, which discards the device's queue first
                LET d == Discard(p)
                    st == d.a.sources[source]
                IN  [d EXCEPT !.a.sources[source] = Fail(st, record.u),
                              !.out = IF TrackedOf(st, record.u) = {} THEN Append(@, Freed) ELSE @]

(* Every record the source has room for, in the lane's order: the pass     *)
(* after it, and what is left of the lane.                                 *)
DrainLane(p, source, lane) ==
    FoldLeft(LAMBDA d, record :
                IF d.left = <<>> /\ Admits(d.p.a.sources[source], record, d.p.out)
                THEN [d EXCEPT !.p = Apply(@, source, record)]
                ELSE [d EXCEPT !.left = Append(@, record)],
             [p |-> p, left |-> <<>>], lane)

FeedTap(a) == SubSeq(a.tapPending, 1, Least(a.played - a.tapped, Len(a.tapPending)))

FireSources(p) ==
    LET Left(q, source, flushed) == [q EXCEPT !.a.sources[source] = flushed.s, !.out = flushed.ring]
        One(q, source) ==
            Left(q, source, FlushRetired(Fire(q.a.sources[source], q.out, q.a.played)))
    IN  One(One(p, "speech"), "events")

\* Mutant: a producer waiting for room is not woken.
PublishRoomQuietly(p) ==
    [p EXCEPT !.a.sources["speech"].releasedNow = FALSE, !.ctl.released = p.a.sources["speech"].released]

(* What is published of the speech source, whose frames alone are counted. *)
PublishRoom(p) ==
    LET s == p.a.sources["speech"]
    IN  IF s.releasedNow
        THEN [p EXCEPT !.a.sources["speech"].releasedNow = FALSE, !.ctl.released = s.released,
                       !.ctl.room = @ \/ Capacity - Held(s) >= Capacity \div 2]
        ELSE p

FramesToMix(a, queued) ==
    LET Ready(source) == Mixable(a.sources[source], a.written)
        frames == Least(Buffer - queued, Most(Ready("speech"), Ready("events")))
        stillWriting == \E source \in Sources : Ready(source) > 0 /\ WritingAny(a.sources[source])
    IN  IF ~a.running /\ frames < StartFrames /\ stillWriting THEN 0 ELSE frames

(* The frames mixed and written, or the device stopped once it has played  *)
(* everything.                                                             *)
Write(p, queued) ==
    LET Mixed(frames, mixed) ==
            LET mix == [k \in 1..frames |-> mixed["speech"].mix[k] \cup mixed["events"].mix[k]]
            IN  [p EXCEPT !.a.sources = [source \in Sources |-> mixed[source].s],
                          !.a.written = @ + frames, !.a.running = TRUE,
                          !.a.tapPending = @ \o mix, !.queue = @ \o mix]
        Writing(frames) ==
            IF frames > 0
            THEN Mixed(frames, [source \in Sources |-> MixInto(p.a.sources[source], frames, p.a.written)])
            ELSE IF p.a.running /\ queued = 0 THEN [p EXCEPT !.a.running = FALSE] ELSE p
    IN  Writing(FramesToMix(p.a, queued))

Pass == [a |-> audio, out |-> ring, queue |-> device.queue, ctl |-> ctl]

(* What the device says has played.                                        *)
Polled == [audio EXCEPT !.played = audio.written - Least(Len(device.queue), audio.written - audio.played)]

(***************************************************************************)
(* The audio thread's actions.                                             *)
(***************************************************************************)
(* It waits on the device: for a wake, and while playing for no more than  *)
(* a while.                                                                *)
Awake == wake \/ audio.running \/ device.wants = "reopen" \/ device.wants = "changes"

Signalled(out) == [delivery EXCEPT !.signal = @ \/ out # ring]

(* The device is opened again, after everything due has been reported; a   *)
(* device in another format fails every utterance not yet ended.           *)
Reopen(p, changes) ==
    LET Opened(q) ==
            IF changes
            THEN [q EXCEPT !.a.sources = [source \in Sources |-> EndAll(@[source], "Failed")],
                           !.a.format = @ + 1, !.ctl.format = q.a.format + 1]
            ELSE q
        RoomTold(q) ==
            [q EXCEPT !.a.sources = [source \in Sources |-> [@[source] EXCEPT !.releasedNow = FALSE]],
                      !.ctl.released = q.a.sources["speech"].released, !.ctl.room = TRUE]
    IN  RoomTold(FireSources(Opened(FireSources(Discard(p)))))

Enters(p, pc) ==
    /\ audio' = [p.a EXCEPT !.pc = pc]
    /\ ring' = p.out /\ ctl' = p.ctl
    /\ device' = [device EXCEPT !.queue = p.queue]
    /\ delivery' = Signalled(p.out)

Recovers(p) ==
    LET Anew(r) ==
            /\ audio' = [r.a EXCEPT !.pc = "take"]
            /\ ring' = r.out /\ ctl' = r.ctl
            /\ device' = [queue |-> <<>>, wants |-> "nothing"]
            /\ delivery' = Signalled(r.out)
            /\ UNCHANGED <<lanes, tape>>
    IN  Anew(Reopen(p, device.wants = "changes"))

(* A device that fails the poll is reopened from what the last poll said   *)
(* had played, one that asks for it from what this one does.               *)
PassRecovers ==
    /\ audio.pc = "take" /\ Awake /\ ~ctl.shutdown
    /\ device.wants # "nothing"
    /\ wake' = TRUE    \* the next pass follows at once, with no wait before it
    /\ Recovers([Pass EXCEPT !.a = IF device.wants = "fails" THEN audio ELSE Polled])
    /\ UNCHANGED <<scenario, synth, jobs, cut, inbox, ear, told>>

PassTakes ==
    /\ audio.pc = "take" /\ Awake /\ ~ctl.shutdown
    /\ device.wants = "nothing"
    /\ wake' = FALSE
    /\ LET fed == FeedTap(Polled)
           Fed == [Pass EXCEPT !.a = [Polled EXCEPT !.tapPending = SubSeq(@, Len(fed) + 1, Len(@)),
                                                    !.tapped = Polled.played]]
           HalfFree(left) == Len(left) < Len(lanes["speech"]) /\ Len(left) <= LaneRoom \div 2
           Drained(left, events) ==
               /\ lanes' = [source \in Sources |-> IF source = "speech" THEN left ELSE events.left]
               /\ Enters([events.p EXCEPT !.ctl.room = @ \/ HalfFree(left)], "controls")
           Drain(speech) == Drained(speech.left, DrainLane(speech.p, "events", lanes["events"]))
       IN  /\ tape' = FoldLeft(Tapes, tape, fed)
           /\ Drain(DrainLane(Fed, "speech", lanes["speech"]))
    /\ UNCHANGED <<scenario, synth, jobs, cut, inbox, ear, told>>

(* The cancel generation is read, then, when anything changed, the pause.  *)
PassReadsGeneration ==
    /\ audio.pc = "controls"
    /\ LET s == audio.sources["speech"]
           d == Discard(Pass)
           changed == ctl.generation > s.generation \/ ctl.paused # s.paused
           r == IF ctl.generation > s.generation
                THEN [d EXCEPT !.a.sources["speech"] =
                         [CancelOlder(@, ctl.generation) EXCEPT !.generation = ctl.generation]]
                ELSE d
       IN  IF changed THEN Enters(r, "pause") ELSE Enters(Pass, "fire")
    /\ UNCHANGED <<scenario, lanes, wake, synth, jobs, cut, inbox, ear, tape, told>>

PassPlaysOn ==
    /\ audio.pc \in {"pause", "fire"}
    /\ LET p == IF audio.pc = "pause" THEN [Pass EXCEPT !.a.sources["speech"].paused = ctl.paused] ELSE Pass
           Written(fired, written) ==
               IF device.wants = "fails" /\ written.queue # fired.queue
               THEN /\ Recovers(written)
                    /\ wake' = TRUE
               ELSE /\ Enters(written, "take")
                    /\ UNCHANGED <<lanes, wake, tape>>
           Fired(fired) == Written(fired, Write(fired, audio.written - audio.played))
       IN  Fired(PublishRoom(FireSources(p)))
    /\ UNCHANGED <<scenario, synth, jobs, cut, inbox, ear, told>>

(* The mixer is dropped: everything still registered ends cancelled, and   *)
(* the thread stays until every report has left.                           *)
PassShutsDown ==
    /\ audio.pc = "take" /\ Awake /\ ctl.shutdown
    /\ Enters(FireSources([Pass EXCEPT !.queue = <<>>, !.a.running = FALSE,
                   !.a.sources = [source \in Sources |-> EndAll(@[source], "Cancelled")]]), "leaving")
    /\ wake' = FALSE
    /\ UNCHANGED <<scenario, lanes, synth, jobs, cut, inbox, ear, tape, told>>

AllLeft(a) == \A source \in Sources :
    a.sources[source].events = <<>> /\ \A i \in DOMAIN a.sources[source].voices :
                                           a.sources[source].voices[i].state # "Retired"
PassLeaves ==
    /\ audio.pc = "leaving"
    /\ IF AllLeft(audio)
       THEN /\ audio' = [audio EXCEPT !.pc = "stopped"]
            /\ ctl' = [ctl EXCEPT !.room = TRUE]
            /\ delivery' = [delivery EXCEPT !.signal = TRUE]
            /\ UNCHANGED <<wake, ring, device>>
       ELSE /\ wake /\ wake' = FALSE
            /\ Enters(FireSources(Pass), "leaving")
    /\ UNCHANGED <<scenario, lanes, synth, jobs, cut, inbox, ear, tape, told>>

AudioNext == PassRecovers \/ PassTakes \/ PassReadsGeneration \/ PassPlaysOn \/ PassShutsDown \/ PassLeaves

(***************************************************************************)
(* The delivery thread.                                                    *)
(***************************************************************************)
Tell(t, report) ==
    CASE report.is = "Start" -> [t EXCEPT ![report.u].started = TRUE]
      [] report.is = "Mark" -> [t EXCEPT ![report.u].marks = Append(@, report.what)]
      [] report.is = "Ended" -> [t EXCEPT ![report.u].ending = report.what, ![report.u].ends = @ + 1]
      [] OTHER -> t

(* It wakes to its event, takes every record, and wakes the audio thread   *)
(* after a drain that took half the ring.                                  *)
DeliveryTakes ==
    /\ delivery.pc = "drain" \/ (delivery.pc = "wait" /\ delivery.signal)
    /\ ring # <<>>
    /\ ring' = Tail(ring)
    /\ delivery' = [pc |-> "drain", took |-> delivery.took + 1,
                    signal |-> delivery.signal /\ delivery.pc = "drain"]
    /\ told' = Tell(told, Head(ring))
    /\ inbox' = IF Head(ring).is = "Ended" /\ Head(ring).u \in Utterances
                THEN Append(inbox, [is |-> "Ended", u |-> Head(ring).u, what |-> Head(ring).what]) ELSE inbox
    /\ UNCHANGED <<scenario, lanes, ctl, wake, audio, device, synth, jobs, cut, ear, tape>>

DeliveryRests ==
    /\ delivery.pc = "drain" \/ (delivery.pc = "wait" /\ delivery.signal)
    /\ ring = <<>>
    /\ wake' = (wake \/ delivery.took >= OUTBOUND \div 2)
    /\ delivery' = [pc |-> IF audio.pc = "stopped" THEN "ended" ELSE "wait", took |-> 0,
                    signal |-> delivery.signal /\ delivery.pc = "drain"]
    /\ UNCHANGED <<scenario, lanes, ctl, audio, ring, device, synth, jobs, cut, inbox, ear, tape, told>>

DeliveryNext == DeliveryTakes \/ DeliveryRests

(***************************************************************************)
(* The synth thread: one job at a time, through the speech lane.           *)
(***************************************************************************)
SynthUnchanged == UNCHANGED <<scenario, audio, ring, delivery, device, ear, tape, told>>
Items == Script[synth.u]
At(pc) == [synth EXCEPT !.pc = pc]

(* A record pushed, waiting for the room event while the lane is full; a   *)
(* stopped mixer takes nothing.                                            *)
PushWaiting(record, after) ==
    /\ IF ctl.shutdown
       THEN /\ synth' = after
            /\ UNCHANGED <<lanes, wake>>
       ELSE IF Len(lanes["speech"]) = LaneRoom
       THEN /\ synth' = [synth EXCEPT !.pc = "room", !.back = synth.pc]
            /\ UNCHANGED <<lanes, wake>>
       ELSE /\ lanes' = [lanes EXCEPT !["speech"] = Append(@, record)]
            /\ wake' = TRUE
            /\ synth' = after
    /\ UNCHANGED <<ctl, cut, inbox>> /\ SynthUnchanged

SynthHasRoom ==
    /\ synth.pc = "room" /\ ctl.room
    /\ synth' = At(synth.back)
    /\ ctl' = [ctl EXCEPT !.room = FALSE]
    /\ UNCHANGED <<lanes, wake, jobs, cut, inbox>> /\ SynthUnchanged

(* The next job is registered, a cancelled one too, under the generation   *)
(* it was handed on under.                                                 *)
SynthRegisters ==
    /\ synth.pc = "idle" /\ jobs # <<>>
    /\ PushWaiting([is |-> "Register", u |-> Head(jobs).u, generation |-> Head(jobs).generation],
                   [synth EXCEPT !.pc = "begin", !.u = Head(jobs).u, !.generation = Head(jobs).generation,
                                 !.item = 1, !.at = 0, !.left = 0])
    /\ jobs' = IF synth'.pc = "room" THEN jobs ELSE Tail(jobs)

(* Nothing is synthesized of a job cancelled before it started.            *)
SynthBegins ==
    /\ synth.pc = "begin"
    /\ synth' = At(IF synth.u \in cut THEN "report" ELSE "item")
    /\ UNCHANGED <<lanes, ctl, wake, jobs, cut, inbox>> /\ SynthUnchanged

Item == Items[synth.item]
More == synth.item <= Len(Items)
NextItem == [synth EXCEPT !.pc = "item", !.item = @ + 1]

(* The driver's next audio: converted for the format of now.               *)
SynthPcm ==
    /\ synth.pc = "item" /\ More /\ Item.is = "pcm"
    /\ synth' = IF synth.u \in cut THEN At("finish")
                ELSE [synth EXCEPT !.pc = "append", !.left = Item.n, !.format = ctl.format]
    /\ UNCHANGED <<lanes, ctl, wake, jobs, cut, inbox>> /\ SynthUnchanged

SynthMark ==
    /\ synth.pc = "item" /\ More /\ Item.is = "mark"
    /\ PushWaiting([is |-> "Mark", u |-> synth.u, mark |-> Item.n], NextItem)
    /\ UNCHANGED jobs

SynthSound ==
    /\ synth.pc = "item" /\ More /\ Item.is = "sound"
    /\ PushWaiting([is |-> "Sound", u |-> synth.u, voice |-> [id |-> Item.id, len |-> Item.n],
                    format |-> ctl.format], NextItem)
    /\ UNCHANGED jobs

DriverFailure ==
    /\ scenario.fails /\ synth.pc = "item"
    /\ synth' = At("fail")
    /\ UNCHANGED <<lanes, ctl, wake, jobs, cut, inbox>> /\ SynthUnchanged

Accepts == ctl.generation <= synth.generation /\ synth.format = ctl.format /\ ~ctl.shutdown

(* A refused write stops the driver, and the utterance is finished.        *)
SynthAppends ==
    /\ synth.pc = "append"
    /\ synth' = IF ~Accepts THEN At("finish")
                ELSE IF synth.left = 0 THEN NextItem
                ELSE At("push")
    /\ UNCHANGED <<lanes, ctl, wake, jobs, cut, inbox>> /\ SynthUnchanged

SynthPushes ==
    /\ synth.pc = "push"
    /\ LET room == Most(Capacity - (synth.pushed - ctl.released), 0)
           wanted == Most(Least(synth.left, Capacity \div 2), 1)
           take == Least(room, synth.left)
           frames == [k \in 1..take |-> <<synth.u, synth.at + k>>]
       IN  IF room < wanted \/ Len(lanes["speech"]) = LaneRoom
           THEN /\ synth' = [synth EXCEPT !.pc = "room", !.back = "append"]
                /\ UNCHANGED <<lanes, wake>>
           ELSE IF ctl.shutdown
           THEN /\ synth' = At("finish")
                /\ UNCHANGED <<lanes, wake>>
           ELSE /\ lanes' = [lanes EXCEPT !["speech"] = Append(@,
                        [is |-> "Frames", u |-> synth.u, frames |-> frames, format |-> synth.format])]
                /\ wake' = TRUE
                /\ synth' = [synth EXCEPT !.pc = "append", !.at = @ + take, !.left = @ - take,
                                          !.pushed = @ + take]
    /\ UNCHANGED <<ctl, jobs, cut, inbox>> /\ SynthUnchanged

SynthFinishes ==
    /\ synth.pc = "finish" \/ (synth.pc = "item" /\ ~More)
    /\ PushWaiting([is |-> "Finish", u |-> synth.u], At("report"))
    /\ UNCHANGED jobs

SynthFails ==
    /\ synth.pc = "fail"
    /\ PushWaiting([is |-> "Fail", u |-> synth.u], At("report"))
    /\ UNCHANGED jobs

SynthReports ==
    /\ synth.pc = "report"
    /\ synth' = At("idle")
    /\ inbox' = Append(inbox, [is |-> "SynthFinished", u |-> 0, what |-> 0])
    /\ UNCHANGED <<lanes, ctl, wake, jobs, cut>> /\ SynthUnchanged

SynthNext ==
    \/ SynthHasRoom \/ SynthRegisters \/ SynthBegins \/ SynthPcm \/ SynthMark
    \/ SynthSound \/ DriverFailure \/ SynthAppends \/ SynthPushes \/ SynthFinishes
    \/ SynthFails \/ SynthReports

(***************************************************************************)
(* What other threads do to the mixer.                                     *)
(***************************************************************************)
(* A sound on the events lane, refused when the lane is full or the mixer  *)
(* stopped; played to its end it is an utterance of its own.               *)
Play(sound, toEnd) ==
    /\ ~ctl.shutdown /\ Len(lanes["events"]) < LaneRoom
    /\ lanes' = [lanes EXCEPT !["events"] = Append(@,
          [is |-> IF toEnd THEN "PlayToEnd" ELSE "Play", u |-> IF toEnd THEN sound ELSE 0,
           voice |-> [id |-> sound, len |-> Length[sound]], format |-> ctl.format])]
    /\ wake' = TRUE
    /\ UNCHANGED <<scenario, ctl, audio, ring, delivery, device, synth, jobs, cut, inbox, ear, tape, told>>

MixerDropped ==
    /\ ~ctl.shutdown
    /\ ctl' = [ctl EXCEPT !.shutdown = TRUE]
    /\ wake' = TRUE
    /\ UNCHANGED <<scenario, lanes, audio, ring, delivery, device, synth, jobs, cut, inbox, ear, tape, told>>

(***************************************************************************)
(* Properties.                                                             *)
(***************************************************************************)
MarksOf(u) == ItemsOf(u, "mark")
(* The frames of u before its k-th mark.                                   *)
FramesBefore(u, k) ==
    LET place == CHOOSE i \in DOMAIN Script[u] :
                    Script[u][i].is = "mark" /\ Len(SelectSeq(SubSeq(Script[u], 1, i), LAMBDA item : item.is = "mark")) = k
    IN  FramesIn(SubSeq(Script[u], 1, place))

(* An utterance is reported completed only once the listener has heard its *)
(* last frame (SourceState::finish and fire), as long as the device keeps  *)
(* its format: a write that raced a change of it is finished, not failed.  *)
CompletedWasHeard ==
    \A u \in Reported : told[u].ending = "Completed" /\ ctl.format = 1 =>
        ear[u] = IF u \in Utterances THEN FramesIn(Script[u]) ELSE Length[u]

(* The marks of an utterance are reported in its order, none twice and     *)
(* none before every frame in front of it was heard, whatever was discarded*)
(* and mixed again meanwhile (Kind::Mark, rewind, cancel_older).           *)
MarksFollowTheAudio ==
    \A u \in DOMAIN Script :
        /\ Len(told[u].marks) <= Len(MarksOf(u))
        /\ \A k \in DOMAIN told[u].marks :
              told[u].marks[k] = MarksOf(u)[k].n /\ ear[u] >= FramesBefore(u, k)

(* A source's data, positions and segments agree: the segments cover the   *)
(* frames mixed and not played, in order, without a gap (mix_into, rewind, *)
(* truncate, release_frames and cancel_older each move several of them).   *)
StoreAgrees ==
    \A source \in Sources :
        LET s == audio.sources[source]
            g == s.segments
        IN  /\ Len(s.data) = Held(s)
            /\ s.dataStart <= s.mixedEnd /\ s.mixedEnd <= s.writeEnd
            /\ g = <<>> => s.mixedEnd = s.dataStart
            /\ g # <<>> => g[1].source = s.dataStart /\ Last(g).source + Last(g).len = s.mixedEnd
            /\ \A i \in 1..(Len(g) - 1) : /\ g[i].source + g[i].len = g[i + 1].source
                                         /\ g[i].mix + g[i].len <= g[i + 1].mix
            /\ g # <<>> => Last(g).mix + Last(g).len <= audio.written

(* The frames the synth thread counts against its room are the ones the    *)
(* lane and the source hold: none is let go of twice, none forgotten,      *)
(* however it left (played, cut by a cancel or a failure, refused), so the *)
(* producer neither overruns the store nor waits for room that is there.   *)
RoomIsExact ==
    LET s == audio.sources["speech"]
        waiting == FoldLeft(LAMBDA sum, r : IF r.is = "Frames" THEN sum + Len(r.frames) ELSE sum, 0, lanes["speech"])
    IN  synth.pushed = s.released + Held(s) + waiting /\ synth.pushed - s.released <= Capacity

(* The store never holds more than it reserved before the audio thread     *)
(* started: a cancel's endings included (EVENTS + TRACKED + 1).            *)
StoreNeverGrows ==
    \A source \in Sources :
        LET s == audio.sources[source]
        IN  /\ Len(s.events) <= EVENTS + TRACKED + 1 /\ Len(s.tracked) <= TRACKED
            /\ Len(s.voices) <= VOICES /\ Len(s.segments) <= SEGMENTS /\ Len(s.data) <= SAMPLES

(* Every utterance the store tracks has something that will end it: the    *)
(* audio still being written, its pending end, or the sound it ends with   *)
(* ("Every utterance a lane registers ends exactly once").  Left out: a    *)
(* sound played to its end, heard whole as a cancel of speech discards the *)
(* device's queue, which rewind retires without ending it.                 *)
TrackedWillEnd ==
    \A source \in Sources :
        LET s == audio.sources[source]
        IN  \A i \in DOMAIN s.tracked :
              LET t == s.tracked[i]
              IN  \/ t.writing \/ (t.u \in Sounds /\ ctl.generation > 0)
                  \/ \E e \in DOMAIN s.events : s.events[e].u = t.u /\ s.events[e].kind = "End"
                  \/ \E v \in DOMAIN s.voices : s.voices[v].u = t.u /\ s.voices[v].ends
                                                /\ s.voices[v].state # "Retired"

(* An utterance's ending is the last thing reported of it, and nothing of  *)
(* it is heard afterwards.                                                 *)
EndingIsLast ==
    [][\A u \in Reported : told[u].ending # "none" => told'[u] = told[u] /\ ear'[u] = ear[u]]_mixerVars

(* The listener hears every owner's frames from the first, skipping none:  *)
(* what a discard took back from the device is mixed again from where it   *)
(* was heard, for the source that was cut and for the others.              *)
NothingSkipped == [][\A o \in Owners : ear'[o] <= ear[o] + 1]_mixerVars
=============================================================================
