------------------------------ MODULE MCMixer -------------------------------
(***************************************************************************)
(* The mixer under a speech queue thread reduced to what it does to the    *)
(* mixer: it hands on one job at a time, and cancels and pauses whenever   *)
(* it likes, a bounded number of times (verbatim-speech, manager.rs, pump, *)
(* stop_handed_on, TogglePause; Speech.tla has the whole of it).           *)
(***************************************************************************)
EXTENDS Mixer

CONSTANTS Scenarios   \* see Mixer; cancels, pauses: how many; asks: what the device asks
                      \* for, once; plays, toEnd: the sounds played, and to their end;
                      \* drops: the mixer may be dropped

VARIABLES q,     \* the queue thread: the next utterance, the job in flight, the generation
                 \* each was handed on under, and where it is
          asked  \* whether the device has asked

vars == <<mixerVars, q, asked>>

Pcm(n) == [is |-> "pcm", n |-> n]
Mark1 == [is |-> "mark", n |-> 1]
Sound(id, n) == [is |-> "sound", id |-> id, n |-> n]
MCMarks == <<1, 0>>        \* the marks of each script's utterances
MCLength == (31 :> 2) @@ (32 :> 1)

Quiet(script) ==
    [script |-> script, fails |-> FALSE, lane |-> 2, ahead |-> 1, cancels |-> 0, pauses |-> 0,
     asks |-> {}, plays |-> {}, toEnd |-> {}, drops |-> FALSE]

Short == <<<<Pcm(2), Mark1>>, <<Pcm(1)>>>>

(* A cancel; a driver that fails and a device that fails or is reopened; a *)
(* device in another format; a pause, a cancel and a reopened device; a    *)
(* sound in an utterance, cut; more sounds than there are voices; one      *)
(* played to its end; the mixer dropped, with room for one record only.    *)
MCScenarios ==
    {[Quiet(<<<<Pcm(2), Mark1>>, <<>>>>) EXCEPT !.cancels = 1],
     [Quiet(Short) EXCEPT !.fails = TRUE],
     [Quiet(<<<<Pcm(2), Mark1>>>>) EXCEPT !.fails = TRUE, !.asks = {"fails", "reopen"}],
     [Quiet(<<<<Pcm(2), Mark1>>>>) EXCEPT !.asks = {"changes"}],
     [Quiet(<<<<Pcm(3), Mark1>>>>) EXCEPT !.pauses = 1],
     [Quiet(<<<<Pcm(1), Sound(21, 2), Mark1>>>>) EXCEPT !.cancels = 1],
     [Quiet(<<<<Mark1>>>>) EXCEPT !.plays = {31, 32}],
     [Quiet(<<<<Mark1>>>>) EXCEPT !.cancels = 1, !.plays = {31}, !.toEnd = {31}],
     [Quiet(<<<<Pcm(3), Mark1>>>>) EXCEPT !.lane = 1, !.ahead = 0, !.drops = TRUE]}

Init ==
    /\ scenario \in Scenarios
    /\ MixerInit
    /\ q = [pc |-> "idle", next |-> 1, inFlight |-> 0, under |-> [u \in Utterances |-> -1],
            cancels |-> 0, pauses |-> 0, played |-> {}]
    /\ asked = FALSE

Raised == ctl.generation + IF ctl.shutdown THEN 1 ELSE 0   \* a shutdown cancels too

(* The next job is handed on when the synth thread is done with the last.  *)
HandsOn ==
    /\ q.pc = "idle" /\ q.next \in DOMAIN Script
    /\ q.inFlight # 0 => \E i \in DOMAIN inbox : inbox[i].is = "SynthFinished"
    /\ inbox' = <<>>
    /\ jobs' = Append(jobs, [u |-> q.next, generation |-> ctl.generation])
    /\ q' = [q EXCEPT !.next = @ + 1, !.inFlight = q.next, !.under[q.next] = Raised]
    /\ UNCHANGED <<scenario, lanes, ctl, wake, audio, ring, delivery, device, synth, cut, ear, tape, told, asked>>

(* The generation first, then the job's token.                             *)
Cancels ==
    /\ q.pc = "idle" /\ q.cancels < scenario.cancels /\ q.next > 1
    /\ ctl' = [ctl EXCEPT !.generation = @ + 1]
    /\ wake' = TRUE
    /\ q' = [q EXCEPT !.pc = "token", !.cancels = @ + 1]
    /\ UNCHANGED <<scenario, lanes, audio, ring, delivery, device, synth, jobs, cut, inbox, ear, tape, told, asked>>

CancelsToken ==
    /\ q.pc = "token"
    /\ cut' = IF q.inFlight = 0 THEN cut ELSE cut \cup {q.inFlight}
    /\ q' = [q EXCEPT !.pc = "idle"]
    /\ UNCHANGED <<scenario, lanes, ctl, wake, audio, ring, delivery, device, synth, jobs, inbox, ear, tape, told, asked>>

Pauses ==
    /\ q.pc = "idle" /\ (ctl.paused \/ q.pauses < scenario.pauses)
    /\ ctl' = [ctl EXCEPT !.paused = ~@]
    /\ wake' = TRUE
    /\ q' = [q EXCEPT !.pauses = IF ctl.paused THEN @ ELSE @ + 1]
    /\ UNCHANGED <<scenario, lanes, audio, ring, delivery, device, synth, jobs, cut, inbox, ear, tape, told, asked>>

PlaysSound ==
    \E sound \in scenario.plays \ q.played :
        /\ Play(sound, sound \in scenario.toEnd)
        /\ q' = [q EXCEPT !.played = @ \cup {sound}]
        /\ UNCHANGED asked

DeviceAsks ==
    /\ ~asked
    /\ \E what \in scenario.asks : DeviceWants(what)
    /\ asked' = TRUE
    /\ UNCHANGED q

Drop == scenario.drops /\ MixerDropped /\ UNCHANGED <<q, asked>>

Next ==
    \/ (AudioNext \/ DeliveryNext \/ SynthNext \/ DevicePlays) /\ UNCHANGED <<q, asked>>
    \/ HandsOn \/ Cancels \/ CancelsToken \/ Pauses \/ PlaysSound \/ DeviceAsks \/ Drop

Spec == Init /\ [][Next]_vars

(* The mixer, its four threads and the device included, implements what    *)
(* Playback promises of every utterance.  One whose write raced a change   *)
(* of format is told completed, its last marks unreported: it counts as    *)
(* the failed one it should be (mod.rs, "or by the device changing format  *)
(* under it").                                                             *)
EndingOf(u) == IF told[u].ending = "Completed" /\ ctl.format > 1 /\ Len(told[u].marks) < MCMarks[u]
               THEN "Failed" ELSE told[u].ending
Promise == INSTANCE Playback WITH
    Marks <- MCMarks,
    generation <- Raised,
    under <- q.under,
    told <- [u \in Utterances |-> [marks |-> Len(told[u].marks), ending |-> EndingOf(u), ends |-> told[u].ends]]
KeepsPromise == Promise!PlaybackSpec

(***************************************************************************)
(* Fairness: each thread goes on while it has something to do, and a       *)
(* running device plays.  The audio thread, which passes again and again   *)
(* while the device runs, is fair on its own; the others, whose steps are  *)
(* bounded, together.  Written out instead of with WF, whose ENABLED TLC   *)
(* would evaluate in every state.                                          *)
(***************************************************************************)
AudioReady == \/ audio.pc = "take" /\ Awake
              \/ audio.pc \in {"controls", "pause", "fire"}
              \/ audio.pc = "leaving" /\ (wake \/ AllLeft(audio))
DeliveryReady == delivery.pc = "drain" \/ (delivery.pc = "wait" /\ delivery.signal)
SynthReady == CASE synth.pc = "idle" -> jobs # <<>>
                [] synth.pc = "room" -> ctl.room
                [] OTHER -> TRUE
QueueReady == \/ q.pc = "token"
              \/ q.next \in DOMAIN Script /\ (q.inFlight # 0 => \E i \in DOMAIN inbox : inbox[i].is = "SynthFinished")
OthersReady == DeliveryReady \/ SynthReady \/ QueueReady \/ (audio.running /\ device.queue # <<>>)

Fairness ==
    /\ []<>~AudioReady \/ []<><<AudioNext>>_vars
    /\ []<>~OthersReady
          \/ []<><<DeliveryNext \/ SynthNext \/ HandsOn \/ CancelsToken \/ DevicePlays>>_vars

LiveSpec == Spec /\ Fairness

(* The tap is given no frame before the listener has heard it, and every   *)
(* frame of an utterance that played to its end ("a copy of exactly what   *)
(* was heard", MixerBuilder::tap), unless the device was reopened, which   *)
(* discards what is pending for the tap.                                   *)
TapIsExact ==
    \A u \in Reported : /\ tape[u] <= ear[u]
                        /\ told[u].ending = "Completed" /\ ~asked => tape[u] = ear[u]

(* Every utterance handed on ends, whatever is cancelled, fails or is      *)
(* reopened meanwhile, unless the mixer is dropped or speech stays paused: *)
(* no thread is left waiting for a wake, for room or for a report that     *)
(* does not come.                                                          *)
EveryUtteranceEnds ==
    []<>(\A u \in Utterances : \/ q.next <= u \/ told[u].ending # "none"
                               \/ ctl.shutdown \/ ctl.paused)

(* Dropping the mixer never hangs: the audio thread and the delivery       *)
(* thread stop, every report of theirs delivered, and a synth thread       *)
(* waiting for room is let go (shut_down, Mixer::drop).                    *)
DropNeverHangs ==
    []<>(ctl.shutdown => /\ delivery.pc = "ended" /\ ring = <<>> /\ AllLeft(audio)
                         /\ synth.pc = "idle")

(* What is told of an utterance is what the listener heard of it, and the  *)
(* audio thread's store, which the telling is worked out from, agrees with *)
(* itself, with the synth thread's count and with its bounds.              *)
ToldAsHeard ==
    /\ CompletedWasHeard /\ MarksFollowTheAudio /\ TapIsExact
    /\ StoreAgrees /\ RoomIsExact /\ StoreNeverGrows /\ TrackedWillEnd

(* The mixer keeps Playback's promise, what it plays is heard from its     *)
(* first frame to its last, and nothing comes after an ending.             *)
PlaysAsPromised == KeepsPromise /\ EndingIsLast /\ NothingSkipped

(* Neither an utterance nor the mixer's drop waits for ever.               *)
NothingHangs == EveryUtteranceEnds /\ DropNeverHangs
=============================================================================
