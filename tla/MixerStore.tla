----------------------------- MODULE MixerStore -----------------------------
(***************************************************************************)
(* The audio thread's store, verbatim-audio, mixer/store.rs: one source's  *)
(* frames, pending events, utterances and voices (a record s), as pure     *)
(* operators.  A frame is <<owner, n>>, the n-th of an utterance or of a   *)
(* voice; what is mixed at one mix position is a set of frames.  A source  *)
(* position numbers a source's frames, a mix position the frames written   *)
(* to the device; a segment says which went where.                         *)
(***************************************************************************)
EXTENDS Integers, Sequences, FiniteSets, SequencesExt

CONSTANTS TRACKED, EVENTS, VOICES, SEGMENTS,  \* the room of a source
          SAMPLES,                            \* the frames it may hold
          OUTBOUND                            \* the room of the outbound ring

Least(a, b) == IF a < b THEN a ELSE b
Most(a, b) == IF a < b THEN b ELSE a
Within(n, limit) == Most(0, Least(n, limit))

NewSource == [data |-> <<>>, dataStart |-> 0, writeEnd |-> 0, mixedEnd |-> 0,
              segments |-> <<>>, events |-> <<>>, tracked |-> <<>>, voices |-> <<>>,
              paused |-> FALSE, generation |-> 0, released |-> 0, releasedNow |-> FALSE]

Pending(position, u, kind, what) == [position |-> position, u |-> u, kind |-> kind, what |-> what]
AtOnce(pending) == pending.kind = "Ended"

Held(s) == s.writeEnd - s.dataStart
AdmitsEvent(s) == Len(s.events) < EVENTS
AdmitsRegister(s) == Len(s.tracked) < TRACKED /\ AdmitsEvent(s)
AdmitsFrames(s, frames) == Len(s.data) + frames <= SAMPLES /\ AdmitsEvent(s)
AdmitsVoice(s) == Len(s.voices) < VOICES

TrackedOf(s, u) == {i \in DOMAIN s.tracked : s.tracked[i].u = u}
IsWriting(s, u) == \E i \in TrackedOf(s, u) : s.tracked[i].writing

ReleaseCount(s, frames) == [s EXCEPT !.released = @ + frames, !.releasedNow = TRUE]

EndNow(s, u, ending) == [s EXCEPT !.events = <<Pending(0, u, "Ended", ending)>> \o @]

Untrack(s, u) == [s EXCEPT !.tracked = SelectSeq(@, LAMBDA t : t.u # u)]

Retire(s, Which(_)) ==
    [s EXCEPT !.voices = [i \in DOMAIN @ |->
        IF Which(@[i]) THEN [@[i] EXCEPT !.state = "Retired"] ELSE @[i]]]

Truncate(s, at) ==
    LET from == Most(at, s.dataStart)
        cut == IF from < s.writeEnd
               THEN ReleaseCount([s EXCEPT !.data = SubSeq(@, 1, from - s.dataStart), !.writeEnd = from],
                                 s.writeEnd - from)
               ELSE s
    IN  [cut EXCEPT !.mixedEnd = Least(@, from)]

(***************************************************************************)
(* What each record of a lane does.                                        *)
(***************************************************************************)
Register(s, u, generation) ==
    IF generation < s.generation THEN EndNow(s, u, "Cancelled")
    ELSE [s EXCEPT !.tracked = Append(@,
            [u |-> u, generation |-> generation, start |-> s.writeEnd, writing |-> TRUE, started |-> FALSE])]

(* A failure drops what of the utterance has not played, its events and    *)
(* its voices.                                                             *)
EndFailed(s, u) ==
    LET t == s.tracked[CHOOSE i \in TrackedOf(s, u) : TRUE]
        cut == Untrack(Truncate(s, Most(t.start, s.mixedEnd)), u)
        gone == Retire([cut EXCEPT !.events = SelectSeq(@, LAMBDA e : e.u # u)],
                       LAMBDA v : v.u = u)
    IN  EndNow(gone, u, "Failed")

Fail(s, u) == IF TrackedOf(s, u) = {} THEN s ELSE EndFailed(s, u)

Frames(s, u, frames, current) ==
    LET let == ReleaseCount(s, Len(frames))
        start == ~\E i \in TrackedOf(s, u) : s.tracked[i].started
    IN  IF ~IsWriting(s, u) THEN let
        ELSE IF ~current THEN EndFailed(let, u)
        ELSE [s EXCEPT
                !.tracked = [i \in DOMAIN @ |-> IF @[i].u = u THEN [@[i] EXCEPT !.started = TRUE] ELSE @[i]],
                !.events = IF start THEN Append(@, Pending(s.writeEnd, u, "Start", 0)) ELSE @,
                !.data = @ \o frames, !.writeEnd = @ + Len(frames)]

Mark(s, u, mark) ==
    IF IsWriting(s, u) THEN [s EXCEPT !.events = Append(@, Pending(s.writeEnd, u, "Mark", mark))] ELSE s

NewVoice(s, u, voice, ends) ==
    [s EXCEPT !.voices = Append(@, [id |-> voice.id, len |-> voice.len, u |-> u, ends |-> ends,
                                    trigger |-> s.writeEnd, state |-> "Waiting", at |-> 0])]

(* The store after a sound is placed, and whether its frames left at once. *)
Voice(s, u, voice, current) ==
    IF current /\ (u # 0 => IsWriting(s, u)) THEN [s |-> NewVoice(s, u, voice, FALSE), left |-> FALSE]
    ELSE [s |-> s, left |-> TRUE]

PlayToEnd(s, u, voice, current) ==
    IF ~current THEN [s |-> EndNow(s, u, "Cancelled"), left |-> TRUE]
    ELSE [s |-> NewVoice([s EXCEPT !.tracked = Append(@,
                    [u |-> u, generation |-> s.generation, start |-> s.writeEnd,
                     writing |-> FALSE, started |-> TRUE])], u, voice, TRUE),
          left |-> FALSE]

Finish(s, u) ==
    IF ~IsWriting(s, u) THEN s
    ELSE [s EXCEPT
            !.tracked = [i \in DOMAIN @ |-> IF @[i].u = u THEN [@[i] EXCEPT !.writing = FALSE] ELSE @[i]],
            !.events = Append(@, Pending(s.writeEnd, u, "End", "Completed"))]

(***************************************************************************)
(* A cancel: utterances registered under an older generation end, and what *)
(* was registered since moves up to where they began.                      *)
(***************************************************************************)

\* Mutant: what was registered since is cancelled too.
CancelAll(s, generation) ==   \* what a cancel that spares nothing would do
    LET cut == Truncate([s EXCEPT !.events = SelectSeq(@, AtOnce)], s.mixedEnd)
        gone == Retire(cut, LAMBDA v : TRUE)
    IN  [gone EXCEPT !.tracked = <<>>,
                     !.events = [i \in DOMAIN s.tracked |-> Pending(0, s.tracked[i].u, "Ended", "Cancelled")] \o @]

CancelOlder(s, generation) ==
    LET Old(u) == \E i \in TrackedOf(s, u) : s.tracked[i].generation < generation
        new == {i \in DOMAIN s.tracked : s.tracked[i].generation >= generation}
        spared == IF new = {} THEN s.writeEnd
                  ELSE s.tracked[CHOOSE i \in new : \A j \in new : i <= j].start
        from == Most(s.mixedEnd, s.dataStart)
        removed == Most(spared - from, 0)
        Up(position) == IF position >= spared THEN position - removed ELSE position
        old == SelectSeq(s.tracked, LAMBDA t : t.generation < generation)
        kept == SelectSeq(s.tracked, LAMBDA t : t.generation >= generation)
        events == SelectSeq(s.events, LAMBDA e : AtOnce(e) \/ ~Old(e.u))
        cut == IF removed = 0 THEN s ELSE
               ReleaseCount([s EXCEPT !.data = SubSeq(@, 1, from - s.dataStart)
                                               \o SubSeq(@, spared - s.dataStart + 1, Len(@))], removed)
        gone == Retire(cut, LAMBDA v : v.u = 0 \/ Old(v.u))
    IN  [gone EXCEPT
            !.events = [i \in DOMAIN old |-> Pending(0, old[i].u, "Ended", "Cancelled")]
                       \o [i \in DOMAIN events |-> IF AtOnce(events[i]) THEN events[i]
                               ELSE [events[i] EXCEPT !.position = Up(@)]],
            !.voices = [i \in DOMAIN @ |-> IF @[i].state = "Waiting"
                               THEN [@[i] EXCEPT !.trigger = Up(@)] ELSE @[i]],
            !.tracked = [i \in DOMAIN kept |-> [kept[i] EXCEPT !.start = Up(@)]],
            !.writeEnd = @ - removed,
            !.mixedEnd = Least(@, s.writeEnd - removed)]

EndAll(s, ending) ==
    LET cut == Truncate(s, s.mixedEnd)
        gone == Retire([cut EXCEPT !.events = SelectSeq(@, AtOnce)], LAMBDA v : TRUE)
    IN  [gone EXCEPT !.tracked = <<>>,
                     !.events = [i \in DOMAIN s.tracked |-> Pending(0, s.tracked[i].u, "Ended", ending)] \o @]

(***************************************************************************)
(* What has played.                                                        *)
(***************************************************************************)
PlayedOf(segment, played) == Within(played - segment.mix, segment.len)
Total(segments, Of(_)) == FoldLeft(LAMBDA sum, segment : sum + Of(segment), 0, segments)

FramePlayed(s, position, played) ==
    \/ position < s.dataStart
    \/ \E i \in DOMAIN s.segments :
          LET g == s.segments[i]
          IN  position \in g.source..(g.source + g.len - 1) /\ g.mix + position - g.source < played
PlayedUpTo(s, position, played) == position <= s.dataStart \/ FramePlayed(s, position - 1, played)

IsDue(s, e, played) ==
    CASE e.kind = "Start" -> FramePlayed(s, e.position, played)
      [] e.kind \in {"Mark", "End"} -> PlayedUpTo(s, e.position, played)
      [] OTHER -> TRUE

PlaysOut(v, played) == v.state = "Playing" /\ v.at + v.len <= played

ReleaseVoices(s, played) ==
    LET over == SelectSeq(s.voices, LAMBDA v : PlaysOut(v, played) /\ v.ends /\ TrackedOf(s, v.u) # {})
        ended == FoldLeft(LAMBDA st, v : EndNow(Untrack(st, v.u), v.u, "Completed"), s, over)
    IN  Retire(ended, LAMBDA v : PlaysOut(v, played))

ReleaseFrames(s, played) ==
    LET done == Total(s.segments, LAMBDA g : PlayedOf(g, played))
        rest == [i \in DOMAIN s.segments |->
                    LET g == s.segments[i]
                        n == PlayedOf(g, played)
                    IN  [source |-> g.source + n, mix |-> g.mix + n, len |-> g.len - n]]
        let == [s EXCEPT !.data = SubSeq(@, done + 1, Len(@)), !.dataStart = @ + done,
                         !.segments = SelectSeq(rest, LAMBDA g : g.len > 0)]
    IN  IF done = 0 THEN s ELSE ReleaseCount(let, done)

(* How many of the events are reported: those due, while the ring has room. *)
DueNow(s, ring, played) ==
    LET due == {n \in 0..Len(s.events) : \A i \in 1..n : IsDue(s, s.events[i], played)}
    IN  Least(CHOOSE n \in due : \A k \in due : k <= n, OUTBOUND - Len(ring))

(* The first n events are reported; then the frames played are let go of.  *)
FireFirst(s, n, ring, played) ==
    LET over == {s.events[i].u : i \in {i \in 1..n : s.events[i].kind = "End"}}
        Report(e) == [is |-> IF e.kind = "End" THEN "Ended" ELSE e.kind, u |-> e.u, what |-> e.what]
    IN  [s |-> ReleaseFrames([s EXCEPT !.events = SubSeq(@, n + 1, Len(@)),
                                       !.tracked = SelectSeq(@, LAMBDA t : t.u \notin over)], played),
         ring |-> ring \o [i \in 1..n |-> Report(s.events[i])]]

Fire(s, ring, played) ==
    LET Due(st) == FireFirst(st, DueNow(st, ring, played), ring, played)
    IN  Due(ReleaseVoices(s, played))

Freed == [is |-> "Freed", u |-> 0, what |-> 0]

(* After the store and the ring of a Fire.                                 *)
FlushRetired(fired) ==
    LET s == fired.s
        ring == fired.ring
        retired == {i \in DOMAIN s.voices : s.voices[i].state = "Retired"}
        out == {i \in retired : Cardinality({j \in retired : j < i}) < OUTBOUND - Len(ring)}
        keep == SetToSortSeq(DOMAIN s.voices \ out, LAMBDA i, j : i < j)
    IN  [s |-> [s EXCEPT !.voices = [k \in DOMAIN keep |-> s.voices[keep[k]]]],
         ring |-> ring \o [k \in 1..Cardinality(out) |-> Freed]]

\* Mutant: every segment is forgotten.
RewindForgetsSegments(s, played) == [s EXCEPT !.segments = <<>>]

(* Mixing at or after mix position played is forgotten.                    *)
Rewind(s, played) ==
    LET Back(v) ==
            LET heard == Within(played - v.at, v.len)
            IN  CASE v.state # "Playing" -> v
                  [] v.state = "Playing" /\ v.at >= played -> [v EXCEPT !.state = "Waiting", !.at = 0]
                  [] v.state = "Playing" /\ v.at < played /\ heard = v.len -> [v EXCEPT !.state = "Retired"]
                  [] OTHER -> [v EXCEPT !.state = "Resume", !.at = heard]
    IN  [s EXCEPT !.voices = [i \in DOMAIN @ |-> Back(@[i])],
                  !.mixedEnd = @ - Total(s.segments, LAMBDA g : g.len - PlayedOf(g, played)),
                  !.segments = SelectSeq([i \in DOMAIN @ |-> [@[i] EXCEPT !.len = PlayedOf(s.segments[i], played)]],
                                         LAMBDA g : g.len > 0)]

(***************************************************************************)
(* Mixing.                                                                 *)
(***************************************************************************)
Unmixed(s) == s.writeEnd - s.mixedEnd
StillWritten(s, v) == v.u # 0 /\ IsWriting(s, v.u)
WritingAny(s) == \E i \in DOMAIN s.tracked : s.tracked[i].writing

VoiceLeft(s, v, written) ==
    CASE v.state = "Retired" \/ StillWritten(s, v) -> 0
      [] v.state = "Waiting" /\ ~StillWritten(s, v) ->
            IF v.trigger \in s.mixedEnd..s.writeEnd THEN v.trigger - s.mixedEnd + v.len ELSE 0
      [] v.state = "Resume" /\ ~StillWritten(s, v) -> v.len - v.at
      [] OTHER -> Most(v.at + v.len - written, 0)

Mixable(s, written) ==
    IF s.paused \/ Len(s.segments) = SEGMENTS THEN 0
    ELSE FoldLeft(LAMBDA most, v : Most(most, VoiceLeft(s, v, written)), Unmixed(s), s.voices)

StartVoices(s, written, data) ==
    LET mixedTo == s.mixedEnd + data
        Reached(v) == /\ v.trigger >= s.mixedEnd
                      /\ \/ v.trigger < mixedTo
                         \/ v.trigger = s.writeEnd /\ mixedTo = s.writeEnd /\ ~StillWritten(s, v)
        Start(v) ==
            CASE v.state = "Resume" -> [v EXCEPT !.state = "Playing", !.at = written - v.at]
              [] v.state = "Waiting" /\ Reached(v) ->
                    [v EXCEPT !.state = "Playing", !.at = written + v.trigger - s.mixedEnd]
              [] OTHER -> v
    IN  [s EXCEPT !.voices = [i \in DOMAIN @ |-> Start(@[i])]]

(* The store s after the next take of its frames are mixed at written, st  *)
(* being s with the voices reached started, and what each of the positions *)
(* holds of it.                                                            *)
MixTaken(s, st, take, frames, written) ==
    LET last == IF s.segments = <<>> THEN [source |-> 0, mix |-> 0, len |-> 0] ELSE Last(s.segments)
        joins == last.len > 0 /\ last.mix + last.len = written /\ last.source + last.len = s.mixedEnd
        playing == {i \in DOMAIN st.voices : st.voices[i].state = "Playing"}
        VoicesAt(mix) == {<<st.voices[i].id, mix - st.voices[i].at + 1>> :
                             i \in {i \in playing : mix \in st.voices[i].at..(st.voices[i].at + st.voices[i].len - 1)}}
        DataAt(k) == IF k <= take THEN {s.data[s.mixedEnd - s.dataStart + k]} ELSE {}
    IN  [s |-> IF take = 0 THEN st
               ELSE [st EXCEPT !.mixedEnd = @ + take,
                       !.segments = IF joins THEN [@ EXCEPT ![Len(@)].len = @ + take]
                                    ELSE Append(@, [source |-> s.mixedEnd, mix |-> written, len |-> take])],
         mix |-> [k \in 1..frames |-> DataAt(k) \cup VoicesAt(written + k - 1)]]

(* Up to frames are mixed, the voices going on once the data has run out.  *)
MixInto(s, frames, written) ==
    LET Taking(take) == MixTaken(s, StartVoices(s, written, take), take, frames, written)
    IN  IF Mixable(s, written) = 0 THEN [s |-> s, mix |-> [k \in 1..frames |-> {}]]
        ELSE Taking(Least(Unmixed(s), frames))
=============================================================================
