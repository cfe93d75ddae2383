----------------------------- MODULE MCTerminal -----------------------------
(* Instances of TerminalSpeech, and of its waiting queue alone, under every *)
(* sequence of reads, hand-overs to speech and decisions of the flood       *)
(* policy.                                                                  *)
EXTENDS TerminalSpeech, TerminalScenarios

-----------------------------------------------------------------------------
(* The queue alone.  A line's number is left out: what tells items apart is *)
(* their kind, count and size.  `written` counts the lines read.            *)

(* What a read may say: a lost read's kind and its lines, or the growth of  *)
(* the last line read and lines.                                            *)
Batches ==
    LET Firsts == {<<>>, <<SkippedItem(About(0))>>, <<SkippedItem(MoreThan(0))>>,
                   <<SkippedItem(Uncounted)>>} \cup {<<Growth(0, size, 0)>> : size \in scenario.sizes}
        lines == {Line(0, "exactly", FALSE, size, 0) : size \in scenario.sizes}
        Rest == {<<>>} \cup {<<a>> : a \in lines} \cup {<<a, b>> : a \in lines, b \in lines}
    IN  {batch \in {first \o rest : first \in Firsts, rest \in Rest} :
            batch # <<>> /\ Last(batch).kind # "skipped"}

QueueBecomes(k) ==
    /\ core' = [core EXCEPT !.waiting = k.waiting, !.group = k.group]
    /\ UNCHANGED <<changed, reading, work, requests, messages, speech, port, now, alive, used,
                   limits, scenario>>

Queue == [waiting |-> core.waiting, group |-> core.group]

(* The lines of the group, a burst started if there was none. *)
Group == IF core.group = NoGroup THEN full_lines ELSE core.group

(* A read's output queued. *)
TakeAlone(batch) ==
    LET cost == IF Lines(batch) = 0 THEN 1 ELSE Lines(batch) IN
    /\ written + cost <= scenario.lines
    /\ written' = written + cost
    /\ QueueBecomes(bound([waiting |-> queue(core.waiting, Group, batch), group |-> Group]))

(* The next item of the group is handed to speech. *)
HandAlone ==
    /\ core.waiting # <<>> /\ (core.group > 0 \/ belongs(Head(core.waiting)))
    /\ QueueBecomes([waiting |-> Tail(core.waiting),
                     group |-> IF is_line(Head(core.waiting)) /\ core.group > 0
                               THEN core.group - 1 ELSE core.group])
    /\ UNCHANGED written

(* The group has been heard. *)
DecideAlone ==
    /\ core.group # NoGroup
    /\ core.waiting # <<>> => core.group = 0 /\ ~belongs(Head(core.waiting))
    /\ QueueBecomes(decide(Queue))
    /\ UNCHANGED written

IsAlone == scenario.lines > 0

NextAlone == (\E batch \in Batches : TakeAlone(batch)) \/ HandAlone \/ DecideAlone

MCNext == (~IsAlone /\ Next) \/ (IsAlone /\ NextAlone)

-----------------------------------------------------------------------------

(* Queueing what a read says in one pass, never adding what is past the     *)
(* bound, leaves what adding all of it and then skipping the backlog's      *)
(* oldest lines would (queue and Bounded against push_skipped and           *)
(* skip_all_but).                                                           *)
OnePass ==
    IsAlone =>
        \A batch \in Batches :
            LET all == FoldLeft(push, core.waiting, added(batch)) IN
            queue(core.waiting, Group, batch) =
                IF Lines(all) <= Group + keep THEN all
                ELSE skip_all_but(all, backlog_start(all, Group), keep)

(* The queue keeps its bounds: behind the group no more lines wait than     *)
(* either limit keeps, and all that waits fits the byte bound.              *)
WithinBounds ==
    /\ Lines(core.waiting) <= keep + IF core.group = NoGroup THEN 0 ELSE core.group
    /\ Bytes(core.waiting) <= MAX_WAITING_BYTES

(* Output is spoken in its place or counted, and the queue that keeps it    *)
(* within its bounds in one pass leaves what it should.                     *)
OutputAccounted == SpokenInPlace /\ OnePass /\ WithinBounds

=============================================================================
