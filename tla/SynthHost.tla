------------------------------ MODULE SynthHost ------------------------------
(* A synthesizer in a process of its own: the driver the synth thread calls *)
(* (verbatim-synth-hosted) and the host it owns (verbatim-synth-host), over *)
(* a pipe each way.                                                         *)
(*                                                                          *)
(* The thread makes the requests of a script, one at a time, each an        *)
(* utterance or a setting.  An utterance is a number of chunks; a mark is   *)
(* relayed as a chunk is, and is not told apart.  A frame is read whole,    *)
(* and a read takes one.  The command pipe has no buffer: a write is taken  *)
(* by the read the host has in flight, else it waits for the host's next.   *)
(* Time is how long the driver has counted the host silent.                 *)
EXTENDS Naturals, Sequences, SequencesExt

CONSTANTS
    Scenarios,      \* what the thread asks, and how often what can go wrong does
    Chunks,         \* the chunks of an utterance
    Room,           \* how many frames the pipe to the driver holds
    HANG_TIMEOUT    \* how long a host may be silent

VARIABLES
    driver,     \* the driver and the step the synth thread is at
    host,       \* the host process
    commands,   \* what the host's read in flight has taken
    replies,    \* the frames in the pipe to the driver
    cancelled,  \* the utterances cancelled
    heard,      \* what the sink was given, with the setting wanted for it
    results,    \* how each request ended
    fate,       \* why the last host was ended
    left        \* how many cancels, ends, freezes and failures may still come

vars == <<driver, host, commands, replies, cancelled, heard, results, fate, left>>

Utterance == 100    \* the request to speak; any other is a setting's value

Refused == 9        \* a setting's value that every host refuses

NoHost == [up |-> "none", at |-> "idle", waiting |-> <<>>, current |-> 0, left |-> 0,
           cancelled |-> FALSE, value |-> 0, frames |-> <<>>]

Frame(kind, of, n, value) == [kind |-> kind, of |-> of, n |-> n, value |-> value]

Ends(frame) == frame.kind \in {"done", "failed"}

Command(kind, of, value) == [kind |-> kind, of |-> of, value |-> value]

(* The driver as Host::start left it: the host runs and has said Ready. *)
Init ==
    /\ \E s \in Scenarios :
        /\ left = s.faults
        /\ driver = [requests |-> s.requests, at |-> "rest", request |-> 1, draining |-> <<>>, silent |-> 0,
                     relayed |-> FALSE, round |-> 0, value |-> 0, pending |-> <<>>, then |-> "rest"]
    /\ host = [NoHost EXCEPT !.up = "up"]
    /\ commands = <<>> /\ replies = <<>>
    /\ cancelled = {} /\ heard = <<>> /\ results = <<>>
    /\ fate = "none"

-----------------------------------------------------------------------------
(* The driver: what its steps are made of *)

(* What the thread asks: Utterance, or a setting's value. *)
Requests == driver.requests

Asked == Requests[driver.request]

IsSpeak == Asked = Utterance

RequestCommand ==
    IF IsSpeak THEN Command("speak", driver.request, 0) ELSE Command("set", 0, Asked)

(* A frame was read, or a request starts the time of a host that owes none. *)
Counted(d) == [d EXCEPT !.silent = 0]

(* Writes a command; the thread goes on at `then` once the host's read has  *)
(* taken it.                                                                *)
send(d, command, then) ==
    LET d1 == IF d.draining = <<>> /\ command.kind # "cancel" THEN Counted(d) ELSE d IN
    IF commands = <<>>
    THEN commands' = <<command>> /\ driver' = [d1 EXCEPT !.at = then]
    ELSE /\ driver' = [d1 EXCEPT !.at = "sending", !.pending = <<command>>, !.then = then]
         /\ UNCHANGED commands

(* The request is over. *)
Finish(d, result) ==
    /\ driver' = [d EXCEPT !.at = "rest", !.request = @ + 1, !.round = 0, !.relayed = FALSE]
    /\ results' = Append(results, result)

(* Ends the host, and its pipes with it. *)
lose_host(why) ==
    /\ host' = NoHost /\ commands' = <<>> /\ replies' = <<>>
    /\ fate' = why

(* Whether the thread is still starting a host. *)
Starting ==
    \/ driver.at \in {"starting", "restoring"}
    \/ driver.at = "sending" /\ driver.then = "restoring"

(* The host can no longer be used: an utterance none of which was relayed   *)
(* goes once more to a new host when this one ended, and any other request  *)
(* fails.                                                                   *)
Lost(why) ==
    LET d == [driver EXCEPT !.draining = <<>>, !.pending = <<>>] IN
    /\ lose_host(why)
    /\ IF \/ ~IsSpeak \/ Starting
          \/ driver.relayed \/ why # "ended" \/ driver.round = 1 \/ driver.request \in cancelled
       THEN Finish(d, "failed")
       ELSE driver' = [d EXCEPT !.at = "rest", !.round = 1] /\ UNCHANGED results

-----------------------------------------------------------------------------
(* The driver: its steps *)

(* A new host, with pipes of its own, is waited for. *)
start(d) ==
    /\ host' = [NoHost EXCEPT !.up = "up", !.at = "starting"]
    /\ commands' = <<>>
    /\ driver' = [Counted(d) EXCEPT !.at = "starting", !.draining = <<>>]

(* The next request.  What the host has sent is looked over first: all of   *)
(* it must be of utterances that drain.  A host that is gone, or has been   *)
(* silent too long, is replaced.                                            *)
Begin ==
    /\ driver.at = "rest" /\ driver.request <= Len(Requests)
    /\ LET stays == SelectSeq(replies, LAMBDA m : ~Contains(driver.draining, m.of))
           ended == {replies[i].of : i \in {j \in DOMAIN replies : Ends(replies[j])}}
           d1 == IF replies = <<>> THEN driver ELSE Counted(driver)
           d == [d1 EXCEPT !.draining = SelectSeq(@, LAMBDA u : u \notin ended)]
           why == CASE host.up = "none" -> "none"
                    [] stays # <<>> -> "out of turn"
                    [] host.up = "dead" -> "ended"
                    [] d.draining # <<>> /\ d.silent >= HANG_TIMEOUT -> "hung"
                    [] OTHER -> "fit"
       IN  /\ replies' = <<>>
           /\ \/ /\ why = "fit"
                 /\ send(d, RequestCommand, IF IsSpeak THEN "check" ELSE "setting")
                 /\ UNCHANGED <<host, fate>>
              \/ /\ why # "fit"
                 /\ start(d)
                 /\ fate' = IF why = "none" THEN fate ELSE why
    /\ UNCHANGED <<cancelled, heard, results, left>>

(* The host has taken the whole of a command that waited. *)
Sent ==
    /\ driver.at = "sending" /\ driver.pending = <<>>
    /\ driver' = [driver EXCEPT !.at = driver.then]
    /\ UNCHANGED <<host, commands, replies, cancelled, heard, results, fate, left>>

(* Tells the host to stop the utterance; the write fails once it is gone. *)
cancel(d) ==
    \/ /\ host.up # "dead"
       /\ send(d, Command("cancel", d.request, 0), "draining")
       /\ UNCHANGED <<host, replies, results, fate>>
    \/ host.up = "dead" /\ Lost("ended")

(* Before each wait for the host: a cancelled utterance is cancelled there. *)
Check ==
    /\ driver.at = "check"
    /\ \/ driver.request \in cancelled /\ cancel(driver)
       \/ /\ driver.request \notin cancelled
          /\ driver' = [driver EXCEPT !.at = "wait"]
          /\ UNCHANGED <<host, commands, replies, results, fate>>
    /\ UNCHANGED <<cancelled, heard, left>>

(* The cancel is written: the thread goes on, and the utterance drains. *)
Drain ==
    /\ driver.at = "draining"
    /\ Finish([driver EXCEPT !.draining = Append(@, driver.request)], "cancelled")
    /\ UNCHANGED <<host, commands, replies, cancelled, heard, fate, left>>

(* The utterance's cancel ends the wait. *)
Wake ==
    /\ driver.at = "wait" /\ driver.request \in cancelled
    /\ driver' = [driver EXCEPT !.at = "check"]
    /\ UNCHANGED <<host, commands, replies, cancelled, heard, results, fate, left>>

(* A new host is given the setting the one before had. *)
Restore(d) == send(d, Command("set", 0, d.value), "restoring")

Waits == driver.at \in {"wait", "setting", "starting", "restoring"}

(* What a frame that comes to the waiting thread is: d is the driver with   *)
(* the host heard from.  One of a draining utterance is dropped, and the    *)
(* utterance forgotten once its end has come.                               *)
Dropped(d, m) ==
    /\ Contains(driver.draining, m.of)
    /\ driver' = IF Ends(m) THEN [d EXCEPT !.draining = SelectSeq(@, LAMBDA u : u # m.of)] ELSE d
    /\ UNCHANGED <<host, commands, heard, results, fate>>

(* The utterance's audio goes to the sink. *)
Relayed(d, m) ==
    /\ driver.at = "wait" /\ m.of = driver.request /\ m.kind = "pcm"
    /\ heard' = Append(heard, [of |-> m.of, n |-> m.n, value |-> m.value, wanted |-> driver.value])
    /\ driver' = [d EXCEPT !.at = "sink", !.relayed = TRUE]
    /\ UNCHANGED <<host, commands, results, fate>>

Spoken(d, m) ==
    /\ driver.at = "wait" /\ m.of = driver.request /\ Ends(m)
    /\ Finish(d, IF m.kind = "done" THEN "ok" ELSE "failed")
    /\ UNCHANGED <<host, commands, heard, fate>>

(* A setting's answer: the driver notes the value of one applied. *)
set_setting(d, m) ==
    /\ driver.at = "setting" /\ m.kind \in {"applied", "refused"}
    /\ Finish([d EXCEPT !.value = IF m.kind = "applied" THEN Asked ELSE @],
              IF m.kind = "applied" THEN "ok" ELSE "refused")
    /\ UNCHANGED <<host, commands, heard, fate>>

(* A new host is ready, and then has the settings: the request is made. *)
Ready(d, m) ==
    /\ \/ driver.at = "starting" /\ m.kind = "ready" /\ Restore(d)
       \/ /\ driver.at = "restoring" /\ m.kind = "applied"
          /\ send(d, RequestCommand, IF IsSpeak THEN "check" ELSE "setting")
    /\ UNCHANGED <<host, heard, results, fate>>

(* A frame of nothing the thread waits for. *)
OutOfTurn(m) ==
    CASE driver.at = "wait" -> m.of # driver.request
      [] driver.at = "setting" -> m.kind \notin {"applied", "refused"}
      [] driver.at = "starting" -> m.kind \notin {"ready", "unavailable"}
      [] driver.at = "restoring" -> m.kind # "applied"

Receive ==
    /\ Waits /\ replies # <<>>
    /\ LET m == Head(replies)
           d == Counted(driver)
       IN  \/ /\ Dropped(d, m) \/ Relayed(d, m) \/ Spoken(d, m) \/ set_setting(d, m) \/ Ready(d, m)
              /\ replies' = Tail(replies)
           \/ /\ driver.at = "starting" /\ m.kind = "unavailable"
              /\ Lost("unavailable") /\ UNCHANGED heard
           \/ /\ ~Contains(driver.draining, m.of) /\ OutOfTurn(m)
              /\ Lost("out of turn") /\ UNCHANGED heard
    /\ UNCHANGED <<cancelled, left>>

(* Mutant: a write waits for the host as long as it takes. *)
Miss_unread ==
    /\ Waits /\ replies = <<>>
    /\ \/ host.up = "dead" /\ Lost("ended")
       \/ host.up # "dead" /\ driver.silent >= HANG_TIMEOUT /\ Lost("hung")
    /\ UNCHANGED <<cancelled, heard, left>>

(* The pipe ended, or the host stayed silent too long: found in a wait, or  *)
(* in a write the host does not take.                                       *)
Miss ==
    /\ \/ Waits /\ replies = <<>>
       \/ driver.at = "sending" /\ driver.pending # <<>>
    /\ \/ host.up = "dead" /\ Lost("ended")
       \/ host.up # "dead" /\ driver.silent >= HANG_TIMEOUT /\ Lost("hung")
    /\ UNCHANGED <<cancelled, heard, left>>

(* The sink has taken what it was given; or it refuses more, the utterance  *)
(* having been cancelled while playback was behind.                         *)
HandBack ==
    /\ driver.at = "sink"
    /\ driver' = [Counted(driver) EXCEPT !.at = "check"]
    /\ UNCHANGED <<host, commands, replies, cancelled, heard, results, fate, left>>

Refuse ==
    /\ driver.at = "sink" /\ driver.request \in cancelled
    /\ cancel(driver)
    /\ UNCHANGED <<cancelled, heard, left>>

-----------------------------------------------------------------------------
(* The host *)

(* A command read.  A cancel stops the utterance being spoken, or makes one *)
(* that waits its turn be answered unspoken; of one already ended, nothing. *)
TakeIn(h, c) ==
    CASE c.kind # "cancel" -> [h EXCEPT !.waiting = Append(@, c)]
      [] c.of = h.current -> [h EXCEPT !.cancelled = TRUE]
      [] OTHER -> [h EXCEPT !.waiting = [i \in DOMAIN @ |->
                     IF @[i].kind = "speak" /\ @[i].of = c.of THEN Command("skip", c.of, 0) ELSE @[i]]]

Incoming == commands \o driver.pending

Taken(h) == FoldLeft(TakeIn, h, Incoming)

Emptied ==
    commands' = <<>> /\ driver' = [driver EXCEPT !.pending = <<>>]

Runs == host.up = "up"

(* A frame is written, and waited for until the pipe takes it. *)
Reply(h, frame) == [h EXCEPT !.at = "paced", !.frames = <<frame>>]

Over(h, kind) == Reply([h EXCEPT !.current = 0], Frame(kind, h.current, 0, 0))

(* The synthesizer is built, and described; or it cannot start. *)
Start ==
    /\ Runs /\ host.at = "starting"
    /\ \/ host' = Reply(host, Frame("ready", 0, 0, 0)) /\ UNCHANGED <<replies, left>>
       \/ /\ left.fails > 0
          /\ left' = [left EXCEPT !.fails = @ - 1]
          /\ replies' = <<Frame("unavailable", 0, 0, 0)>>
          /\ host' = [host EXCEPT !.up = "dead"]
    /\ UNCHANGED <<driver, commands, cancelled, heard, results, fate>>

(* Commands are read while the host is idle, while it waits for its         *)
(* synthesizer, and while a frame waits for the pipe.                       *)
Read ==
    /\ Runs /\ host.at # "starting" /\ Incoming # <<>>
    /\ host' = Taken(host) /\ Emptied
    /\ UNCHANGED <<replies, cancelled, heard, results, fate, left>>

(* Mutant: the last utterance's cancel is left standing. *)
begin_stale(h, utterance) ==
    [h EXCEPT !.at = "speaking", !.current = utterance, !.left = Chunks]

begin(h, utterance) ==
    [h EXCEPT !.at = "speaking", !.current = utterance, !.left = Chunks, !.cancelled = FALSE]

(* The next command's turn. *)
Turn ==
    /\ Runs /\ host.at = "idle" /\ host.waiting # <<>>
    /\ LET c == Head(host.waiting)
           h == [host EXCEPT !.waiting = Tail(@)]
       IN  host' = CASE c.kind = "skip" -> Reply(h, Frame("done", c.of, 0, 0))
                     [] c.kind = "speak" -> begin(h, c.of)
                     [] c.kind = "set" -> IF c.value = Refused THEN Reply(h, Frame("refused", 0, 0, 0))
                                          ELSE Reply([h EXCEPT !.value = c.value], Frame("applied", 0, 0, 0))
    /\ UNCHANGED <<driver, commands, replies, cancelled, heard, results, fate, left>>

(* The synthesizer gives a chunk; the commands waiting are read first, and  *)
(* a cancelled utterance ends there.                                        *)
Push ==
    /\ Runs /\ host.at = "speaking" /\ host.left > 0
    /\ LET h == Taken(host) IN
       host' = IF h.cancelled THEN Over(h, "done")
               ELSE Reply([h EXCEPT !.left = @ - 1],
                          Frame("pcm", h.current, Chunks + 1 - h.left, h.value))
    /\ Emptied
    /\ UNCHANGED <<replies, cancelled, heard, results, fate, left>>

(* The utterance ends, or fails. *)
End ==
    /\ Runs /\ host.at = "speaking"
    /\ \/ host.left = 0 /\ host' = Over(host, "done") /\ UNCHANGED left
       \/ /\ left.fails > 0
          /\ left' = [left EXCEPT !.fails = @ - 1]
          /\ host' = Over(host, "failed")
    /\ UNCHANGED <<driver, commands, replies, cancelled, heard, results, fate>>

(* The pipe has room for the frame: once it is whole a cancelled utterance  *)
(* ends.                                                                    *)
Write ==
    /\ Runs /\ host.at = "paced" /\ Len(replies) < Room
    /\ replies' = replies \o host.frames
    /\ LET h == [host EXCEPT !.frames = <<>>] IN
       host' = CASE h.current = 0 -> [h EXCEPT !.at = "idle"]
                 [] h.cancelled -> Over(h, "done")
                 [] OTHER -> [h EXCEPT !.at = "speaking"]
    /\ UNCHANGED <<driver, commands, cancelled, heard, results, fate, left>>

-----------------------------------------------------------------------------
(* What happens to them *)

(* The speech manager cancels the utterance being spoken. *)
Cancel ==
    /\ left.cancels > 0
    /\ driver.request <= Len(Requests) /\ IsSpeak /\ driver.request \notin cancelled
    /\ driver.at # "rest"
    /\ left' = [left EXCEPT !.cancels = @ - 1]
    /\ cancelled' = cancelled \cup {driver.request}
    /\ UNCHANGED <<driver, host, commands, replies, heard, results, fate>>

(* The host ends: the frame it was writing is lost, those in the pipe not. *)
Crash ==
    /\ host.up \in {"up", "frozen"} /\ left.crashes > 0
    /\ left' = [left EXCEPT !.crashes = @ - 1]
    /\ host' = [host EXCEPT !.up = "dead"]
    /\ UNCHANGED <<driver, commands, replies, cancelled, heard, results, fate>>

Freeze ==
    /\ Runs /\ left.freezes > 0
    /\ left' = [left EXCEPT !.freezes = @ - 1]
    /\ host' = [host EXCEPT !.up = "frozen"]
    /\ UNCHANGED <<driver, commands, replies, cancelled, heard, results, fate>>

(* Time passes. *)
Tick ==
    /\ driver.silent < HANG_TIMEOUT
    /\ driver' = [driver EXCEPT !.silent = @ + 1]
    /\ UNCHANGED <<host, commands, replies, cancelled, heard, results, fate, left>>

DriverStep == Begin \/ Sent \/ Check \/ Drain \/ Wake \/ Receive \/ Miss \/ HandBack \/ Refuse

HostStep == Start \/ Read \/ Turn \/ Push \/ End \/ Write

Next == DriverStep \/ HostStep \/ Cancel \/ Crash \/ Freeze \/ Tick

Spec == Init /\ [][Next]_vars

-----------------------------------------------------------------------------
(* Properties *)

HeardOf(u) == SelectSeq(heard, LAMBDA c : c.of = u)

(* What the sink is given of an utterance is its audio in order, none of it *)
(* twice, whatever hosts it was sent to; an utterance the driver says was   *)
(* spoken was given whole.  (speak, speak_with, the draining utterances.)   *)
HeardWhole ==
    \A u \in 1..Len(Requests) :
        /\ \A i \in DOMAIN HeardOf(u) : HeardOf(u)[i].n = i
        /\ u <= Len(results) /\ Requests[u] = Utterance /\ results[u] = "ok" => Len(HeardOf(u)) = Chunks

(* A host that answers in turn is never taken for one that does not: the    *)
(* frames of cancelled utterances, however late they come, end no host.     *)
(* (between_requests, next, speak_with.)                                    *)
NeverOutOfTurn == fate # "out of turn"

(* Every chunk is spoken with the setting the driver says it has, on a new  *)
(* host as on the one before it.  (host, set_setting.)                      *)
SpokenAsSet == \A i \in DOMAIN heard : heard[i].value = heard[i].wanted

(* The host owes the end of every utterance that drains: it is on its way,  *)
(* being spoken, or waiting its turn.  One noted as draining that the host  *)
(* will never end would have a sound host judged hung.                      *)
DrainingOwed ==
    host.up \in {"up", "frozen"} =>
        \A i \in DOMAIN driver.draining :
            LET u == driver.draining[i]
                frames == replies \o host.frames
                work == host.waiting \o commands \o driver.pending
            IN  \/ host.current = u
                \/ \E j \in DOMAIN frames : frames[j].of = u /\ Ends(frames[j])
                \/ \E j \in DOMAIN work : work[j].of = u /\ work[j].kind \in {"speak", "skip"}

(* What the sink is given is right, and the host is judged by its answers. *)
HostServes == HeardWhole /\ SpokenAsSet /\ NeverOutOfTurn /\ DrainingOwed

(* The thread runs, its host runs unless frozen, time passes, and the sink  *)
(* hands back: playback is not paused for ever.                             *)
Fairness == WF_vars(DriverStep) /\ WF_vars(HostStep) /\ WF_vars(Tick)

(* Every request ends, whatever its host does. *)
EveryRequestEnds == Fairness => <>(driver.request > Len(Requests))

=============================================================================
