------------------------------ MODULE MCSpeech ------------------------------
(***************************************************************************)
(* Speech in two parts, one to a behaviour: the speech queue thread with a *)
(* few utterances and a bounded number of cancels, pauses and focus        *)
(* changes, each posted at any moment; and a synthesizer in a host of its  *)
(* own, with what the synth thread asks of it and what goes wrong.         *)
(***************************************************************************)
EXTENDS Speech, TLC

VARIABLES left,    \* the utterances spoken, how many requests may still come,
                   \* which, and whether the manager may be dropped
          driver, host, commands, replies, cancelled, heard, results, fate, faults

Chunks == 2
Room == 1
HANG_TIMEOUT == 2

Hosting(requests, cancels, crashes, freezes, fails) ==
    [requests |-> requests,
     faults |-> [cancels |-> cancels, crashes |-> crashes, freezes |-> freezes, fails |-> fails]]

(* Utterances one behind the other, each of them cancelled; a setting      *)
(* between two of them, with every fault; a setting that is refused.       *)
(* No request at all: nothing of the host is looked at.                    *)
Utter == 100
Hostings ==
    {Hosting(<<Utter, Utter, Utter>>, 3, 0, 0, 0), Hosting(<<Utter, 1, Utter>>, 1, 2, 1, 0),
     Hosting(<<1, Utter, Utter>>, 1, 1, 0, 1), Hosting(<<1, 9, Utter>>, 0, 1, 1, 1)}
NotHosting == Hosting(<<>>, 0, 0, 0, 0)

Synth == INSTANCE SynthHost WITH Scenarios <- Hostings \cup {NotHosting}, left <- faults

hostVars == <<driver, host, commands, replies, cancelled, heard, results, fate, faults>>
vars == <<speechVars, left, hostVars>>

(* Utterances 2 and 4 are alike, but 2 interrupts.                         *)
MCMarks == <<1, 0, 0, 0>>
MCPriority == <<"Queued", "Interrupt", "Queued", "Next">>
MCKey == <<1, 2, 0, 2>>
MCAbout == <<"a", "b", "any", "b">>

Scenario(says, asks, wanted, quits) ==
    [says |-> says, asks |-> asks, wanted |-> wanted, quits |-> quits]

Scenarios ==
    {Scenario({1, 2, 3}, 1, {"Cancel", "Switch"}, FALSE),
     Scenario({1, 3, 4}, 1, {"TogglePause"}, FALSE),
     Scenario({1, 4}, 2, {"Cancel", "DropExpired"}, FALSE),
     Scenario({1, 4}, 2, {"TogglePause", "DropExpired"}, TRUE)}

Silent == Scenario({}, 0, {}, FALSE)

Init ==
    /\ SpeechInit /\ Synth!Init
    /\ IF driver.requests = <<>> THEN left \in Scenarios ELSE left = Silent

SomeoneSpeaks == (\E u \in left.says : Speaks(u)) /\ q.running /\ UNCHANGED left
SomeoneAsks ==
    /\ left.asks > 0
    /\ \E event \in Requests : event.is \in left.wanted /\ Asks(event)
    /\ left' = [left EXCEPT !.asks = @ - 1]
Quit ==
    /\ left.quits /\ posted = left.says /\ \A i \in DOMAIN inbox : inbox[i].is # "Shutdown"
    /\ q.running
    /\ Asks(Event("Shutdown", 0)) /\ UNCHANGED left

Queueing ==
    \/ (Run \/ SynthFinishes \/ MixerReports) /\ UNCHANGED left
    \/ SomeoneSpeaks \/ SomeoneAsks \/ Quit

Next ==
    \/ Queueing /\ UNCHANGED hostVars
    \/ driver.requests # <<>> /\ Synth!Next /\ UNCHANGED <<speechVars, left>>

Spec == Init /\ [][Next]_vars

-----------------------------------------------------------------------------
(* The sink is given each utterance's audio in order, whole and as set,    *)
(* whatever hosts it came from, and a host that answers in turn is never   *)
(* judged to be out of turn or hung (module SynthHost).                    *)
HostServes == Synth!HostServes
(* Every request of the synth thread ends, whatever its host does.         *)
EveryRequestEnds == Synth!EveryRequestEnds
=============================================================================
