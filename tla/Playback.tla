------------------------------ MODULE Playback ------------------------------
(***************************************************************************)
(* What the mixer promises the speech queue thread of the utterances       *)
(* handed on to it (verbatim-audio, mixer/mod.rs, "Endings" and            *)
(* "Ordering"), without threads, lanes, device or frames: the marks of an  *)
(* utterance are reported in order, then its one ending; it is completed   *)
(* only after its last mark, and cancelled only when the generation was    *)
(* raised after it was handed on.  MCMixer shows that the mixer keeps the  *)
(* promise; Speech builds on it.                                           *)
(***************************************************************************)
EXTENDS Integers

CONSTANTS Utterances,
          Marks            \* the number of marks of each

VARIABLES generation,      \* the source's cancel generation
          under,           \* the generation each utterance was handed on under, or -1
          told             \* what was reported of each

playbackVars == <<generation, under, told>>

PlaybackInit ==
    /\ generation = 0
    /\ under = [u \in Utterances |-> -1]
    /\ told = [u \in Utterances |-> [marks |-> 0, ending |-> "none", ends |-> 0]]

HandOn(u) ==
    /\ under[u] = -1
    /\ under' = [under EXCEPT ![u] = generation]
    /\ UNCHANGED <<generation, told>>

Raise == generation' = generation + 1 /\ UNCHANGED <<under, told>>

Playing(u) == under[u] >= 0 /\ told[u].ends = 0

ReportMark(u) ==
    /\ Playing(u) /\ told[u].marks < Marks[u]
    /\ told' = [told EXCEPT ![u].marks = @ + 1]
    /\ UNCHANGED <<generation, under>>

MayEnd(u, ending) ==
    CASE ending = "Completed" -> told[u].marks = Marks[u]
      [] ending = "Cancelled" -> under[u] < generation
      [] OTHER -> TRUE

ReportEnd(u, ending) ==
    /\ Playing(u) /\ MayEnd(u, ending)
    /\ told' = [told EXCEPT ![u].ending = ending, ![u].ends = 1]
    /\ UNCHANGED <<generation, under>>

Endings == {"Completed", "Cancelled", "Failed"}

PlaybackNext ==
    \/ Raise
    \/ \E u \in Utterances : \/ HandOn(u) \/ ReportMark(u)
                             \/ \E ending \in Endings : ReportEnd(u, ending)

PlaybackSpec == PlaybackInit /\ [][PlaybackNext]_playbackVars
=============================================================================
