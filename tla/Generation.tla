----------------------------- MODULE Generation -----------------------------
(***************************************************************************)
(* One application's outpost generation: verbatim-core,                    *)
(* supervisor/generation.rs.                                               *)
(*                                                                         *)
(* The record the supervisor keeps of the outpost process that serves one  *)
(* application, from its launch to its failure or its removal.  It is      *)
(* pure: every method is an operator from the generation to the one after  *)
(* it and the notices the supervisor passes on, in order.                  *)
(***************************************************************************)
EXTENDS Integers, Sequences

NoOutpost == 0

Stages == {"Launching", "SpareGiven", "Starting", "Ready", "Waiting"}

(***************************************************************************)
(* outpost is the current generation; in "Waiting", which has none, it is  *)
(* the one that failed before its Ready (unready), if any, and heard is    *)
(* whether the app was told that one had started.                          *)
(***************************************************************************)
Generations ==
    {g \in [stage : Stages, outpost : Nat, heard : BOOLEAN] :
        /\ g.outpost = NoOutpost => g.stage = "Waiting" /\ ~g.heard
        /\ g.heard => g.stage = "Waiting"}

Stage(stage, outpost) == [stage |-> stage, outpost |-> outpost, heard |-> FALSE]

NewGeneration == Stage("Waiting", NoOutpost)

Outpost(g) == IF g.stage = "Waiting" THEN NoOutpost ELSE g.outpost
HasChild(g) == g.stage \in {"Starting", "Ready"}
IsReady(g) == g.stage = "Ready"
IsLaunching(g) == g.stage \in {"Launching", "SpareGiven"}

\* The generation whose start the app heard and whose end it has not.
Heard(g) ==
    IF HasChild(g) \/ (g.stage = "Waiting" /\ g.heard) THEN g.outpost ELSE NoOutpost

(***************************************************************************)
(* Notices: to the listener, to the app, or to the supervisor itself.      *)
(***************************************************************************)
Says == {"HookInstalled", "HookRemoved", "Assign", "Launch",
         "Started", "Ended", "Regenerated", "NotWatched"}

Notice(to, say, pid, outpost) ==
    [to |-> to, say |-> say, pid |-> pid, outpost |-> outpost,
     next |-> NoOutpost, follows |-> FALSE]

HookInstalled(pid, outpost) == Notice("Listener", "HookInstalled", pid, outpost)
HookRemoved(pid)            == Notice("Listener", "HookRemoved", pid, NoOutpost)
Assign(pid, outpost)        == Notice("Owner", "Assign", pid, outpost)
Launch(pid, outpost)        == Notice("Owner", "Launch", pid, outpost)
Started(pid, outpost)       == Notice("App", "Started", pid, outpost)
NotWatched(pid)             == Notice("App", "NotWatched", pid, NoOutpost)
Ended(pid, outpost, follows) ==
    [Notice("App", "Ended", pid, outpost) EXCEPT !.follows = follows]
Regenerated(pid, outpost, next) ==
    [Notice("App", "Regenerated", pid, outpost) EXCEPT !.next = next]

Step(g, notices) == [gen |-> g, notices |-> notices]

-----------------------------------------------------------------------------

\* Mutant: the failed one ends before its place is handed on.
GivenEndingFirst(g, pid, next, spare, running) ==
    LET before == (IF g.heard THEN <<Ended(pid, g.outpost, TRUE)>> ELSE <<>>)
                  \o (IF g.outpost = NoOutpost THEN <<>>
                      ELSE <<Regenerated(pid, g.outpost, next)>>)
    IN  IF ~spare THEN Step(Stage("Launching", next), Append(before, Launch(pid, next)))
        ELSE IF running
        THEN Step(Stage("Starting", next),
                  before \o <<Assign(pid, next), Started(pid, next)>>)
        ELSE Step(Stage("SpareGiven", next), before)

\* Mutant: what the failed one left in the record is kept.
GivenKeepingUnready(g, pid, next, spare, running) ==
    LET before == (IF g.outpost = NoOutpost THEN <<>>
                   ELSE <<Regenerated(pid, g.outpost, next)>>)
                  \o (IF g.heard THEN <<Ended(pid, g.outpost, TRUE)>> ELSE <<>>)
        given(stage) == [g EXCEPT !.stage = stage, !.outpost = next]
    IN  IF ~spare THEN Step(given("Launching"), Append(before, Launch(pid, next)))
        ELSE IF running
        THEN Step(given("Starting"), before \o <<Assign(pid, next), Started(pid, next)>>)
        ELSE Step(given("SpareGiven"), before)

\* From "Waiting": the failed one's place goes to the next before it ends.
Given(g, pid, next, spare, running) ==
    LET before == (IF g.outpost = NoOutpost THEN <<>>
                   ELSE <<Regenerated(pid, g.outpost, next)>>)
                  \o (IF g.heard THEN <<Ended(pid, g.outpost, TRUE)>> ELSE <<>>)
    IN  IF g.stage # "Waiting" THEN Step(g, <<>>)
        ELSE IF ~spare
        THEN Step(Stage("Launching", next), Append(before, Launch(pid, next)))
        ELSE IF running
        THEN Step(Stage("Starting", next),
                  before \o <<Assign(pid, next), Started(pid, next)>>)
        ELSE Step(Stage("SpareGiven", next), before)

\* The launch reported a child: one for the application, or a given spare.
Launched(g, pid) ==
    Step([g EXCEPT !.stage = "Starting"],
         IF g.stage = "SpareGiven"
         THEN <<Assign(pid, g.outpost), Started(pid, g.outpost)>>
         ELSE <<Started(pid, g.outpost)>>)

Ready(g, pid) ==
    IF g.stage = "Starting"
    THEN Step([g EXCEPT !.stage = "Ready"], <<HookInstalled(pid, g.outpost)>>)
    ELSE Step(g, <<>>)

\* The current generation failed, and the record is kept for a next one.
Failed(g, pid) ==
    IF g.stage = "Ready"
    THEN Step(NewGeneration, <<HookRemoved(pid), Ended(pid, g.outpost, TRUE)>>)
    ELSE Step([stage |-> "Waiting", outpost |-> g.outpost, heard |-> HasChild(g)], <<>>)

\* Mutant: the app is not told.
RemovedUntold(g, pid, loud) ==
    <<HookRemoved(pid)>>
    \o (IF loud /\ Heard(g) # NoOutpost THEN <<Ended(pid, Heard(g), FALSE)>> ELSE <<>>)

\* The record goes; loud is FALSE when Verbatim is exiting (no reason given).
Removed(g, pid, loud) ==
    <<HookRemoved(pid)>>
    \o (IF loud /\ Heard(g) # NoOutpost THEN <<Ended(pid, Heard(g), FALSE)>> ELSE <<>>)
    \o (IF loud THEN <<NotWatched(pid)>> ELSE <<>>)

=============================================================================
