---------------------------- MODULE Supervision ----------------------------
(***************************************************************************)
(* The supervisor and the app's reducer thread together: verbatim-app,     *)
(* main.rs with live.rs, wanted.rs and idle.rs, on the other end of the    *)
(* supervisor's messages (owner.out) and of its mailbox (mail).            *)
(***************************************************************************)
EXTENDS Supervisor

ASSUME SupervisionAssumption ==
    \A s \in Scenarios : s.rounds \in Nat /\ s.wants \in Nat /\ s.exits \in BOOLEAN

VARIABLES app,         \* what the reducer thread keeps of outposts
          mail         \* the supervisor's mailbox, what the app sent in order

svars == <<owner, exited, app, mail, scenario>>

MaxRounds == scenario.rounds   \* bound: idle rounds numbered
MaxWants == scenario.wants     \* bound: focuses wanted by the user's doing
MayShutdown == scenario.exits  \* whether Verbatim may exit

(***************************************************************************)
(* The idle barrier.  number 0 is no round; asked is whether unanswered is *)
(* known (the relay has said which outposts it asked).  mark and waiting   *)
(* are the facts routed when the newest waiter of the round, and of those  *)
(* still waiting, came: what the waiter's answer promises is handled.      *)
(***************************************************************************)
NoRound == [number |-> 0, asked |-> FALSE, unanswered |-> {}, clearing |-> FALSE, mark |-> 0]

NewApp == [live |-> <<>>, regenerated |-> {}, wanted |-> {}, round |-> NoRound,
           waiting |-> FALSE, mark |-> 0, next |-> 1, wants |-> 0, missed |-> FALSE]

Live(a) == DOMAIN a.live
ReadyFor(a, pid) == {id \in Live(a) : a.live[id].pid = pid /\ a.live[id].ready}
Clear(a) == a.wanted = {} /\ \A id \in Live(a) : a.live[id].ready

Collecting(a, round) == a.round.number = round /\ ~a.round.clearing

BarrierQueried(a, round, outposts) ==
    IF Collecting(a, round) /\ ~a.round.asked /\ round # 0
    THEN [a EXCEPT !.round.asked = TRUE, !.round.unanswered = outposts] ELSE a

BarrierAnswered(a, round, outpost) ==
    IF Collecting(a, round) /\ a.round.asked
    THEN [a EXCEPT !.round.unanswered = @ \ {outpost}] ELSE a

BarrierEnded(a, outpost) ==
    IF a.round.asked /\ ~a.round.clearing
    THEN [a EXCEPT !.round.unanswered = @ \ {outpost}] ELSE a

HandedOn(a, outpost, next) ==
    IF a.round.asked /\ ~a.round.clearing /\ outpost \in a.round.unanswered
    THEN [a EXCEPT !.round.unanswered = (@ \ {outpost}) \cup {next}] ELSE a

AllAnswered(a) ==
    a.round.number # 0 /\ ~a.round.clearing /\ a.round.asked /\ a.round.unanswered = {}

(***************************************************************************)
(* The messages.  attention: the application that ended is the one the     *)
(* user attends to, so its replacement is asked for the focus.             *)
(***************************************************************************)
OnStarted(a, m) == [a EXCEPT !.live = With(@, m.outpost, [pid |-> m.pid, ready |-> FALSE])]

OnOutpostReady(a, m) ==
    IF m.outpost \in Live(a)
    THEN [a EXCEPT !.live[m.outpost].ready = TRUE, !.wanted = @ \ {m.pid}] ELSE a

OnRegenerated(a, m) ==
    LET b == HandedOn(a, m.outpost, m.next)
    IN  IF m.outpost \in Live(a) THEN [b EXCEPT !.regenerated = @ \cup {m.outpost}] ELSE b

OnOutpostEnded(a, m, attention) ==
    LET b        == BarrierEnded(a, m.outpost)
        replaced == m.follows /\ m.outpost \notin a.regenerated
        live     == m.outpost \in Live(a)
    IN  [b EXCEPT !.regenerated = @ \ {m.outpost},
                  !.wanted = IF live /\ replaced /\ attention THEN @ \cup {m.pid} ELSE @,
                  !.missed = @ \/ ~live,
                  !.live   = Without(@, m.outpost)]

OnNotWatched(a, m) == [a EXCEPT !.wanted = @ \ {m.pid}]

\* Asks for the focus of pid: at once, or once its outpost is ready.
WantFocusNow(pid) ==
    /\ app' = IF ReadyFor(app, pid) # {} THEN app ELSE [app EXCEPT !.wanted = @ \cup {pid}]
    /\ mail' = IF ReadyFor(app, pid) # {} THEN mail
               ELSE Append(mail, [say |-> "EnsureSpawned", n |-> pid])

Hear(m) ==
    \/ /\ m.say = "Started" /\ app' = OnStarted(app, m) /\ UNCHANGED mail
    \/ /\ m.say = "Ready" /\ app' = OnOutpostReady(app, m) /\ UNCHANGED mail
    \/ /\ m.say = "Regenerated" /\ app' = OnRegenerated(app, m) /\ UNCHANGED mail
    \/ /\ m.say = "Ended" /\ UNCHANGED mail
       /\ \E attention \in BOOLEAN : app' = OnOutpostEnded(app, m, attention)
    \/ /\ m.say = "NotWatched" /\ app' = OnNotWatched(app, m) /\ UNCHANGED mail
    \/ /\ m.say = "IdleQueried" /\ UNCHANGED mail
       /\ app' = BarrierQueried(app, m.round, m.outposts)
    \/ /\ m.say = "IdleAnswer" /\ UNCHANGED mail
       /\ app' = IF m.outpost \in Live(app) THEN BarrierAnswered(app, m.next, m.outpost) ELSE app
    \/ /\ m.say = "ListenerReady" /\ m.replacement /\ MaxWants > 0
       /\ \E pid \in Apps \ exited : WantFocusNow(pid)
    \/ /\ m.say = "ListenerReady" /\ (~m.replacement \/ MaxWants = 0)
       /\ UNCHANGED <<app, mail>>

AppTakes == Taken /\ Hear(Head(owner.out))

\* The user's doing makes Core want an application's focus.
AppWants(pid) ==
    /\ app.wants < MaxWants /\ Serving /\ pid \notin exited
    /\ ReadyFor(app, pid) = {} /\ pid \notin app.wanted
    /\ app' = [app EXCEPT !.wanted = @ \cup {pid}, !.wants = @ + 1]
    /\ mail' = Append(mail, [say |-> "EnsureSpawned", n |-> pid])
    /\ UNCHANGED <<owner, exited>>

\* A message of a live generation's could not be decoded.
AppCannotRead(outpost) ==
    /\ "decode" \in Faults /\ outpost \in Live(app) /\ app.wants < MaxWants
    /\ app' = [app EXCEPT !.wants = @ + 1]
    /\ mail' = Append(mail, [say |-> "Unreadable", n |-> outpost])
    /\ UNCHANGED <<owner, exited>>

\* The harness waits for idle.
AwaitIdle ==
    /\ ~app.waiting /\ app.next <= MaxRounds /\ Serving
    /\ app' = [app EXCEPT !.waiting = TRUE, !.mark = owner.facts]
    /\ UNCHANGED <<owner, exited, mail>>

\* The reducer's own conditions are checked once its queue is empty.
FinishRound ==
    /\ AllAnswered(app) /\ owner.out = <<>>
    /\ app' = IF Clear(app) THEN [app EXCEPT !.round = NoRound]
              ELSE [app EXCEPT !.round.clearing = TRUE]
    /\ UNCHANGED <<owner, exited, mail>>

\* A round starts for the waiters, or again once what it waits for clears.
StartRound ==
    /\ app.next <= MaxRounds
    /\ IF app.round.number = 0 THEN app.waiting ELSE app.round.clearing /\ Clear(app)
    /\ app' = [app EXCEPT !.round = [NoRound EXCEPT !.number = app.next,
                                       !.mark = IF app.waiting THEN app.mark ELSE app.round.mark],
                          !.waiting = FALSE, !.mark = 0, !.next = @ + 1]
    /\ mail' = Append(mail, [say |-> "IdleRound", n |-> app.next])
    /\ UNCHANGED <<owner, exited>>

\* The relay takes the next event from its mailbox.
TakeMail ==
    /\ mail # <<>>
    /\ LET event == Head(mail)
       IN  \/ event.say = "EnsureSpawned" /\ EnsureSpawned(event.n)
           \/ event.say = "Unreadable" /\ Unreadable(event.n)
           \/ event.say = "IdleRound" /\ IdleRound(event.n)
    /\ mail' = Tail(mail)
    /\ UNCHANGED app

OfApp(pid) ==
    \/ Fact(pid) \/ OutpostReady(pid) \/ OutpostHandles(pid) \/ OutpostSeesExit(pid)
    \/ HeartbeatExited(pid) \/ HeartbeatWedged(pid)
    \/ SweepRetires(pid) \/ SweepGone(pid) \/ SweepForgets(pid) \/ StartDue(pid)
    \/ AppExits(pid) \/ AppStarts(pid)

OfChild(id) == LaunchedEvent(id) \/ PipeEnds(id) \/ HeartbeatSpare(id)

OwnerStep ==
    \/ \E pid \in Apps : OfApp(pid)
    \/ \E id \in 1..MaxId : OfChild(id)
    \/ ListenerReady \/ ListenerReads \/ HeartbeatListener \/ StartDueSpares
    \/ MayShutdown /\ Shutdown
    \/ Retired \/ FinishShutdown

SInit ==
    /\ scenario \in Scenarios
    /\ Init
    /\ app = NewApp
    /\ mail = IF Own \in Apps THEN <<[say |-> "EnsureSpawned", n |-> Own]>> ELSE <<>>

SNext ==
    /\ \/ OwnerStep /\ UNCHANGED <<app, mail>>
       \/ TakeMail \/ AppTakes
       \/ \E pid \in Apps : AppWants(pid)
       \/ \E id \in 1..MaxId : AppCannotRead(id)
       \/ AwaitIdle \/ FinishRound \/ StartRound
    /\ UNCHANGED scenario

SSpec == SInit /\ [][SNext]_svars

(***************************************************************************)
(* Exit.  Launches report, ended children end with their pipes (retire     *)
(* kills one that outlasts its limit) and retirements report: each is a    *)
(* thread or a process the owner does not wait for, and none of them waits *)
(* for the owner.  It is enough that one of them happens while any can.    *)
(***************************************************************************)
IsEnded(id) ==
    id \notin DOMAIN owner.spares /\ PidsOf(owner, id) = {} /\ owner.listener.outpost # id

ExitStep ==
    \/ \E id \in 1..MaxId : LaunchedEvent(id) \/ (IsEnded(id) /\ PipeEnds(id))
    \/ Retired \/ FinishShutdown

\* ENABLED ExitStep, written out; with it, ExitSpec's second conjunct is
\* WF_svars(ExitStep).
CanExitStep ==
    /\ Going
    /\ \/ owner.launches # {} \/ owner.retiring > 0
       \/ Room /\ \E id \in DOMAIN owner.readers : IsEnded(id)
       \/ CanFinish

ExitSpec == SSpec /\ ([]<>(~CanExitStep) \/ []<><<ExitStep>>_svars)

-----------------------------------------------------------------------------
(***************************************************************************)
(* What the two keep between them.                                         *)
(***************************************************************************)
Coming(say, pid) == \E i \in DOMAIN owner.out : owner.out[i].say = say /\ owner.out[i].pid = pid
Posted(say, n) == \E i \in DOMAIN mail : mail[i] = [say |-> say, n |-> n]

\* The owner's and the app's state are of their types.
TypeOK ==
    /\ OwnerTypeOK
    /\ \A id \in Live(app) : app.live[id] \in [pid : Apps, ready : BOOLEAN]
    /\ app.regenerated \subseteq 1..MaxId /\ app.wanted \subseteq Apps
    /\ app.round.number \in 0..MaxRounds /\ app.round.unanswered \subseteq 1..MaxId

\* The app is never told the end of a generation it does not have (main.rs,
\* on_outpost_ended: "a miss is a logic bug"), and never has two generations
\* of one application (live.rs): an end comes before the next one's start.
EndsAreOfTheLive ==
    /\ ~app.missed
    /\ \A a, b \in Live(app) : app.live[a].pid = app.live[b].pid => a = b

\* Once the app has heard everything, it has as live exactly the generations
\* the supervisor started and has not ended, ready exactly when they are, and
\* remembers no generation as regenerated.
AppAgrees ==
    owner.out = <<>> /\ Serving =>
        /\ Live(app) = {Heard(owner.records[pid].gen) : pid \in Watched(owner)} \ {NoOutpost}
        /\ \A pid \in Watched(owner) :
              LET g == owner.records[pid].gen
              IN  HasChild(g) => app.live[g.outpost] = [pid |-> pid, ready |-> IsReady(g)]
        /\ app.regenerated = {}

\* Nothing the app wants of an application waits for nothing: its start is
\* asked for, or a record will make it ready, or the answer is on its way.
WantsAreServed ==
    Serving => \A pid \in app.wanted :
        \/ Posted("EnsureSpawned", pid)
        \/ Coming("Ready", pid) \/ Coming("NotWatched", pid)
        \/ pid \in Watched(owner) /\ ~IsReady(owner.records[pid].gen)

\* A round passes only when no fact that was routed before its waiter came is
\* still held or written and not handled, but for an application whose failed
\* outpost's replacement waited for its backoff when the outposts were asked:
\* an outpost that starts answers behind its held facts, and one that fails
\* before its Ready leaves its place to the next (idle.rs, query_outposts).
IdleMeansHandled ==
    [][app.round.number # 0 /\ app'.round.number = 0 =>
         \A pid \in Watched(owner) :
            LET r == owner.records[pid]
            IN  r.skipped # app.round.number =>
                  /\ \A i \in DOMAIN r.held : r.held[i].n > app.round.mark
                  /\ \A i \in DOMAIN r.pipe : r.pipe[i].kind = "Fact" => r.pipe[i].n > app.round.mark]_svars

\* A round the outposts have not been asked for is on its way to them: in the
\* mailbox, with a listener that will answer it, waiting for a launch that will
\* report, or asked and about to be heard of (idle_round, listener_gone).
RoundMoves ==
    LET round == app.round.number
    IN  round # 0 /\ ~app.round.clearing /\ ~app.round.asked /\ Serving =>
          \/ Posted("IdleRound", round)
          \/ /\ owner.idle = [at |-> "Listener", round |-> round] /\ owner.listener.stage # "None"
             /\ \E i \in DOMAIN owner.listener.queue :
                   owner.listener.queue[i] = [say |-> "IdleQuery", round |-> round]
          \/ /\ owner.idle = [at |-> "Launches", round |-> round]
             /\ \E pid \in Watched(owner) : Current(owner, pid) \in owner.launches
          \/ \E i \in DOMAIN owner.out : owner.out[i].say = "IdleQueried" /\ owner.out[i].round = round

\* Every outpost a round waits for is one the supervisor has, or one whose
\* answer, end or replacement the app is about to hear (idle.rs: "each
\* answers, or ends, which counts as its answer, except a spare that failed
\* before its Ready, whose place goes to the generation holding its facts").
RoundWaitsForSomeone ==
    app.round.asked /\ ~app.round.clearing /\ Serving =>
        \A id \in app.round.unanswered :
            \/ \E pid \in Watched(owner) : owner.records[pid].gen.outpost = id
            \/ \E i \in DOMAIN owner.out :
                  owner.out[i].say \in {"Ended", "Regenerated", "IdleAnswer"} /\ owner.out[i].outpost = id

\* What the supervisor says of its children is so, wherever it is kept: of
\* their launches and pipes, in the listener's table and in the app.
ChildrenAgree ==
    LaunchesAreWanted /\ ReadAsWhatItIs /\ HooksAgree /\ EndsAreOfTheLive /\ AppAgrees

\* Nothing waits for a start that nothing will make: a record for its backoff,
\* the spares for theirs, the app for an application's outpost.
StartsAreMade == WaitsForBackoff /\ SparesInOrder /\ SparesAreKept /\ WantsAreServed

\* The facts for an application reach its outpost, none lost and in order.
FactsAreKept == []FactsInOrder /\ HeldFactsKept

\* An idle round is never left waiting for what will not come.
RoundGoesOn == RoundMoves /\ RoundWaitsForSomeone

\* Once Verbatim is exiting nothing is launched, every child ends and the
\* supervisor with it: a child still launching is ended when its launch
\* reports, a record waiting for a backoff is not waited for (shut_down_all,
\* finish_shutdown).
ShutdownEnds ==
    /\ NoLaunchExiting
    /\ owner.exit = "Asked" ~> owner.exit = "Done"

=============================================================================
