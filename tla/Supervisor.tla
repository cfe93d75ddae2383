----------------------------- MODULE Supervisor -----------------------------
(***************************************************************************)
(* The supervisor: verbatim-supervisor, owner.rs, with the spares, held    *)
(* facts and start rules of verbatim-core, supervisor/policy.rs.           *)
(*                                                                         *)
(* One thread, the relay, owns every record of a child process: one per    *)
(* watched application, the spare outposts and the focus listener.  Each   *)
(* event it handles is one action here, and each method is an operator     *)
(* from the owner's state to the state after it, so that an action is the  *)
(* whole handler with every call it makes.                                 *)
(*                                                                         *)
(* Left to choice: whether a backoff's wait is zero (Backoff gives the     *)
(* numbers), when it ends, which child is judged wedged or idle, which     *)
(* launch fails.  A pass of the owner's loop that ends several children    *)
(* (a heartbeat, a sweep, the starts that are due) is that many passes     *)
(* with one each: the children end independently, and each alone could     *)
(* have been found a pass earlier.                                         *)
(***************************************************************************)
EXTENDS Generation, FiniteSets, SequencesExt

CONSTANTS Own,         \* Core's own process, one of Apps unless left out
          Scenarios    \* what a behaviour may meet, and its bounds

\* A launch fails; a child's pipe cannot be read; an outpost or spare crashes,
\* or is wedged; the listener crashes or is wedged; an idle outpost is retired;
\* an application exits; one cannot be opened; a message cannot be decoded;
\* the idle query cannot be written.
AllFaults == {"launch", "unread", "crash", "wedge", "listener", "retire",
              "exit", "open", "decode", "write"}

FactKinds == {"Foreground", "Focus", "Marker", "Dropped", "ReadsEnded"}

ASSUME SupervisorAssumption ==
    /\ Own \in Nat \ {0}
    /\ \A s \in Scenarios :
          /\ s.apps \subseteq Nat \ {0}
          /\ s.spares \in Nat /\ s.ids \in Nat /\ s.facts \in Nat
          /\ s.kinds \subseteq FactKinds /\ s.faults \subseteq AllFaults

VARIABLES owner,       \* the state of struct Owner
          exited,      \* the processes of Apps that are not running
          scenario     \* which of Scenarios this behaviour is of

vars == <<owner, exited>>

Apps == scenario.apps          \* process ids that applications can have
SPARES == scenario.spares      \* how many spares are kept waiting
MaxId == scenario.ids          \* bound: how many outpost ids are handed out
MaxFacts == scenario.facts     \* bound: how many facts the listener reports
Kinds == scenario.kinds        \* the kinds of fact it reports
Faults == scenario.faults      \* which of AllFaults happen

(***************************************************************************)
(* Facts: n numbers them in the order they were routed.  The parts of a    *)
(* UIA focus's read have no key and are never merged.                      *)
(***************************************************************************)
Facts == [n : Nat, kind : FactKinds]

HasKey(kind) == kind \in {"Foreground", "Focus"}
MayStartOutpost(kind) == kind \in {"Foreground", "Focus", "Marker"}

\* Mutant: a fact replaces the last of its kind, keyed or not.
HoldMerging(held, fact) ==
    Append(SelectSeq(held, LAMBDA f : f.kind # fact.kind), fact)

Hold(held, fact) ==
    Append(IF HasKey(fact.kind) THEN SelectSeq(held, LAMBDA f : f.kind # fact.kind)
                                ELSE held,
           fact)

(***************************************************************************)
(* A record: its generation, whether that generation's child knows its     *)
(* application (by its arguments or an Assign), the facts held for it,     *)
(* what was written to its ready outpost and not yet handled, the idle     *)
(* query its next Ready answers (0 for none), and whether a failure's      *)
(* backoff runs.  skipped is history: the last round that asked the        *)
(* outposts while this record had no generation to ask.                    *)
(***************************************************************************)
Writes == [kind : {"Fact", "Idle"}, n : Nat]
Records == [gen : Generations, told : BOOLEAN, held : Seq(Facts), pipe : Seq(Writes),
            idle : Nat, skipped : Nat, due : BOOLEAN]

NewRecord == [gen |-> NewGeneration, told |-> FALSE, held |-> <<>>, pipe |-> <<>>,
              idle |-> 0, skipped |-> 0, due |-> FALSE]

(***************************************************************************)
(* The listener: queue is pending while it is launching, and what was      *)
(* written to it and not yet read once it runs; hooks is the table it was  *)
(* launched with, as the commands it has read changed it.                  *)
(***************************************************************************)
NoListener == [stage |-> "None", outpost |-> NoOutpost, replacement |-> FALSE,
               ready |-> FALSE, hooks |-> {}, queue |-> <<>>]

NoStage == [at |-> "None", round |-> 0]     \* Option<IdleStage>

New == [generation |-> 0, records |-> <<>>, listener |-> NoListener,
        kept |-> FALSE, waiting |-> <<>>, spareDue |-> FALSE, spares |-> <<>>,
        apps |-> {}, launches |-> {}, readers |-> <<>>, idle |-> NoStage,
        retiring |-> 0, exit |-> "No", facts |-> 0, out |-> <<>>]

Watched(o) == DOMAIN o.records
Current(o, pid) == Outpost(o.records[pid].gen)
PidsOf(o, outpost) == {pid \in Watched(o) : Current(o, pid) = outpost}
PidOf(o, outpost) == CHOOSE pid \in PidsOf(o, outpost) : TRUE
HasExited(o, pid) == pid \notin o.apps \/ pid \in exited
ShuttingDown(o) == o.exit # "No"

Without(f, x) == [y \in DOMAIN f \ {x} |-> f[y]]
With(f, x, v) == [y \in DOMAIN f \cup {x} |-> IF y = x THEN v ELSE f[y]]
SetRecord(o, pid, r) == [o EXCEPT !.records = With(@, pid, r)]

-----------------------------------------------------------------------------
(***************************************************************************)
(* Launches, retirements and notices.                                      *)
(***************************************************************************)
HooksIn(o) == {<<pid, Current(o, pid)>> : pid \in {p \in Watched(o) : IsReady(o.records[p].gen)}}

LaunchChild(o, outposts) == [o EXCEPT !.launches = @ \cup outposts]

RetireChild(o, wasRunning) == [o EXCEPT !.retiring = IF wasRunning THEN @ + 1 ELSE @]

TellListener(o, commands) ==
    IF o.listener.stage = "None" THEN o
    ELSE [o EXCEPT !.listener.queue = @ \o commands]

Send(o, messages) == [o EXCEPT !.out = @ \o messages]

\* A spare given is sent its Assign, and read as its application's from then on.
AssignTo(o, n) ==
    [o EXCEPT !.records[n.pid].told = TRUE,
              !.readers = [id \in DOMAIN @ |-> IF id = n.outpost THEN "Outpost" ELSE @[id]]]

LaunchFor(o, n) == LaunchChild([o EXCEPT !.records[n.pid].told = TRUE], {n.outpost})

Apply(o, notices) ==
    LET told == Send(TellListener(o, SelectSeq(notices, LAMBDA n : n.to = "Listener")),
                     SelectSeq(notices, LAMBDA n : n.to = "App"))
    IN  FoldLeft(LAMBDA p, n : IF n.say = "Assign" THEN AssignTo(p, n) ELSE LaunchFor(p, n),
                 told, SelectSeq(notices, LAMBDA n : n.to = "Owner"))

-----------------------------------------------------------------------------
(***************************************************************************)
(* Spares, oldest first.                                                   *)
(***************************************************************************)
SparesWanted(o) ==
    IF ~o.kept \/ o.spareDue \/ Len(o.waiting) >= SPARES THEN 0
    ELSE SPARES - Len(o.waiting)

ReplenishSpares(o) ==
    LET n     == SparesWanted(o)
        fresh == [i \in 1..n |-> o.generation + i]
        ids   == {fresh[i] : i \in 1..n}
    IN  IF ShuttingDown(o) THEN o
        ELSE LaunchChild([o EXCEPT !.generation = @ + n,
                                   !.waiting    = @ \o fresh,
                                   !.spares     = [id \in DOMAIN @ \cup ids |->
                                                     IF id \in ids THEN "Launching" ELSE @[id]]],
                         ids)

KeepSpares(o) ==
    IF ShuttingDown(o) \/ o.kept THEN o
    ELSE ReplenishSpares([o EXCEPT !.kept = TRUE])

RemoveSpare(o, spare) ==
    [o EXCEPT !.waiting = SelectSeq(@, LAMBDA id : id # spare),
              !.spares  = Without(@, spare)]

\* zero: the failure's backoff is no wait at all.
SpareFailed(o, zero) == ReplenishSpares([o EXCEPT !.spareDue = ~zero])

(***************************************************************************)
(* An application's record is given its next generation: the oldest spare, *)
(* running or still launching, or one launched for it.                     *)
(***************************************************************************)
Incarnate(o, pid) ==
    LET took    == o.kept /\ o.waiting # <<>>
        next    == IF took THEN Head(o.waiting) ELSE o.generation + 1
        running == took /\ next \in DOMAIN o.spares /\ o.spares[next] = "Running"
        step    == Given(o.records[pid].gen, pid, next, took, running)
        given   == SetRecord(o, pid, [o.records[pid] EXCEPT !.gen = step.gen])
        after   == IF took THEN ReplenishSpares(RemoveSpare(given, next))
                   ELSE [given EXCEPT !.generation = @ + 1]
    IN  IF pid \notin Watched(o) THEN o ELSE Apply(after, step.notices)

-----------------------------------------------------------------------------
(***************************************************************************)
(* Starts and ends of an application's record.                             *)
(***************************************************************************)
ForgetApp(o, pid) == [o EXCEPT !.apps = @ \ {pid}]

ReleaseTarget(o, pid) ==
    IF pid \notin Watched(o) /\ HasExited(o, pid) THEN ForgetApp(o, pid) ELSE o

TellNotWatched(o, pid) == Apply(o, <<HookRemoved(pid), NotWatched(pid)>>)

\* opens: the application's process can be opened, when it is not held yet.
HoldTarget(o, pid, opens) ==
    IF pid \in exited THEN ForgetApp(o, pid)
    ELSE IF pid \in o.apps \/ ~opens THEN o
    ELSE [o EXCEPT !.apps = @ \cup {pid}]

StartOutpost(o, pid, opens, held) ==
    LET p == HoldTarget(o, pid, opens)
    IN  IF pid \notin p.apps THEN TellNotWatched(ReleaseTarget(p, pid), pid)
        ELSE Incarnate(SetRecord(p, pid, [NewRecord EXCEPT !.held = held]), pid)

\* loud: with a reason, which the app hears; Verbatim's exit is silent.
FinishRemoval(o, pid, loud) ==
    LET g    == o.records[pid].gen
        gone == [o EXCEPT !.records = Without(@, pid)]
        kept == IF pid = Own /\ ~IsReady(g) THEN KeepSpares(gone) ELSE gone
    IN  IF pid \notin Watched(o) THEN o
        ELSE Apply(RetireChild(kept, HasChild(g)), Removed(g, pid, loud))

EndBecause(o, pid) == FinishRemoval(o, pid, TRUE)
EndQuietly(o, pid) == FinishRemoval(o, pid, FALSE)

TargetExited(o, pid) == ReleaseTarget(EndBecause(o, pid), pid)

\* The generation failed: its application has exited, Verbatim is exiting,
\* or the record waits for its next one, none if the backoff is no wait.
OutpostFailed(o, pid, zero) ==
    LET r    == o.records[pid]
        step == Failed(r.gen, pid)
        fell == Apply(RetireChild(SetRecord(o, pid, [r EXCEPT !.gen = step.gen, !.told = FALSE,
                                                              !.pipe = <<>>, !.due = ~zero]),
                                  HasChild(r.gen)),
                      step.notices)
        kept == IF pid = Own /\ ~IsReady(r.gen) THEN KeepSpares(fell) ELSE fell
    IN  IF HasExited(o, pid) THEN TargetExited(o, pid)
        ELSE IF ShuttingDown(o) THEN EndQuietly(o, pid)
        ELSE IF pid \notin Watched(o) \/ r.gen.stage = "Waiting" THEN o
        ELSE IF zero THEN Incarnate(kept, pid) ELSE kept

-----------------------------------------------------------------------------
(***************************************************************************)
(* The idle round (communication.md, section 6.7).                         *)
(***************************************************************************)
AskOutpost(r, round) ==
    IF IsReady(r.gen) THEN [r EXCEPT !.pipe = Append(@, [kind |-> "Idle", n |-> round])]
    ELSE IF Outpost(r.gen) # NoOutpost THEN [r EXCEPT !.idle = round]
    ELSE [r EXCEPT !.skipped = round]

QueryOutposts(o, round) ==
    LET asked == {Current(o, pid) : pid \in {p \in Watched(o) : HasChild(o.records[p].gen)}}
    IN  IF ~ShuttingDown(o) /\ \E pid \in Watched(o) : IsLaunching(o.records[pid].gen)
        THEN [o EXCEPT !.idle = [at |-> "Launches", round |-> round]]
        ELSE Send([o EXCEPT !.idle = NoStage,
                            !.records = [pid \in DOMAIN @ |-> AskOutpost(@[pid], round)]],
                  <<[say |-> "IdleQueried", round |-> round, outposts |-> asked]>>)

\* Mutant: the round still waits for the listener.
ListenerGoneUnanswered(o) == o

ListenerGone(o) == IF o.idle.at = "Listener" THEN QueryOutposts(o, o.idle.round) ELSE o

\* reached: the query could be written to a listener that runs.
QueryListener(o, round, reached) ==
    LET asking == [o EXCEPT !.idle = [at |-> "Listener", round |-> round]]
    IN  IF o.listener.stage = "None" \/ ShuttingDown(o) THEN QueryOutposts(o, round)
        ELSE IF reached \/ o.listener.stage = "Launching"
        THEN TellListener(asking, <<[say |-> "IdleQuery", round |-> round]>>)
        ELSE ListenerGone(asking)

-----------------------------------------------------------------------------

(***************************************************************************)
(* The focus listener.                                                     *)
(***************************************************************************)

\* Mutant: the listener is launched without the table of hooks.
StartListenerBare(o, replacement) ==
    LaunchChild([o EXCEPT !.generation = @ + 1,
                          !.listener = [stage |-> "Launching", outpost |-> o.generation + 1,
                                        replacement |-> replacement, ready |-> FALSE,
                                        hooks |-> {}, queue |-> <<>>]],
                {o.generation + 1})

StartListener(o, replacement) ==
    LaunchChild([o EXCEPT !.generation = @ + 1,
                          !.listener = [stage |-> "Launching", outpost |-> o.generation + 1,
                                        replacement |-> replacement, ready |-> FALSE,
                                        hooks |-> HooksIn(o), queue |-> <<>>]],
                {o.generation + 1})

EndListener(o) ==
    [RetireChild(o, o.listener.stage = "Running") EXCEPT !.listener = NoListener]

Deliver(r, fact) ==
    IF IsReady(r.gen) THEN [r EXCEPT !.pipe = Append(@, [kind |-> "Fact", n |-> fact.n])]
    ELSE [r EXCEPT !.held = Hold(@, fact)]

FocusReadsEnded(o) ==
    LET fact == [n |-> o.facts + 1, kind |-> "ReadsEnded"]
    IN  [o EXCEPT !.facts = @ + 1,
                  !.records = [pid \in DOMAIN @ |-> Deliver(@[pid], fact)]]

ReplaceListener(o) == StartListener(ListenerGone(FocusReadsEnded(EndListener(o))), TRUE)

-----------------------------------------------------------------------------
(***************************************************************************)
(* The end of a child's pipe, or a message of it that cannot be decoded.   *)
(***************************************************************************)
OnPipeClosed(o, outpost, zero) ==
    IF o.listener.outpost = outpost
    THEN IF ShuttingDown(o) THEN EndListener(o) ELSE ReplaceListener(o)
    ELSE IF outpost \in DOMAIN o.spares
    THEN LET listed == Contains(o.waiting, outpost)
             gone   == RetireChild(RemoveSpare(o, outpost), o.spares[outpost] = "Running")
         IN  IF listed /\ ~ShuttingDown(o) THEN SpareFailed(gone, zero) ELSE gone
    ELSE IF PidsOf(o, outpost) = {} THEN o
    ELSE IF ShuttingDown(o) THEN EndQuietly(o, PidOf(o, outpost))
    ELSE OutpostFailed(o, PidOf(o, outpost), zero)

(***************************************************************************)
(* A launch has reported.                                                  *)
(***************************************************************************)
ListenerLaunched(o, ok) ==
    LET running == [o EXCEPT !.listener.stage = "Running"]
    IN  IF ok THEN IF ShuttingDown(o) THEN EndListener(running) ELSE running
        ELSE ListenerGone([o EXCEPT !.listener = NoListener])

SpareLaunched(o, spare, ok, zero) ==
    IF ok THEN IF ShuttingDown(o)
               THEN RetireChild([o EXCEPT !.spares = Without(@, spare)], TRUE)
               ELSE [o EXCEPT !.spares[spare] = "Running"]
    ELSE IF Contains(o.waiting, spare) THEN SpareFailed(RemoveSpare(o, spare), zero)
    ELSE [o EXCEPT !.spares = Without(@, spare)]

OutpostLaunched(o, pid, ok, zero) ==
    LET step == Launched(o.records[pid].gen, pid)
        up   == Apply(SetRecord(o, pid, [o.records[pid] EXCEPT !.gen = step.gen]), step.notices)
    IN  IF ok THEN IF ShuttingDown(o) THEN EndQuietly(up, pid) ELSE up
        ELSE IF ~ShuttingDown(o) THEN OutpostFailed(o, pid, zero)
        ELSE ReleaseTarget([o EXCEPT !.records = Without(@, pid)], pid)

\* A launch that reports for nothing known is ended (or was never started).
LaunchReports(o, outpost, ok, zero) ==
    IF o.listener.outpost = outpost THEN ListenerLaunched(o, ok)
    ELSE IF outpost \in DOMAIN o.spares THEN SpareLaunched(o, outpost, ok, zero)
    ELSE IF PidsOf(o, outpost) # {} THEN OutpostLaunched(o, PidOf(o, outpost), ok, zero)
    ELSE RetireChild(o, ok)

SourceOf(o, outpost) ==
    IF o.listener.outpost = outpost THEN "Listener"
    ELSE IF PidsOf(o, outpost) # {} THEN "Outpost" ELSE "Spare"

OnLaunched(o, outpost, ok, read, zero) ==
    LET reported == [o EXCEPT !.launches = @ \ {outpost},
                              !.readers  = IF ok /\ read
                                           THEN With(@, outpost, SourceOf(o, outpost)) ELSE @]
        launched == LaunchReports(reported, outpost, ok, zero)
        ended    == IF ok /\ ~read THEN OnPipeClosed(launched, outpost, zero) ELSE launched
    IN  IF ended.idle.at = "Launches" THEN QueryOutposts(ended, ended.idle.round) ELSE ended

-----------------------------------------------------------------------------
(***************************************************************************)
(* An outpost is ready: its held facts, then the idle query it owes an     *)
(* answer, then the hand-over.                                             *)
(***************************************************************************)
Release(r) ==
    [r EXCEPT !.pipe = [i \in DOMAIN r.held |-> [kind |-> "Fact", n |-> r.held[i].n]]
                       \o (IF r.idle = 0 THEN <<>> ELSE <<[kind |-> "Idle", n |-> r.idle]>>),
              !.held = <<>>, !.idle = 0]

OnReady(o, pid) ==
    LET r    == o.records[pid]
        step == Ready(r.gen, pid)
        p    == SetRecord(o, pid, Release([r EXCEPT !.gen = step.gen]))
    IN  Apply(IF pid = Own THEN KeepSpares(p) ELSE p, step.notices)

RouteFact(o, fact, pid, opens) ==
    LET r     == o.records[pid]
        ended == IF fact.kind = "Foreground" /\ pid \in Watched(o) /\ r.due
                 THEN Incarnate(SetRecord(o, pid, [r EXCEPT !.due = FALSE]), pid) ELSE o
    IN  IF pid \in Watched(o)
        THEN [ended EXCEPT !.records[pid] = Deliver(@, fact)]
        ELSE IF MayStartOutpost(fact.kind) THEN StartOutpost(o, pid, opens, <<fact>>) ELSE o

(***************************************************************************)
(* Verbatim exits: what runs or waits for a backoff is ended now, what is  *)
(* launching when its launch reports.                                      *)
(***************************************************************************)

\* Mutant: what waits for a backoff is kept.
EndedRunning(o) == {pid \in Watched(o) : HasChild(o.records[pid].gen)}

EndedNow(o) == {pid \in Watched(o) : HasChild(o.records[pid].gen) \/ o.records[pid].due}

ShutDownAll(o) ==
    LET now    == EndedNow(o)
        up     == {id \in DOMAIN o.spares : o.spares[id] = "Running"}
        told   == TellListener(o, [i \in 1..Cardinality(now) |-> HookRemoved(SetToSortSeq(now, <)[i])])
        closed == [told EXCEPT
                     !.exit     = "Asked",
                     !.records  = [pid \in DOMAIN @ \ now |-> @[pid]],
                     !.spares   = [id \in DOMAIN @ \ up |-> @[id]],
                     !.retiring = @ + Cardinality(up)
                                    + Cardinality({p \in now : HasChild(o.records[p].gen)})]
    IN  IF o.listener.stage = "Running" THEN EndListener(closed) ELSE closed

-----------------------------------------------------------------------------
(***************************************************************************)
(* The events.  Room bounds the ids: the largest handler takes SPARES + 1. *)
(***************************************************************************)
May(fault) == IF fault \in Faults THEN BOOLEAN ELSE {FALSE}

Room == owner.generation + SPARES + 1 <= MaxId \/ ShuttingDown(owner)

Going == owner.exit # "Done"
Serving == owner.exit = "No"

\* The supervisor starts with the listener; a mailbox event starts outposts.
Init ==
    /\ owner = StartListener(New, FALSE)
    /\ exited = {}

EnsureSpawned(pid) ==
    /\ Going /\ Room
    /\ \E shut \in May("open") :
         owner' = IF Serving /\ pid \notin Watched(owner)
                  THEN StartOutpost(owner, pid, ~shut, <<>>) ELSE owner
    /\ UNCHANGED exited

Fact(pid) ==
    /\ Serving /\ Room /\ owner.facts < MaxFacts
    /\ \E id \in DOMAIN owner.readers : owner.readers[id] = "Listener"
    /\ \E kind \in Kinds, shut \in May("open") :
         owner' = RouteFact([owner EXCEPT !.facts = @ + 1],
                            [n |-> owner.facts + 1, kind |-> kind], pid, ~shut)
    /\ UNCHANGED exited

LaunchedEvent(outpost) ==
    /\ Going /\ outpost \in owner.launches
    /\ \E fails \in May("launch"), unread \in May("unread"), zero \in BOOLEAN :
         /\ fails \/ unread => Room
         /\ owner' = OnLaunched(owner, outpost, ~fails, ~unread, zero)
    /\ UNCHANGED exited

\* A child's pipe ends: it crashed, or it was ended.
PipeEnds(outpost) ==
    /\ Going /\ Room /\ outpost \in DOMAIN owner.readers
    /\ CASE outpost = owner.listener.outpost -> "listener" \in Faults
         [] outpost \in DOMAIN owner.spares \/ PidsOf(owner, outpost) # {} -> "crash" \in Faults
         [] OTHER -> TRUE
    /\ \E zero \in BOOLEAN :
         owner' = OnPipeClosed([owner EXCEPT !.readers = Without(@, outpost)], outpost, zero)
    /\ UNCHANGED exited

\* The app could not decode a message of a generation's: its pipe goes on.
Unreadable(outpost) ==
    /\ Going /\ Room
    /\ \E zero \in BOOLEAN : owner' = OnPipeClosed(owner, outpost, zero)
    /\ UNCHANGED exited

\* A given outpost says Ready, once; one read as a spare is not heard.
OutpostReady(pid) ==
    /\ Going /\ Room /\ pid \in Watched(owner)
    /\ owner.records[pid].gen.stage = "Starting"
    /\ owner.records[pid].told
    /\ LET id == Current(owner, pid)
       IN  /\ id \in DOMAIN owner.readers /\ owner.readers[id] = "Outpost"
           /\ owner' = OnReady(Send(owner, <<Notice("App", "Ready", pid, id)>>), pid)
    /\ UNCHANGED exited

\* A ready outpost handles the next of what was written to it.
OutpostHandles(pid) ==
    /\ Going /\ pid \in Watched(owner) /\ owner.records[pid].pipe # <<>>
    /\ LET next == Head(owner.records[pid].pipe)
           took == [owner EXCEPT !.records[pid].pipe = Tail(@)]
       IN  owner' = IF next.kind = "Fact" THEN took
                    ELSE Send(took, <<[Notice("App", "IdleAnswer", pid, Current(owner, pid))
                                         EXCEPT !.next = next.n]>>)
    /\ UNCHANGED exited

\* A running outpost sees its application exit.
OutpostSeesExit(pid) ==
    /\ Going /\ Room /\ pid \in Watched(owner) \cap exited
    /\ HasChild(owner.records[pid].gen)
    /\ owner' = TargetExited(owner, pid)
    /\ UNCHANGED exited

\* The listener says Ready, once.
ListenerReady ==
    /\ Serving /\ owner.listener.stage = "Running" /\ ~owner.listener.ready
    /\ owner' = Send([owner EXCEPT !.listener.ready = TRUE],
                     <<[say |-> "ListenerReady", replacement |-> owner.listener.replacement]>>)
    /\ UNCHANGED exited

\* The listener reads its next command; an idle query it answers, and its
\* answer asks the outposts when it is of the round that waits for it.
HooksAfter(hooks, command) ==
    LET others == {h \in hooks : h[1] # command.pid}
    IN  IF command.say = "HookInstalled" THEN others \cup {<<command.pid, command.outpost>>}
        ELSE others

ListenerReads ==
    /\ Going /\ owner.listener.stage = "Running" /\ owner.listener.queue # <<>>
    /\ LET command == Head(owner.listener.queue)
           took == [owner EXCEPT !.listener.queue = Tail(@)]
       IN  owner' = IF command.say # "IdleQuery"
                    THEN [took EXCEPT !.listener.hooks = HooksAfter(@, command)]
                    ELSE IF owner.idle = [at |-> "Listener", round |-> command.round]
                    THEN QueryOutposts(took, command.round) ELSE took
    /\ UNCHANGED exited

\* The heartbeat: a child whose application exited, a wedged child, spare or
\* listener; and a listener whose launch failed is started again.
HeartbeatExited(pid) ==
    /\ Serving /\ Room /\ pid \in Watched(owner)
    /\ HasChild(owner.records[pid].gen) /\ HasExited(owner, pid)
    /\ owner' = TargetExited(owner, pid)
    /\ UNCHANGED exited

HeartbeatWedged(pid) ==
    /\ "wedge" \in Faults /\ Serving /\ Room /\ pid \in Watched(owner)
    /\ HasChild(owner.records[pid].gen) /\ ~HasExited(owner, pid)
    /\ \E zero \in BOOLEAN : owner' = OutpostFailed(owner, pid, zero)
    /\ UNCHANGED exited

HeartbeatSpare(spare) ==
    /\ "wedge" \in Faults /\ Serving /\ Room /\ spare \in DOMAIN owner.spares /\ owner.spares[spare] = "Running"
    /\ \E zero \in BOOLEAN :
         LET gone == RetireChild(RemoveSpare(owner, spare), TRUE)
         IN  owner' = IF Contains(owner.waiting, spare) THEN SpareFailed(gone, zero) ELSE gone
    /\ UNCHANGED exited

HeartbeatListener ==
    /\ Serving /\ Room
    /\ \/ owner.listener.stage = "None" /\ owner' = StartListener(owner, TRUE)
       \/ "listener" \in Faults /\ owner.listener.stage = "Running" /\ owner' = ReplaceListener(owner)
    /\ UNCHANGED exited

\* The sweep: an idle application's outpost is retired, an application that
\* exited during a backoff is let go, and so is one no record holds.
SweepRetires(pid) ==
    /\ "retire" \in Faults /\ Serving /\ Room /\ pid \in Watched(owner) \ {Own}
    /\ HasChild(owner.records[pid].gen)
    /\ owner' = ReleaseTarget(EndBecause(owner, pid), pid)
    /\ UNCHANGED exited

SweepGone(pid) ==
    /\ Serving /\ Room /\ pid \in Watched(owner)
    /\ owner.records[pid].due /\ HasExited(owner, pid)
    /\ owner' = TargetExited(owner, pid)
    /\ UNCHANGED exited

SweepForgets(pid) ==
    /\ Serving /\ pid \in owner.apps \ Watched(owner) /\ pid \in exited
    /\ owner' = ForgetApp(owner, pid)
    /\ UNCHANGED exited

\* A backoff's time has come.
StartDue(pid) ==
    /\ Serving /\ Room /\ pid \in Watched(owner) /\ owner.records[pid].due
    /\ LET o == [owner EXCEPT !.records[pid].due = FALSE]
       IN  owner' = IF HasExited(o, pid) THEN TargetExited(o, pid) ELSE Incarnate(o, pid)
    /\ UNCHANGED exited

StartDueSpares ==
    /\ Serving /\ Room /\ owner.spareDue
    /\ owner' = ReplenishSpares([owner EXCEPT !.spareDue = FALSE])
    /\ UNCHANGED exited

IdleRound(round) ==
    /\ Going
    /\ \E unwritten \in May("write") : owner' = QueryListener(owner, round, ~unwritten)
    /\ UNCHANGED exited

Shutdown ==
    /\ Serving
    /\ owner' = ShutDownAll(owner)
    /\ UNCHANGED exited

Retired ==
    /\ Going /\ owner.retiring > 0
    /\ owner' = [owner EXCEPT !.retiring = @ - 1]
    /\ UNCHANGED exited

CanFinish ==
    /\ owner.exit = "Asked"
    /\ DOMAIN owner.records = {} /\ DOMAIN owner.spares = {} /\ DOMAIN owner.readers = {}
    /\ owner.listener.stage = "None" /\ owner.retiring = 0

FinishShutdown ==
    /\ CanFinish
    /\ owner' = [owner EXCEPT !.exit = "Done"]
    /\ UNCHANGED exited

\* An application exits; its id is given to a new one only once the owner
\* no longer holds its process open.
AppExits(pid) ==
    /\ "exit" \in Faults
    /\ pid \notin exited \cup {Own}
    /\ exited' = exited \cup {pid} /\ UNCHANGED owner
AppStarts(pid) ==
    /\ pid \in exited /\ pid \notin owner.apps
    /\ exited' = exited \ {pid} /\ UNCHANGED owner

\* The app takes the next message from its port.
Taken == owner.out # <<>> /\ owner' = [owner EXCEPT !.out = Tail(@)] /\ UNCHANGED exited

-----------------------------------------------------------------------------
(***************************************************************************)
(* What the owner keeps.                                                   *)
(***************************************************************************)
Hooks == Apps \X Nat
IdleStages == [at : {"None", "Listener", "Launches"}, round : Nat]

\* Every field of the owner is of its type in the code.
OwnerTypeOK ==
    /\ owner.generation \in 0..MaxId /\ owner.facts \in Nat /\ owner.retiring \in Nat
    /\ Watched(owner) \subseteq Apps /\ owner.apps \subseteq Apps /\ exited \subseteq Apps
    /\ \A pid \in Watched(owner) : owner.records[pid] \in Records
    /\ owner.listener.stage \in {"None", "Launching", "Running"}
    /\ owner.listener.hooks \subseteq Hooks
    /\ owner.kept \in BOOLEAN /\ owner.spareDue \in BOOLEAN
    /\ owner.waiting \in Seq(1..MaxId)
    /\ DOMAIN owner.spares \subseteq 1..MaxId /\ owner.launches \subseteq 1..MaxId
    /\ \A id \in DOMAIN owner.readers : owner.readers[id] \in {"Listener", "Outpost", "Spare"}
    /\ owner.idle \in IdleStages /\ owner.exit \in {"No", "Asked", "Done"}

\* A record without a generation is waiting for a backoff, and only such a
\* record is: one that waited for nothing would never be given a generation
\* (owner.rs, start_due) nor be ended at exit (shut_down_all).
WaitsForBackoff ==
    \A pid \in Watched(owner) :
        owner.records[pid].gen.stage = "Waiting" <=> owner.records[pid].due

\* The children a record says are being launched, and those it says run.
LaunchingIds ==
    {id \in DOMAIN owner.spares : owner.spares[id] = "Launching"}
    \cup {Current(owner, pid) : pid \in {p \in Watched(owner) : IsLaunching(owner.records[p].gen)}}
    \cup (IF owner.listener.stage = "Launching" THEN {owner.listener.outpost} ELSE {})

RunningAs(source) ==
    CASE source = "Spare"    -> {id \in DOMAIN owner.spares : owner.spares[id] = "Running"}
      [] source = "Outpost"  -> {Current(owner, pid) :
                                   pid \in {p \in Watched(owner) : HasChild(owner.records[p].gen)}}
      [] source = "Listener" -> IF owner.listener.stage = "Running" THEN {owner.listener.outpost} ELSE {}

\* Every launch at work is for a record, a waiting spare or the listener, and
\* each of those that is launching has its launch at work: no child is ever
\* launched that nothing wants (outpost_launched: "unreachable while records
\* are only ended once their launch has reported").
LaunchesAreWanted == owner.exit # "Done" => owner.launches = LaunchingIds

\* Every running child's pipe is read, as what the child now is, and every
\* outpost knows its application: a spare given before or after its launch
\* reported is sent its Assign and read as its application's, or its Ready
\* would never come or be dropped (assign, on_launched, spare_frame).
ReadAsWhatItIs ==
    /\ \A pid \in Watched(owner) :
          HasChild(owner.records[pid].gen) => owner.records[pid].told
    /\ \A source \in {"Spare", "Outpost", "Listener"} : \A id \in RunningAs(source) :
          id \in DOMAIN owner.readers /\ owner.readers[id] = source

\* A spare is waiting or given, never both, and spares are given in the order
\* of their ids, so that the newest generation of an application is the one
\* with the greatest id (live.rs, of).
SparesInOrder ==
    /\ ShuttingDown(owner) \/ ToSet(owner.waiting) = DOMAIN owner.spares
    /\ Len(owner.waiting) <= SPARES
    /\ \A i, j \in DOMAIN owner.waiting : i < j => owner.waiting[i] < owner.waiting[j]
    /\ \A pid \in Watched(owner), i \in DOMAIN owner.waiting :
          owner.records[pid].gen.outpost < owner.waiting[i]

\* While spares are kept and no failure's backoff runs, as many wait as are to.
SparesAreKept ==
    owner.kept /\ ~owner.spareDue /\ ~ShuttingDown(owner) => Len(owner.waiting) = SPARES

\* The listener's table of the hooks in, once it has read what was sent to it,
\* is the owner's: across its launch, whose arguments are a snapshot, its
\* replacement, and outposts that come and go meanwhile (hooks_in, pending).
HooksAgree ==
    owner.listener.stage # "None" /\ Serving =>
        FoldLeft(LAMBDA hooks, c : IF c.say = "IdleQuery" THEN hooks ELSE HooksAfter(hooks, c),
                 owner.listener.hooks, owner.listener.queue) = HooksIn(owner)

\* What an outpost is sent, and what is held for it, is in the order it was
\* routed in, and only an outpost that is not ready has facts held.
FactsInOrder ==
    \A pid \in Watched(owner) :
        LET r     == owner.records[pid]
            facts == SelectSeq(r.pipe, LAMBDA w : w.kind = "Fact")
        IN  /\ \A i, j \in DOMAIN r.held : i < j => r.held[i].n < r.held[j].n
            /\ \A i, j \in DOMAIN facts : i < j => facts[i].n < facts[j].n
            /\ IF IsReady(r.gen) THEN r.held = <<>> ELSE r.pipe = <<>>

\* A fact held for an application is never lost while its record stays: it
\* stays held through every failure before a Ready, unless a newer one of its
\* key takes its place, and is written to the outpost that becomes ready.
HeldFactKept(r, s, f) ==
    \/ \E i \in DOMAIN s.held : s.held[i] = f
    \/ \E i \in DOMAIN s.pipe : s.pipe[i] = [kind |-> "Fact", n |-> f.n]
    \/ HasKey(f.kind) /\ \E i \in DOMAIN s.held : s.held[i].kind = f.kind /\ s.held[i].n > f.n
HeldFactsKept ==
    [][\A pid \in Watched(owner) \cap DOMAIN owner'.records :
          \A i \in DOMAIN owner.records[pid].held :
             HeldFactKept(owner.records[pid], owner'.records[pid], owner.records[pid].held[i])]_vars

\* Nothing is launched once Verbatim is exiting.
NoLaunchExiting == [][ShuttingDown(owner) => owner'.launches \subseteq owner.launches]_vars

=============================================================================
