------------------------------ MODULE HandOver ------------------------------
(* How an application's WinEvents pass from the focus listener to the hook *)
(* of the application's own outpost.  Both hooks may take one event while   *)
(* the outpost's goes in; the listener is told, names the tick it forwards  *)
(* through, and the outpost holds its hook's stream until then.  The        *)
(* supervisor relays between them, holds facts while the outpost starts,    *)
(* replaces a listener that ends, and gives the application a new outpost   *)
(* when one fails.                                                          *)
(*                                                                          *)
(* One application, whose events are each of another object, so that none   *)
(* is coalesced with another.                                               *)
EXTENDS Integers, Sequences, SequencesExt, FiniteSets

CONSTANT
    Scenarios       \* how many events and ticks there are, listeners that end or
                    \* fail to launch, and outposts that fail

VARIABLES
    clock,      \* the event clock's tick
    events,     \* every event raised, in order: its tick, whether only the
                \* outpost's hook takes its kind, and whether a listener heard it
    listener,   \* the focus listener's process and the supervisor's record of it
    old,        \* what a listener ended as stuck still writes
    record,     \* the supervisor's record of the application
    outpost,    \* the outpost's process
    left        \* how much of the scenario is still to come

vars == <<clock, events, listener, old, record, outpost, left>>

Unset == -1     \* no tick

Fact(e, l) == [type |-> "fact", event |-> e, by |-> l]

Ended(g, t, l) == [type |-> "ended", gen |-> g, through |-> t, by |-> l]

ReadsEnded == [type |-> "reads"]

HookInstalled(g) == [type |-> "installed", gen |-> g]

HookRemoved == [type |-> "removed"]

Time(e) == events[e].time

(* A listener whose hook is in, that has been told nothing.  Its number     *)
(* tells one listener's messages from another's.                            *)
NewListener(l, hooksIn) ==
    [number |-> l, state |-> "launching", hooksIn |-> hooksIn,
     commands |-> <<>>, queue |-> <<>>, hooked |-> Unset,
     facts |-> <<>>, pipe |-> <<>>]

NewOutpost ==
    [hookIn |-> FALSE, from |-> 0, queue |-> <<>>, inbox |-> <<>>,
     hold |-> "unhooked", held |-> <<>>, newest |-> Unset, log |-> <<>>]

Init ==
    /\ clock = 1
    /\ events = <<>>
    /\ listener = [NewListener(1, {}) EXCEPT !.state = "running"]
    /\ old = <<>>
    /\ record = [phase |-> "none", gen |-> 1, held |-> <<>>]
    /\ outpost = NewOutpost
    /\ left \in Scenarios

----------------------------------------------------------------------------
(* Windows and the application *)

Tick ==
    /\ left.ticks > 0
    /\ left' = [left EXCEPT !.ticks = @ - 1]
    /\ clock' = clock + 1
    /\ UNCHANGED <<events, listener, old, record, outpost>>

(* Windows hands an event to every hook in as it is raised; each hook's     *)
(* thread takes it later.  The listener's hook takes only the kinds it      *)
(* forwards: focus, foreground, menu opening, alert and tooltip.            *)
Raise(own) ==
    /\ left.events > 0
    /\ left' = [left EXCEPT !.events = @ - 1]
    /\ LET e == Len(events) + 1
           heard == listener.state = "running" /\ ~own
       IN
       /\ events' = Append(events, [time |-> clock, own |-> own, heard |-> heard])
       /\ listener' =
            IF heard
            THEN [listener EXCEPT !.queue = Append(@, e)]
            ELSE listener
       /\ outpost' =
            IF outpost.hookIn
            THEN [outpost EXCEPT !.queue = Append(@, e)]
            ELSE outpost
    /\ UNCHANGED <<clock, old, record>>

----------------------------------------------------------------------------
(* The listener *)

(* A fact is dropped when it was raised after the tick "forwarding ended"   *)
(* named, judged under the lock that queues that message.                   *)
ForwardedNow(l, e) == l.hooked = Unset \/ Time(e) <= l.hooked

ListenerTakes ==
    /\ listener.state = "running"
    /\ listener.queue # <<>>
    /\ LET e == Head(listener.queue) IN
       listener' =
         [listener EXCEPT
            !.queue = Tail(@),
            !.facts = IF ForwardedNow(listener, e)
                      THEN Append(@, Fact(e, listener.number))
                      ELSE @]
    /\ UNCHANGED <<clock, events, old, record, outpost, left>>

(* None of the application's events raised after `through` is forwarded     *)
(* from now on, and "forwarding ended" waits behind every fact.             *)
hook_installed(l, g, through) ==
    [l EXCEPT !.hooked = through,
              !.facts = Append(@, Ended(g, through, l.number))]

ListenerTold ==
    /\ listener.state = "running"
    /\ listener.commands # <<>>
    /\ LET command == Head(listener.commands)
           l == [listener EXCEPT !.commands = Tail(@)]
       IN listener' =
            IF command.type = "installed"
            THEN hook_installed(l, command.gen, clock)
            ELSE [l EXCEPT !.hooked = Unset]
    /\ UNCHANGED <<clock, events, old, record, outpost, left>>

ListenerWrites ==
    /\ listener.state = "running"
    /\ listener.facts # <<>>
    /\ listener' = [listener EXCEPT !.pipe = Append(@, Head(listener.facts)),
                                    !.facts = Tail(@)]
    /\ UNCHANGED <<clock, events, old, record, outpost, left>>

(* A replacement knows from its command line whose hooks are in.  It reads  *)
(* the tick before its own hook, ends each hand-over at the tick before     *)
(* that, and only then puts its hook in.                                    *)
ListenerStarts ==
    /\ listener.state = "launching"
    /\ LET l == [listener EXCEPT !.state = "running"] IN
       listener' = IF l.hooksIn = {} THEN l
                   ELSE hook_installed(l, CHOOSE g \in l.hooksIn : TRUE, clock - 1)
    /\ UNCHANGED <<clock, events, old, record, outpost, left>>

----------------------------------------------------------------------------
(* The supervisor *)

(* Where the record's outpost takes a message: its writer when it is        *)
(* ready, the held facts while it starts or is waited for.                  *)
Delivers(m) ==
    IF record.phase = "ready"
    THEN /\ outpost' = [outpost EXCEPT !.inbox = Append(@, m)]
         /\ record' = record
    ELSE /\ record' = [record EXCEPT !.held = Append(@, m)]
         /\ outpost' = outpost

(* A fact for an application with no outpost starts one. *)
route_fact(m) ==
    IF record.phase = "none"
    THEN /\ record' = [record EXCEPT !.phase = "starting", !.held = <<m>>]
         /\ outpost' = outpost
    ELSE Delivers(m)

forwarding_ended(m) ==
    /\ outpost' = IF record.phase = "ready" /\ record.gen = m.gen
                  THEN [outpost EXCEPT !.inbox = Append(@, m)]
                  ELSE outpost
    /\ record' = record

RouteMessage(m) == IF m.type = "fact" THEN route_fact(m) ELSE forwarding_ended(m)

Relay ==
    /\ listener.pipe # <<>>
    /\ RouteMessage(Head(listener.pipe))
    /\ listener' = [listener EXCEPT !.pipe = Tail(@)]
    /\ UNCHANGED <<clock, events, old, left>>

(* No message is refused for coming from a listener already replaced. *)
RelayOld ==
    /\ old # <<>>
    /\ RouteMessage(Head(old))
    /\ old' = Tail(old)
    /\ UNCHANGED <<clock, events, listener, left>>

(* Mutant: what a listener still launching is told is not kept for it. *)
tell_listener_running(command) ==
    IF listener.state # "running" THEN listener
    ELSE [listener EXCEPT !.commands = Append(@, command)]

tell_listener(command) ==
    IF listener.state = "gone" THEN listener
    ELSE [listener EXCEPT !.commands = Append(@, command)]

Ready ==
    /\ record.phase = "starting"
    /\ outpost.hookIn
    /\ record' = [record EXCEPT !.phase = "ready", !.held = <<>>]
    /\ outpost' = [outpost EXCEPT !.inbox = @ \o record.held]
    /\ listener' = tell_listener(HookInstalled(record.gen))
    /\ UNCHANGED <<clock, events, old, left>>

hooks_in == IF record.phase = "ready" THEN {record.gen} ELSE {}

start_listener == NewListener(listener.number + 1, hooks_in)

focus_reads_ended ==
    IF record.phase = "none" THEN UNCHANGED <<record, outpost>>
    ELSE Delivers(ReadsEnded)

(* The listener's process ends: what it had not written goes with it. *)
ListenerCrashes ==
    /\ left.losses > 0
    /\ listener.state = "running"
    /\ listener' = [listener EXCEPT !.state = "crashed", !.commands = <<>>,
                                    !.queue = <<>>, !.facts = <<>>]
    /\ left' = [left EXCEPT !.losses = @ - 1]
    /\ UNCHANGED <<clock, events, old, record, outpost>>

(* Its pipe's end is read behind everything it wrote. *)
PipeClosed ==
    /\ listener.state = "crashed"
    /\ listener.pipe = <<>>
    /\ focus_reads_ended
    /\ listener' = start_listener
    /\ UNCHANGED <<clock, events, old, left>>

(* The heartbeat ends a listener that stopped answering pings: it is        *)
(* replaced at once, and what it wrote, and writes as it shuts down, is     *)
(* still read.                                                              *)
ListenerWedged ==
    /\ left.losses > 0
    /\ listener.state = "running"
    /\ old = <<>>
    /\ \E n \in 0..Len(listener.facts) :
         old' = listener.pipe \o SubSeq(listener.facts, 1, n)
    /\ focus_reads_ended
    /\ listener' = start_listener
    /\ left' = [left EXCEPT !.losses = @ - 1]
    /\ UNCHANGED <<clock, events>>

ListenerLaunchFails ==
    /\ left.losses > 0
    /\ listener.state = "launching"
    /\ listener' = [listener EXCEPT !.state = "gone", !.commands = <<>>]
    /\ left' = [left EXCEPT !.losses = @ - 1]
    /\ UNCHANGED <<clock, events, old, record, outpost>>

(* The next heartbeat launches another. *)
ListenerRetried ==
    /\ listener.state = "gone"
    /\ listener' = start_listener
    /\ UNCHANGED <<clock, events, old, record, outpost, left>>

(* A ready outpost's hook goes with it, and the listener is told. *)
outpost_failed ==
    /\ left.failures > 0
    /\ record.phase \in {"starting", "ready"}
    /\ record' = [record EXCEPT !.phase = "waiting", !.gen = @ + 1]
    /\ listener' = IF record.phase = "ready" THEN tell_listener(HookRemoved)
                   ELSE listener
    /\ outpost' = NewOutpost
    /\ left' = [left EXCEPT !.failures = @ - 1]
    /\ UNCHANGED <<clock, events, old>>

incarnate ==
    /\ record.phase = "waiting"
    /\ record' = [record EXCEPT !.phase = "starting"]
    /\ UNCHANGED <<clock, events, listener, old, outpost, left>>

----------------------------------------------------------------------------
(* The outpost *)

(* The reducer is told first, so that it holds every copy the hook takes. *)
Assign ==
    /\ record.phase = "starting"
    /\ ~outpost.hookIn
    /\ outpost' = [outpost EXCEPT !.hookIn = TRUE, !.from = Len(events),
                                  !.hold = "holding"]
    /\ UNCHANGED <<clock, events, listener, old, record, left>>

(* A copy handled: the listener's of that number, the hook's as it came, or *)
(* the hook's released from the hold.                                       *)
Handled(e, by) == [type |-> "handled", event |-> e, by |-> by]

AsItCame == 0

Released == -1

hooked_copy(o, e) ==
    IF o.hold = "holding" THEN [o EXCEPT !.held = Append(@, e)]
    ELSE [o EXCEPT !.log = Append(@, Handled(e, AsItCame))]

listener_copy(o, m) ==
    [o EXCEPT
       !.newest = IF o.hold = "holding" /\ Time(m.event) > @
                  THEN Time(m.event) ELSE @,
       !.log = Append(@, Handled(m.event, m.by))]

(* Mutant: a copy raised in the tick named is released too. *)
KeptAtTick(e, through) == events[e].own \/ Time(e) >= through

(* A copy the release keeps: of a kind the listener does not forward, or    *)
(* raised after `through`.  Unset is before every tick.                     *)
Kept(e, through) == events[e].own \/ Time(e) > through

(* The copies kept are handled as one batch, in the hook's order.  The      *)
(* message stays in the log, between what came before it and after.         *)
release(o, through, m) ==
    IF o.hold # "holding" THEN [o EXCEPT !.log = Append(@, m)]
    ELSE LET rest == SelectSeq(o.held, LAMBDA e : Kept(e, through)) IN
         [o EXCEPT !.hold = "over", !.held = <<>>,
                   !.log = Append(@, m)
                           \o [i \in DOMAIN rest |-> Handled(rest[i], Released)]]

Takes(o, m) ==
    CASE m.type = "fact"  -> listener_copy(o, m)
      [] m.type = "ended" -> release(o, m.through, m)
      [] m.type = "reads" -> release(o, o.newest, m)

OutpostTakesCopy ==
    /\ outpost.queue # <<>>
    /\ outpost' = hooked_copy([outpost EXCEPT !.queue = Tail(@)],
                              Head(outpost.queue))
    /\ UNCHANGED <<clock, events, listener, old, record, left>>

OutpostTakesMessage ==
    /\ outpost.inbox # <<>>
    /\ outpost' = Takes([outpost EXCEPT !.inbox = Tail(@)], Head(outpost.inbox))
    /\ UNCHANGED <<clock, events, listener, old, record, left>>

----------------------------------------------------------------------------

(* The threads of the listener, the supervisor and the outpost. *)
Step ==
    \/ ListenerTakes
    \/ ListenerTold
    \/ ListenerWrites
    \/ ListenerStarts
    \/ Relay
    \/ RelayOld
    \/ Ready
    \/ PipeClosed
    \/ ListenerRetried
    \/ incarnate
    \/ Assign
    \/ OutpostTakesCopy
    \/ OutpostTakesMessage

Fault ==
    \/ ListenerCrashes
    \/ ListenerWedged
    \/ ListenerLaunchFails
    \/ outpost_failed

Next ==
    \/ Tick
    \/ \E own \in BOOLEAN : Raise(own)
    \/ Step
    \/ Fault

Spec == Init /\ [][Next]_vars

(* The threads that can step do; nothing obliges the application to raise   *)
(* an event, the clock to tick or a process to fail.                        *)
Fairness == WF_vars(Step)

----------------------------------------------------------------------------

Events == DOMAIN events

Entries(P(_)) == {i \in DOMAIN outpost.log : P(outpost.log[i])}

(* Where the log of the outpost in charge handles an event's copies: those  *)
(* of its hook, and the listener's.                                         *)
HookCopies == Entries(LAMBDA m : m.type = "handled" /\ m.by <= AsItCame)

ListenerCopies == Entries(LAMBDA m : m.type = "handled" /\ m.by > AsItCame)

Event(i) == outpost.log[i].event

(* An event some copy of which is still on its way to the outpost. *)
Coming(e) ==
    \/ e \in Range(listener.queue) \cup Range(outpost.queue) \cup Range(outpost.held)
    \/ \E s \in {listener.facts, listener.pipe, old, record.held, outpost.inbox} :
         \E m \in Range(s) : m.type = "fact" /\ m.event = e

(* The listener running, or the next. *)
Living == listener.number + (IF listener.state = "crashed" THEN 1 ELSE 0)

Lost(e) ==
    /\ ~Coming(e)
    /\ \A i \in HookCopies \cup ListenerCopies : Event(i) # e

(* An event the listener's copy of which was handled while the hold lasted  *)
(* is not handled again from the hold: the release drops every copy raised  *)
(* at or before the newest the listener can have forwarded.                 *)
ReleasedOnce ==
    \A i \in ListenerCopies : \A j \in HookCopies :
        i < j /\ outpost.log[j].by = Released => Event(i) # Event(j)

(* The hook's copies are handled in the order Windows raised the events,    *)
(* each once, those of kinds the listener does not forward among them: the  *)
(* hold keeps the whole stream back, so a caret change never passes a focus *)
(* raised before it.                                                        *)
HookOrder ==
    \A i, j \in HookCopies : i < j => Event(i) < Event(j)

(* An event the outpost's own hook took is handled, from that copy or from  *)
(* the listener's, though listeners end during the hand-over.  Three can be *)
(* lost, all of kinds the listener forwards: one raised while no listener   *)
(* had a hook in, which the release takes as forwarded; one raised in the   *)
(* very tick of a copy its listener forwarded before it ended; and one      *)
(* whose copy a listener still had, when it ended, behind its "forwarding   *)
(* ended".                                                                  *)
TakenIsHandled ==
    outpost.hookIn /\ record.gen = 1 =>
        \A e \in outpost.from + 1 .. Len(events) :
            Lost(e) /\ events[e].heard =>
                \/ \E i \in ListenerCopies :
                     Time(Event(i)) = Time(e) /\ outpost.log[i].by < Living
                \/ \E i \in DOMAIN outpost.log :
                     LET m == outpost.log[i] IN
                     m.type = "ended" /\ Time(e) <= m.through /\ m.by < Living

(* An event of a kind only the outpost's hook takes is handled by the       *)
(* outpost whose hook took it, whoever fails: no release drops one.         *)
OwnIsHandled ==
    outpost.hookIn =>
        \A e \in outpost.from + 1 .. Len(events) :
            events[e].own => ~Lost(e)

(* With no listener lost and no outpost failed, every event the listener's  *)
(* hook or the outpost's took is handled: an application's first events     *)
(* reach its outpost, though they were raised before it had a hook.         *)
NoneLost ==
    listener.number = 1 /\ listener.state = "running" /\ record.gen = 1 =>
        \A e \in Events : Lost(e) => events[e].own /\ (outpost.hookIn => e <= outpost.from)

(* The hold of an outpost is ended by the "forwarding ended" meant for it,  *)
(* never by one for an earlier outpost of the same application.             *)
EndedForItself ==
    \A i \in DOMAIN outpost.log :
        outpost.log[i].type = "ended" => outpost.log[i].gen = record.gen

(* The hold ends: whatever becomes of the listener, and whenever the        *)
(* outpost becomes ready, the hook's stream is released.                    *)
HoldEnds == outpost.hold = "holding" ~> outpost.hold # "holding"

(* The hand-over loses no event it need not, handles none of the hook's     *)
(* twice or out of order, and is ended for the outpost it is of.            *)
HandedOverWhole ==
    /\ NoneLost /\ TakenIsHandled /\ OwnIsHandled
    /\ ReleasedOnce /\ HookOrder /\ EndedForItself
============================================================================
