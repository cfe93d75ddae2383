--------------------------- MODULE FocusOutcomes ---------------------------
(***************************************************************************)
(* What the focus listener promises of the UIA events it announces: every  *)
(* event has one outcome, sent once; an application's events have their    *)
(* outcomes in the order they came, except one a newer event of the same   *)
(* application replaces; and the idle waiters run in order, each once      *)
(* every event announced before it has its outcome.                        *)
(*                                                                         *)
(* Nothing here says how: there are no threads, reads, deadlines or        *)
(* alarms.  ReadSchedule implements it.                                    *)
(***************************************************************************)
EXTENDS Integers, Sequences, FiniteSets

CONSTANT Pids

VARIABLES
    events,     \* per marker: its application and its outcome
    idle,       \* the idle waiters in line
    ran,        \* the idle waiters run
    stopping    \* the listener is shutting down

vars == <<events, idle, ran, stopping>>

-----------------------------------------------------------------------------
(* A step, seen from outside: events is as it was, events' as it leaves it. *)

Settles(m) == events'[m].outcome # "owed"

\* The event m is answered, every earlier one of its application having its
\* outcome; at a shutdown an event that arrives is answered at once.
InItsTurn(m) ==
    /\ events'[m].outcome = "answered"
    /\ stopping \/ \A n \in 1..m : events'[n].pid = events'[m].pid => Settles(n)

\* The event m gives way to one of its application that arrives.
GivesWay(m) ==
    /\ events'[m].outcome = "replaced"
    /\ Len(events') > Len(events)
    /\ events'[Len(events')].pid = events[m].pid

Outcomes ==
    /\ Len(events') \in Len(events)..(Len(events) + 1)
    /\ \A m \in DOMAIN events :
       IF events[m].outcome # "owed" THEN events'[m] = events[m]
       ELSE /\ events'[m].pid = events[m].pid
            /\ Settles(m) => InItsTurn(m) \/ GivesWay(m)
    /\ \A m \in DOMAIN events' \ DOMAIN events :
       /\ events'[m].pid \in Pids
       /\ Settles(m) => InItsTurn(m)

\* The first n waiters of the line leave it and run.
Serve(line, n) ==
    /\ \A i \in 1..n, m \in DOMAIN events : m <= line[i].before => Settles(m)
    /\ idle' = SubSeq(line, n + 1, Len(line))
    /\ ran' = IF stopping THEN ran ELSE ran \union {line[i].waiter : i \in 1..n}

Joins == Append(idle, [before |-> Len(events), waiter |-> Cardinality(ran) + Len(idle) + 1])

-----------------------------------------------------------------------------
Init == events = <<>> /\ idle = <<>> /\ ran = {} /\ stopping = FALSE

Step == Outcomes /\ (\E n \in 0..Len(idle) : Serve(idle, n)) /\ UNCHANGED stopping

Join == ~stopping /\ (\E n \in 0..Len(Joins) : Serve(Joins, n)) /\ UNCHANGED <<events, stopping>>

Stop == stopping' = TRUE /\ UNCHANGED <<events, idle, ran>>

Next == Step \/ Join \/ Stop

Spec == Init /\ [][Next]_vars
=============================================================================
