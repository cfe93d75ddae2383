--------------------------- MODULE MCSupervision ---------------------------
(* Instances of the supervisor and the app for TLC. *)
EXTENDS Supervision

(***************************************************************************)
(* Views.  While Verbatim does not exit, how many ended children are still *)
(* being retired and which of their pipes are still read decides nothing:  *)
(* no guard reads the count, and the end of such a pipe changes nothing    *)
(* else, but that an ended listener's unread facts are still routed.  And  *)
(* where the app asks for nothing, what it has yet to hear decides nothing *)
(* the owner does.  States that differ only there are one state.           *)
(***************************************************************************)
Ids == RunningAs("Spare") \cup RunningAs("Outpost") \cup RunningAs("Listener")
Settled == [owner EXCEPT !.retiring = 0,
                         !.readers = [id \in {i \in DOMAIN @ : i \in Ids \/ @[i] = "Listener"} |-> @[id]]]
Unheard(o) == [o EXCEPT !.out = <<>>]

Telling ==
    <<scenario, exited, mail,
      IF MayShutdown THEN Unheard(owner)
      ELSE IF MaxWants + MaxRounds > 0 THEN <<Settled, app>> ELSE Unheard(Settled)>>

-----------------------------------------------------------------------------
(* The scenarios: whose outposts there are and how many spares, the faults *)
(* met, and what the listener reports and the app asks for.                *)
Scenario(apps, spares, ids, faults) ==
    [apps |-> apps, spares |-> spares, ids |-> ids, faults |-> faults,
     facts |-> 0, kinds |-> {}, rounds |-> 0, wants |-> 0, exits |-> FALSE]
Reporting(s, facts, kinds) == [s EXCEPT !.facts = facts, !.kinds = kinds]

\* Two applications' outposts and a spare, every fault but the listener's.
Lives == [Scenario({1, 2}, 1, 5, AllFaults \ {"listener", "write"}) EXCEPT !.wants = 1]
\* Two spares.
Spares == Reporting(Scenario({1, 2}, 2, 7, {"launch", "crash"}), 1, {"Focus"})
\* The listener fails and is replaced while outposts come and go.
Listeners == Reporting(Scenario({1, 2}, 1, 7, {"crash", "listener"}), 1, {"Focus"})
\* Facts of every kind, held for outposts that fail.
Routed == Reporting(Scenario({1, 2}, 1, 5, {"launch", "crash"}), 3,
                    {"Foreground", "Focus", "Marker", "Dropped"})
\* Idle rounds against a fact: one while outposts come and go, and two while
\* everything they ask fails, with a spare and without.
Rounds(apps, spares, ids, rounds, faults) ==
    [Reporting(Scenario(apps, spares, ids, faults), 1, {"Focus"}) EXCEPT !.rounds = rounds]
Asking == {"crash", "launch", "listener", "write"}
\* Verbatim exits at any time.
Exits(ids, faults) ==
    [Reporting(Scenario({1, 2}, 1, ids, faults), 1, {"Focus"}) EXCEPT !.exits = TRUE]

Served == {Lives, Spares, Listeners, Routed,
           Rounds({1, 2}, 1, 5, 1, {"crash", "launch"}),
           Rounds({1, 2}, 1, 4, 2, Asking), Rounds({2}, 0, 3, 2, Asking),
           Exits(5, {"launch", "unread", "crash", "listener", "exit"})}
Exited == {Exits(4, {"launch", "unread", "listener"})}
\* One round and one application, which may exit.
OneRound == {Rounds({2}, 0, 4, 1, {"launch", "crash", "exit"})}
=============================================================================
