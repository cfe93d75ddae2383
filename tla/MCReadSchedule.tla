--------------------------- MODULE MCReadSchedule ---------------------------
(* Instances of the read scheduler for TLC. *)
EXTENDS ReadSchedule

VARIABLE world      \* what a behaviour may do of what the constants allow

(***************************************************************************)
(* Time without end in a finite state space.  Once the clock is at MaxTime *)
(* a tick shifts the times still to come back by one instead of moving the *)
(* clock.  A time that has passed stays as it is: the code only asks       *)
(* whether now has reached a time, so how long ago it passed cannot be     *)
(* told apart.  A start counts by its grace's end and the abandoned limit  *)
(* by the end of the wait it begins.                                       *)
(***************************************************************************)
Nearer(t) == IF t > now THEN t - 1 ELSE t
Since(t, length) == IF t # NoTime /\ t + length > now THEN t - 1 ELSE t

Rebase ==
    /\ now = MaxTime /\ MaxTime >= Deadline /\ MaxTime >= Grace
    /\ apps' = [p \in Pids |->
          [apps[p] EXCEPT
             !.limitReached = Since(@, Deadline),
             !.flight = [@ EXCEPT !.started = Since(@, Grace), !.deadline = Nearer(@),
                                  !.bound = Nearer(@), !.next = Nearer(@)]]]
    /\ alarmDue' = Nearer(alarmDue)
    /\ timer' = Nearer(timer)
    /\ UNCHANGED <<now, held, stopping, idleVars, signalled, events, records, watched,
                   threads, watchdog, alarmEvent, failed, asks>>

-----------------------------------------------------------------------------
(* Two applications; one whose threads are abandoned to the limit; one      *)
(* whose windows have to be found, and whose readers may be stopped.        *)
World(pids, most, windows, stops) ==
    [pids |-> pids, most |-> most, windows |-> windows, stops |-> stops]
Worlds ==
    LET one == CHOOSE p \in Pids : TRUE
    IN  {World(Pids, 2, {"Never"}, FALSE), World({one}, 3, {"Known"}, FALSE),
         World({one}, 2, {"Unknown"}, TRUE)}

Allowed ==
    /\ held' \subseteq world.pids
    /\ Len(events') <= world.most
    /\ \A p \in held' : \A e \in apps'[p].queue : e.window \in world.windows
    /\ stopping' => world.stops

MCInit == Init /\ world \in Worlds
MCNext == (Next \/ Rebase) /\ Allowed /\ UNCHANGED world

MCSpec == MCInit /\ [][MCNext]_<<vars, world>> /\ Fairness
=============================================================================
