------------------------------ MODULE MCRelay ------------------------------
(* Instances of the supervisor's relay to an outpost: the hand-over of an   *)
(* application's events to its own outpost's hook, and the writer each      *)
(* child's commands go through.  A behaviour works one of the two, the      *)
(* other having nothing to do.                                              *)
EXTENDS HandOver

VARIABLES todo, queue, sender, pipe, read, child, port, listing, thread, taken

writerVars == <<todo, queue, sender, pipe, read, child, port, listing, thread, taken>>

Letters(letters, capacity, own) ==
    [letters |-> letters, capacity |-> capacity, own |-> own, child |-> TRUE]

(* Held nodes' lists among commands of every class. *)
ListLetters ==
    << {"a", "handover"}, {"b", "leave"}, {"a", "leave", "other"},
       {"held", "leave"}, {"a", "idle"}, {"held", "leave", "ping"},
       {"other"}, {"shutdown"} >>

(* Facts of two keys and of none around idle queries. *)
FactLetters ==
    << {"a", "b"}, {"a", "none"}, {"idle", "b"}, {"a", "none"},
       {"b", "idle", "handover"}, {"a", "b"}, {"a", "ping"} >>

(* Commands, then a close, and commands that come too late. *)
CloseLetters ==
    << {"a", "ping", "close"}, {"leave", "other"}, {"b", "close"},
       {"none", "shutdown"}, {"close"} >>

NoLetters == [letters |-> <<>>, capacity |-> 1, own |-> FALSE, child |-> FALSE]

WriterScenarios ==
    {NoLetters, Letters(ListLetters, 2, FALSE), Letters(FactLetters, 2, FALSE),
     Letters(FactLetters, 8, FALSE), Letters(CloseLetters, 2, TRUE)}

Writer == INSTANCE Writer WITH Scenarios <- WriterScenarios, PipeRoom <- 2

Bounds(e, t, l, f) == [events |-> e, ticks |-> t, losses |-> l, failures |-> f]

NoEvents == Bounds(0, 0, 0, 0)

(* Events over several ticks; listeners lost, twice; an outpost that fails. *)
HandOverScenarios ==
    {NoEvents, Bounds(3, 2, 0, 0), Bounds(3, 1, 1, 0), Bounds(1, 1, 2, 0), Bounds(2, 1, 1, 1)}

MCInit ==
    /\ Init
    /\ Writer!Init
    /\ (left = NoEvents) # (todo = <<>>)

MCNext ==
    \/ Next /\ UNCHANGED writerVars
    \/ Writer!Next /\ UNCHANGED vars

MCSpec ==
    /\ MCInit
    /\ [][MCNext]_<<vars, writerVars>>
    /\ Fairness
    /\ Writer!Fairness

-----------------------------------------------------------------------------
(* Events handed over, and commands written, are kept whole and in order    *)
(* (modules HandOver and Writer).                                           *)
RelaysInOrder == HandedOverWhole /\ Writer!WrittenInOrder

(* A hold ends, and a closed sender lets its pipe go and its thread ends.   *)
RelayEnds == HoldEnds /\ Writer!CloseEnds
============================================================================
