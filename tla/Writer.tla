------------------------------- MODULE Writer -------------------------------
(* The supervisor's writer of one child: the overload policy of its queue   *)
(* of commands, the slot that holds the held nodes' list until a command    *)
(* carries it, and the sender under it, which writes on the calling thread  *)
(* when nothing is in flight and finishes a write that pends from the       *)
(* completion port's thread.                                                *)
(*                                                                          *)
(* A frame is one command; the pipe takes a write whole when it has room    *)
(* for all its frames, and the write pends otherwise.                       *)
EXTENDS Integers, Sequences, SequencesExt, FiniteSets

CONSTANTS
    Scenarios,  \* what the supervisor's threads do, WRITER_CAPACITY, whether the
                \* sender has a finishing thread of its own, and whether a child reads
    PipeRoom    \* frames the pipe's buffer takes, two or more: a command and the
                \* list it carries

VARIABLES
    todo,       \* what the threads have still to do, each time one of a set
    queue,      \* the backlog: items, the held list's slot and its
                \* place, and the bound
    sender,     \* the frames in flight, closed, failed, the pipe end open,
                \* a thread of its own
    pipe,       \* frames written that the child has not read
    read,       \* frames the child has read
    child,      \* whether the child still reads
    port,       \* posted wakes the finishing thread has not taken
    listing,    \* where the reducer's send_held is between its locks
    thread,     \* the finishing thread: "waits", "looks" or "ended"
    taken       \* every command offered and every list left, in order

vars == <<todo, queue, sender, pipe, read, child, port, listing, thread, taken>>

NoList == [kind |-> "none", number |-> 0, refused |-> FALSE]

Init ==
    /\ \E s \in Scenarios :
        /\ todo = s.letters
        /\ queue = [items |-> <<>>, held |-> NoList, behind |-> 0, capacity |-> s.capacity]
        /\ sender = [flight |-> <<>>, closed |-> FALSE, failed |-> FALSE, open |-> TRUE, own |-> s.own]
        /\ thread = IF s.own THEN "looks" ELSE "ended"
        /\ child = s.child
    /\ pipe = <<>>
    /\ read = <<>>
    /\ port = 0
    /\ listing = "none"
    /\ taken = <<>>

----------------------------------------------------------------------------
(* The queue *)

TakeOut(q, i) ==
    [q EXCEPT !.items = RemoveAt(@, i),
              !.behind = IF i <= @ THEN @ - 1 ELSE @]

(* The first command behind the last idle query waiting. *)
AfterQuery(items) ==
    LET queries == {i \in DOMAIN items : items[i].kind = "idle"} IN
    IF queries = {} THEN 1 ELSE Max(queries) + 1

(* A waiting fact a newer one of its key replaces, or else, when the queue  *)
(* is full, the oldest fact.  A fact with no key replaces none.             *)
Replaced(q, item) ==
    LET same == {i \in AfterQuery(q.items)..Len(q.items) :
                    q.items[i].kind = "fact" /\ item.key # "none"
                        /\ q.items[i].key = item.key}
        facts == {i \in DOMAIN q.items : q.items[i].kind = "fact"}
    IN CASE same # {} -> {Min(same)}
         [] same = {} /\ Len(q.items) >= q.capacity /\ facts # {} -> {Min(facts)}
         [] OTHER -> {}

RoomFor(q, item) ==
    IF item.kind = "fact" /\ Replaced(q, item) # {}
    THEN TakeOut(q, CHOOSE i \in Replaced(q, item) : TRUE)
    ELSE q

(* Only a fact or an ordinary command is refused by a full queue.  A fact   *)
(* has by then made its room, which in a queue past its bound is not enough. *)
Refused(q, item) ==
    item.kind \in {"fact", "other"} /\ Len(RoomFor(q, item).items) >= q.capacity

QueuePush(q, item) ==
    LET room == RoomFor(q, item) IN
    [room EXCEPT !.items = Append(@, item)]

QueuePop(q) ==
    [q EXCEPT !.items = Tail(@), !.behind = IF @ = 0 THEN 0 ELSE @ - 1]

(* The list waits behind every command waiting now. *)
Leave(q, list) == [q EXCEPT !.held = list, !.behind = Len(q.items)]

(* The held list goes with a command written when nothing queued before it  *)
(* was left still waits; the shutdown message carries none.                 *)
Carries(q, item) == item.kind # "shutdown" /\ q.behind = 0 /\ q.held # NoList

Frames(q, item) == IF Carries(q, item) THEN <<item, q.held>> ELSE <<item>>

Carried(q, item) == IF Carries(q, item) THEN [q EXCEPT !.held = NoList] ELSE q

----------------------------------------------------------------------------
(* The sender.  w holds the queue, the sender, the pipe and the port while  *)
(* its lock is held.                                                        *)

World == [queue |-> queue, sender |-> sender, pipe |-> pipe, port |-> port]

Fail(w) ==
    [w EXCEPT !.sender.closed = TRUE, !.sender.failed = TRUE,
              !.queue.items = <<>>, !.queue.behind = 0]

RECURSIVE Drain(_)
Drain(w) ==
    IF w.sender.flight # <<>> \/ w.queue.items = <<>> THEN w
    ELSE LET item == Head(w.queue.items)
             q == QueuePop(w.queue)
             frames == Frames(q, item)
             next == [w EXCEPT !.queue = Carried(q, item)]
         IN CASE ~child -> Fail(next)
              [] child /\ Len(w.pipe) + Len(frames) <= PipeRoom ->
                   Drain([next EXCEPT !.pipe = @ \o frames])
              [] OTHER -> [next EXCEPT !.sender.flight = frames]

(* The pipe is dropped once the sender is closed and all is written, and    *)
(* its own thread is woken to see it.                                       *)
Settle(w) ==
    IF w.sender.closed /\ w.sender.open /\ w.sender.flight = <<>>
         /\ w.queue.items = <<>>
    THEN [w EXCEPT !.sender.open = FALSE,
                   !.port = IF w.sender.own THEN @ + 1 ELSE @]
    ELSE w

Becomes(w) ==
    /\ queue' = w.queue
    /\ sender' = w.sender
    /\ pipe' = w.pipe
    /\ port' = w.port

Push(item) ==
    IF sender.closed
    THEN /\ Becomes(World)
         /\ taken' = taken
    ELSE IF Refused(queue, item)
    THEN /\ Becomes([World EXCEPT !.queue = RoomFor(@, item)])
         /\ taken' = Append(taken, [item EXCEPT !.refused = TRUE])
    ELSE /\ Becomes(Settle(Drain([World EXCEPT !.queue = QueuePush(@, item)])))
         /\ taken' = Append(taken, item)

Number == Len(taken) + 1

Command(kind, key) ==
    [kind |-> kind, key |-> key, number |-> Number, refused |-> FALSE]

List == [kind |-> "list", number |-> Number, refused |-> FALSE]

Send(kind, key) == Push(Command(kind, key))

LeaveHeld ==
    /\ queue' = Leave(queue, List)
    /\ taken' = Append(taken, List)
    /\ UNCHANGED <<sender, pipe, port>>

(* In place of a list in the slot, a command of its own; when the queue is  *)
(* full, the slot instead.  Each of the three takes the lock for itself.    *)
SendHeld ==
    /\ Becomes([World EXCEPT !.queue.held = NoList])
    /\ taken' = taken

SendHeldPush ==
    LET item == Command("other", "list") IN
    /\ listing = "push"
    /\ Push(item)
    /\ listing' = IF ~sender.closed /\ Refused(queue, item) THEN "leave" ELSE "none"
    /\ UNCHANGED <<todo, read, child, thread>>

SendHeldLeave ==
    /\ listing = "leave"
    /\ LeaveHeld
    /\ listing' = "none"
    /\ UNCHANGED <<todo, read, child, thread>>

Close ==
    /\ Becomes(Settle([World EXCEPT !.sender.closed = TRUE]))
    /\ taken' = taken

Does(letter) ==
    CASE letter = "leave" -> LeaveHeld
      [] letter = "held"  -> SendHeld
      [] letter = "close" -> Close
      [] letter \in {"a", "b", "none"} -> Send("fact", letter)
      [] OTHER -> Send(letter, "none")

(* The reducer is one thread; the relay's commands come at any time. *)
SupervisorStep ==
    /\ todo # <<>>
    /\ todo' = Tail(todo)
    /\ \E letter \in Head(todo) :
         /\ letter \in {"leave", "held"} => listing = "none"
         /\ listing' = IF letter = "held" THEN "push" ELSE listing
         /\ Does(letter)
    /\ UNCHANGED <<read, child, thread>>

----------------------------------------------------------------------------
(* The port and the child *)

(* The write in flight has ended, whole, or failed as the child is gone. *)
WriteEnded == sender.flight # <<>> /\ (~child \/ Len(pipe) + Len(sender.flight) <= PipeRoom)

Completed ==
    LET w == [World EXCEPT !.sender.flight = <<>>] IN
    Settle(Drain(IF child THEN [w EXCEPT !.pipe = @ \o sender.flight] ELSE Fail(w)))

(* Whichever thread serves the port takes the completion: the relay's, or   *)
(* the sender's own while it waits on the port.                             *)
Complete ==
    /\ WriteEnded
    /\ sender.own => thread = "waits"
    /\ Becomes(Completed)
    /\ thread' = IF sender.own THEN "looks" ELSE thread
    /\ UNCHANGED <<todo, read, child, listing, taken>>

(* A posted wake is only looked at. *)
Woken ==
    /\ thread = "waits"
    /\ port > 0
    /\ port' = port - 1
    /\ thread' = "looks"
    /\ UNCHANGED <<todo, queue, sender, pipe, read, child, listing, taken>>

(* The finishing thread waits on the port unless the sender has finished. *)
ThreadLooks ==
    /\ thread = "looks"
    /\ thread' = IF sender.open THEN "waits" ELSE "ended"
    /\ UNCHANGED <<todo, queue, sender, pipe, read, child, port, listing, taken>>

ChildReads ==
    /\ child
    /\ pipe # <<>>
    /\ read' = Append(read, Head(pipe))
    /\ pipe' = Tail(pipe)
    /\ UNCHANGED <<todo, queue, sender, child, port, listing, thread, taken>>

ChildGone ==
    /\ child
    /\ child' = FALSE
    /\ pipe' = <<>>
    /\ UNCHANGED <<todo, queue, sender, read, port, listing, thread, taken>>

Step ==
    \/ SupervisorStep
    \/ SendHeldPush
    \/ SendHeldLeave
    \/ Complete
    \/ Woken
    \/ ThreadLooks
    \/ ChildReads

Next == Step \/ ChildGone

Spec == Init /\ [][Next]_vars

(* The threads that can step do, and a child that is there reads, until it  *)
(* is gone.                                                                 *)
Fairness == WF_vars(Step)

----------------------------------------------------------------------------

(* Every frame in its order: read, in the pipe, in flight and waiting. *)
Stream == read \o pipe \o sender.flight \o queue.items

InOrder(s) == \A i, j \in DOMAIN s : i < j => s[i].number < s[j].number

Is(P(_), s) == SelectSeq(s, P)

(* What the policy never merges nor drops. *)
GetsThrough(m) == m.kind \in {"ping", "shutdown", "handover", "idle"}

(* A ping, the shutdown, a hand-over message, a part of a focus's read and  *)
(* an idle query get through a full queue, each once, and every command     *)
(* that is written keeps the order it was accepted in.                      *)
NeverDropped ==
    child =>
        /\ Is(GetsThrough, Stream) = Is(GetsThrough, taken)
        /\ InOrder(Is(LAMBDA m : m.kind # "list", Stream))

Absent(m) == \A i \in DOMAIN Stream : Stream[i].number # m.number

(* A newer fact of the same key, even one then refused, no idle query      *)
(* accepted between the two.                                                *)
Superseded(i) ==
    \E j \in i + 1..Len(taken) :
        /\ taken[j].kind = "fact" /\ taken[j].key = taken[i].key
        /\ taken[i].key # "none"
        /\ \A k \in i..j : taken[k].kind # "idle"

(* While there is room for every command, a fact is left out only for a     *)
(* newer one of its own key with no idle query between the two: what the    *)
(* idle query's answer vouches for is never moved behind the query.         *)
MergedBeforeQuery ==
    child /\ Len(taken) <= queue.capacity =>
        \A i \in DOMAIN taken :
            taken[i].kind = "fact" /\ Absent(taken[i]) => Superseded(i)

(* A full queue gives up its oldest fact: a fact that was not superseded is *)
(* left out only when no fact older than it waits, and never a command of   *)
(* another kind.                                                            *)
OldestFactDropped ==
    child =>
        \A i \in DOMAIN taken :
            taken[i].kind # "list" /\ ~taken[i].refused
                /\ Absent(taken[i]) /\ ~Superseded(i) =>
                /\ taken[i].kind = "fact"
                /\ \A j \in DOMAIN queue.items :
                     queue.items[j].kind = "fact" =>
                         queue.items[j].number > taken[i].number

(* A held nodes' list is read behind every command that waited when it was  *)
(* left, ahead of the others but the one that carries it, and never after a *)
(* list newer than itself.                                                  *)
ListInItsPlace ==
    LET lists == {i \in DOMAIN read : read[i].kind = "list"}
        IsList(m) == m.kind = "list" \/ (m.kind = "other" /\ m.key = "list")
    IN /\ InOrder(Is(IsList, read))
       /\ \A i \in lists :
            /\ \A j \in i + 1..Len(read) : read[j].number > read[i].number
            /\ Cardinality({j \in 1..i - 1 : read[j].number > read[i].number}) <= 1

(* Once closed, the sender lets its pipe go and its thread ends, whether    *)
(* the child reads on or is gone.                                           *)
CloseEnds == sender.closed ~> ~sender.open /\ thread = "ended"

(* What a child reads of its commands is what its queue's policy keeps, in  *)
(* its order.                                                               *)
WrittenInOrder == NeverDropped /\ MergedBeforeQuery /\ OldestFactDropped /\ ListInItsPlace
============================================================================
