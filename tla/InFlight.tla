------------------------------ MODULE InFlight ------------------------------
(***************************************************************************)
(* A reader's work in flight: verbatim-reader-rules, in_flight.rs.         *)
(*                                                                         *)
(* The record both readers (the focus listener's read scheduler and the    *)
(* outpost's reducer) keep of the one item a worker is running.  It is     *)
(* pure: every method is an operator from the record to a decision, which  *)
(* holds the record after the call and what the caller has to do.  Times   *)
(* are natural numbers; the code's microseconds saturate at u64::MAX, five *)
(* hundred thousand years away, so they are left unbounded here.           *)
(***************************************************************************)
EXTENDS Integers

CONSTANT Grace     \* MOVED_ON_GRACE

ASSUME GraceAssumption == Grace \in Nat \ {0}

NoTime == -1       \* Option<u64>::None for a time

Later(a, b) == IF a < b THEN b ELSE a
Sooner(a, b) == IF a < b THEN a ELSE b

Reasons == {"Deadline", "MovedOn", "Hung"}
Walks   == {"None", "Unarmed", "Armed", "Published"}
Moveds  == {"Never", "Unknown", "Known", "Named"}

Requests == [generation : Nat, number : Nat]

(***************************************************************************)
(* The record.  walk = "None" stands for running: None; then the fields of *)
(* the running item hold fixed values.  A request's number is never 0.     *)
(***************************************************************************)
Flights == [generation : Nat, requests : Nat, request : Requests, started : Nat,
            deadline : Nat, walk : Walks, bound : Nat, moved : Moveds,
            next : Nat, item : Nat]

NoRequest == [generation |-> 0, number |-> 0]

New == [generation |-> 0, requests |-> 0, request |-> NoRequest, started |-> 0,
        deadline |-> 0, walk |-> "None", bound |-> 0, moved |-> "Never",
        next |-> 0, item |-> 0]

Running(f) == f.walk # "None"

RunningOf(f, request) == Running(f) /\ f.request = request

\* The record once its item has left, the generation and the count kept.
Taken(f) == [New EXCEPT !.generation = f.generation, !.requests = f.requests]

(***************************************************************************)
(* Decisions.  "Publish" and "Judge" are asks the caller answers; an       *)
(* abandonment carries the item that left and whether it was published.    *)
(***************************************************************************)
Nothing(f) == [do |-> "Nothing", why |-> "None", flight |-> f,
               item |-> 0, published |-> FALSE]
AskJudge(f) == [Nothing(f) EXCEPT !.do = "Judge"]
AskPublish(f, why) == [Nothing(f) EXCEPT !.do = "Publish", !.why = why]

NextRequest(f) == [generation |-> f.generation, number |-> f.requests + 1]

Start(f, item, deadline, window, now) ==
    [f EXCEPT !.requests = @ + 1,
              !.request  = NextRequest(f),
              !.started  = now,
              !.deadline = now + deadline,
              !.walk     = "Unarmed",
              !.moved    = window,
              !.next     = IF window \in {"Known", "Named"} THEN now + Grace ELSE 0,
              !.item     = item]

HandOn(f) ==
    IF Running(f) THEN [f EXCEPT !.requests = @ + 1, !.request = NextRequest(f)]
                  ELSE f

Abandon(f, why) ==
    [do |-> "Abandon", why |-> why,
     flight |-> [Taken(f) EXCEPT !.generation = @ + 1],
     item |-> f.item, published |-> f.walk = "Published"]

(***************************************************************************)
(* The judgements at now, the first that applies deciding: the deadline,   *)
(* which publishes an armed walk first; the walk's bound; the window.      *)
(***************************************************************************)
Judge(f, now) ==
    IF ~Running(f) THEN Nothing(f)
    ELSE IF now >= f.deadline
         THEN IF f.walk = "Armed"
              THEN AskPublish([f EXCEPT !.walk = "Unarmed", !.bound = 0], "Deadline")
              ELSE Abandon(f, "Deadline")
    ELSE IF f.walk = "Armed" /\ now >= f.bound
         THEN AskPublish([f EXCEPT !.walk = "Unarmed", !.bound = 0], "None")
    ELSE IF f.moved \in {"Known", "Named"} /\ now >= f.next
         THEN AskJudge([f EXCEPT !.next = now + Grace])
    ELSE Nothing(f)

Learned(f, request, now) ==
    IF ~RunningOf(f, request) \/ f.moved # "Unknown" THEN Nothing(f)
    ELSE LET graceEnd == f.started + Grace
             known    == [f EXCEPT !.moved = "Known", !.next = Later(graceEnd, now)]
         IN  IF now >= graceEnd THEN Judge(known, now) ELSE Nothing(known)

Armed(f, request, bound) ==
    IF RunningOf(f, request) /\ f.walk # "Published"
    THEN [f EXCEPT !.walk = "Armed", !.bound = bound]
    ELSE f

WalkReturned(f, request, past) ==
    IF ~RunningOf(f, request) \/ f.walk # "Armed" THEN Nothing(f)
    ELSE LET unarmed == [f EXCEPT !.walk = "Unarmed", !.bound = 0]
         IN  IF past THEN AskPublish(unarmed, "None") ELSE Nothing(unarmed)

\* The answer to "Judge": a verdict of "None" lets the item stay.
Judged(f, request, verdict) ==
    IF ~RunningOf(f, request) \/ verdict = "None" THEN Nothing(f)
    ELSE IF f.walk = "Armed"
         THEN AskPublish([f EXCEPT !.walk = "Unarmed", !.bound = 0], verdict)
    ELSE Abandon(f, verdict)

\* Mutant: the published read is not marked as one.
PublishedUnmarked(f, request, got, why) ==
    IF ~RunningOf(f, request) THEN Nothing(f)
    ELSE IF why = "None" THEN Nothing(f) ELSE Abandon(f, why)

\* The answer to "Publish", its abandonment made; nothing else is judged.
PublishedJudgingNothing(f, request, got, why) ==
    IF ~RunningOf(f, request) THEN Nothing(f)
    ELSE LET g == IF got THEN [f EXCEPT !.walk = "Published", !.bound = 0] ELSE f
         IN  IF why = "None" THEN Nothing(g) ELSE Abandon(g, why)

\* The answer to "Publish" of a reader that goes on judging.
Published(f, request, got, why, now) ==
    LET d == PublishedJudgingNothing(f, request, got, why)
    IN  IF RunningOf(f, request) /\ why = "None" THEN Judge(d.flight, now) ELSE d

End(f, request) == IF RunningOf(f, request) THEN Taken(f) ELSE f

Succeed(f) == [f EXCEPT !.generation = @ + 1]

Accepts(f, request) == RunningOf(f, request) /\ f.walk # "Published"

\* When something is next due; NoTime with nothing running.
NextWake(f) ==
    IF ~Running(f) THEN NoTime
    ELSE LET due == IF f.walk = "Armed" THEN Sooner(f.deadline, f.bound) ELSE f.deadline
         IN  IF f.moved \in {"Known", "Named"} THEN Sooner(due, f.next) ELSE due

=============================================================================
