------------------------------- MODULE Outpost -------------------------------
(***************************************************************************)
(* The outpost's reducer (verbatim-outpost-logic, lib.rs and follow.rs)    *)
(* with the thread that runs it (verbatim-outpost, outpost/shell.rs), the  *)
(* worker in charge and its charge (outpost/worker.rs).                    *)
(*                                                                         *)
(* The reducer is a pure function from an input to its state and effects:  *)
(* here, operators on the record st.  The shell carries an effect out      *)
(* before it takes another message, so sends and dispatches are part of    *)
(* the input's step; an effect that asks is a step of its own, which st's  *)
(* asks puts before every other.  An entry is Intake's record; its number  *)
(* n is also its observation.  A window, its element and its node are one  *)
(* object.  The clock runs from a program's dispatch, where it is 0.       *)
(***************************************************************************)
EXTENDS InFlight, Intake, Watch, GapRecord

CONSTANTS KindOf,         \* query -> "Plain", "Key", "Console", "FocusNow" or "Shell"
          NodeOf,         \* query -> the object it is about
          MaxLetters,     \* how many letters a scenario has at most
          MaxPolls,       \* a console's poll is past its last read by then
          HandlingDeadline, WalkBound,  \* times, from a program's dispatch
          Scenarios       \* what the world around the outpost may do: records of
                          \*   letters   what may arrive, and when: a sequence of sets of
                          \*             records [item, obj, front], the i-th entry from the i-th
                          \*   verdicts  what a judgement may find: Reasons but "Deadline"
                          \*   finds     what a program may find of its window
                          \*   owes      whether a focus may owe work
                          \*   closes    whether the outpost may be shut down

VARIABLES st, posts, arrived, scenario

vars == <<st, posts, arrived, scenario>>

\* The queries Core may ask, each once.
Queries == DOMAIN KindOf
Letters == scenario.letters

-----------------------------------------------------------------------------
(* The reducer's record, and the histories the properties read.            *)

NoGroup == [number |-> 0, rank |-> 0, older |-> <<>>]
NoOwed == [node |-> NoWindow, attempting |-> -1]
NoCurrent == [running |-> NoQuery, group |-> NoGroup, deferred |-> FALSE,
              destroyed |-> {}, n |-> 0]
NoJob == [request |-> NoRequest, item |-> "None", obj |-> NoWindow, n |-> 0, q |-> NoQuery,
          watch |-> NoWatch, slot |-> "None", made |-> 0, told |-> FALSE, reports |-> 0,
          cut |-> FALSE, done |-> FALSE]

Entry(item, obj, n) ==
    [n |-> n, item |-> item, obj |-> obj, thread |-> 0, time |-> NoStamp,
     marker |-> NoMarker, inside |-> {}]

\* The history: replies sent to each query, queries dispatched, windows
\* destroyed, what an idle answer left undone, the last try, the entries of its
\* group not tried, the groups reported, and whether a finished walk was told.
History == [replies |-> [q \in Queries |-> <<>>], ran |-> {}, gone |-> {}, undone |-> {},
            rounds |-> {}, try |-> NoGroup, left |-> {}, reported |-> {}, walkUntold |-> FALSE]

Init ==
    /\ st = [flight |-> New, current |-> NoCurrent, intake |-> Empty, gap |-> NoGap,
             watch |-> NoWatch, owed |-> NoOwed, focus |-> NoWindow, after |-> <<>>,
             toDrop |-> FALSE, queries |-> {}, idleQuery |-> 0, groups |-> 0,
             releasing |-> FALSE, stopping |-> FALSE, exited |-> FALSE, hung |-> {},
             asks |-> <<>>, now |-> 0, polls |-> 0, job |-> NoJob, seen |-> History]
    /\ posts = <<>>
    /\ arrived = 0
    /\ scenario \in Scenarios

Busy(s) == Running(s.flight)
Marks(s) == [focused |-> IF s.focus = NoWindow THEN NoObject ELSE <<"Uia", s.focus>>,
             terminal |-> "none"]
Asking(s, ask) == [s EXCEPT !.asks = Append(@, ask)]

-----------------------------------------------------------------------------
(* Sending.                                                                *)

\* send, of a reply: it answers its query, and the program in flight's.
Reply(s, q, outcome) ==
    [s EXCEPT !.queries = @ \ {q},
              !.current.running = IF @ = q THEN NoQuery ELSE @,
              !.seen.replies[q] = Append(@, outcome)]

\* answer_watch, of what a transition of the watch leaves.
WatchBecomes(s, result) ==
    LET q == s.watch.q
        left == [s EXCEPT !.watch = result.watch]
    IN  IF result.answer = "none" THEN left ELSE Reply(left, q, result.answer)

\* end_watch_elsewhere.
EndWatchElsewhere(s, node) ==
    IF s.watch.node = node THEN s ELSE WatchBecomes(s, EndWatch(s.watch))

\* hang_seen, of a window the program of `request` found hung.
HangSeen(s, request, window) ==
    IF RunningOf(s.flight, request) /\ window \in s.current.destroyed THEN s
    ELSE [s EXCEPT !.hung = @ \cup {window}]

-----------------------------------------------------------------------------
(* A commit.  A change is a record of the fields the properties tell       *)
(* apart: what was found of the window, a report ("Focus" followed,        *)
(* "Whole" the window's), the reply it sends, the note for the gap record, *)
(* the caret noted, the watch's change, the work owed, or done.            *)

NoChange == [found |-> "None", window |-> NoWindow, report |-> "None", obj |-> NoWindow,
             at |-> 0, q |-> NoQuery, reply |-> FALSE, note |-> "None", noted |-> FALSE,
             watch |-> "None", console |-> FALSE, owes |-> FALSE, done |-> FALSE]

Found(s, request, c) ==
    CASE c.found = "Hung" -> HangSeen(s, request, c.window)
      [] c.found = "Answered" -> [s EXCEPT !.hung = @ \ {c.window}]
      [] OTHER -> s

\* The result: a focus told to Core closes the gap record it answers.
Result(s, request, c) ==
    LET mine == RunningOf(s.flight, request)
        Told(t) == IF c.report = "None" THEN t
                   ELSE [t EXCEPT !.gap = Reported(@, c.obj, c.at, c.report = "Whole"),
                                  !.seen.reported = IF mine /\ s.current.group # NoGroup
                                                    THEN @ \cup {s.current.group.number} ELSE @]
        Freed(t) == IF mine /\ (c.reply \/ c.report # "None")
                    THEN [t EXCEPT !.current.running = NoQuery] ELSE t
        Replied(t) == IF c.reply THEN Reply(t, c.q, "Done") ELSE t
    IN  Replied(Freed(Told(s)))

\* Mutant: the read of the copy begins the group's tries again.
GapNoteFromNewest(s, c) ==
    LET read == [e |-> Entry("GapRead", c.obj, c.at),
                 group |-> [s.current.group EXCEPT !.older = <<>>, !.rank = 0]]
    IN  IF c.note # "Copy" THEN s
        ELSE [s EXCEPT !.gap = CopyDropped(@, c.obj, c.at),
                       !.after = IF ReadNow(s.gap, c.obj, c.at) THEN <<read>> \o @ ELSE @]

\* gap_note: a copy read at once is the front of what runs next, in its try.
GapNote(s, c) ==
    CASE c.note = "Copy" ->
            LET read == [e |-> Entry("GapRead", c.obj, c.at),
                         group |-> [s.current.group EXCEPT !.older = <<>>]]
            IN  [s EXCEPT !.gap = CopyDropped(@, c.obj, c.at),
                          !.after = IF ReadNow(s.gap, c.obj, c.at) THEN <<read>> \o @ ELSE @]
      [] c.note = "Destroyed" -> [s EXCEPT !.gap = WindowDestroyed(@, c.obj)]
      [] OTHER -> s

\* follow::apply, the focus: a followed one moves the focus and the owed work.
Follow(s, c) ==
    CASE c.report = "Focus" ->
            [EndWatchElsewhere(s, c.obj) EXCEPT
                !.focus = c.obj,
                !.owed = IF c.owes THEN [node |-> c.obj, attempting |-> -1] ELSE NoOwed]
      [] c.report = "Whole" -> EndWatchElsewhere(s, c.obj)
      [] OTHER -> s

OwedDone(s, c) ==
    IF c.done /\ s.owed.node = c.obj /\ s.owed.attempting = s.flight.generation
    THEN [s EXCEPT !.owed = NoOwed] ELSE s

\* Mutant: an opened watch's query stays the program's.
WatchChangedKept(s, request, c, past) ==
    LET open == Opened(s.watch, c.q, c.obj, c.console)
    IN  CASE c.watch = "Open" -> [s EXCEPT !.watch = open]
          [] c.watch = "Take" -> [s EXCEPT !.watch = TakeWatch(@, c.obj)]
          [] c.watch = "None" -> s
          [] OTHER -> WatchBecomes(s, Checked(s.watch, c.watch = "Evidence", past))

\* apply_watch, and what commit keeps of it for the program of `request`.
WatchChanged(s, request, c, past) ==
    LET mine == RunningOf(s.flight, request)
    IN  CASE c.watch = "Open" ->
                [s EXCEPT !.watch = Opened(@, c.q, c.obj, c.console),
                          !.current.running =
                              IF mine /\ s.watch.at = "None" THEN NoQuery ELSE @]
          [] c.watch = "Take" ->
                LET taken == TakeWatch(s.watch, c.obj)
                IN  [s EXCEPT !.watch = taken,
                              !.current.deferred = @ \/ (mine /\ taken # s.watch)]
          [] c.watch = "None" -> s
          [] OTHER ->
                LET checked == Checked(s.watch, c.watch = "Evidence", past)
                    resumed == mine /\ s.watch.at = "Checking" /\ checked.answer = "none"
                IN  WatchBecomes([s EXCEPT !.current.deferred = @ /\ ~resumed], checked)

\* commit.
Committed(s, request, c, past) ==
    LET Noted(t) == IF c.noted
                    THEN [t EXCEPT !.intake = WhenIdle(@, Entry("NotedCaret", c.obj, c.at))] ELSE t
        Sent == Noted(GapNote(Result(Found(s, request, c), request, c), c))
    IN  WatchChanged(OwedDone(Follow(Sent, c), c), request, c, past)

-----------------------------------------------------------------------------
(* A program's end.                                                        *)

\* continue_group: the next older entry goes to the back of what runs next.
ContinueGroup(s, group) ==
    IF group.older = <<>> THEN s
    ELSE [s EXCEPT !.after = Append(@, [e |-> Head(group.older),
                                        group |-> [group EXCEPT !.rank = @ + 1,
                                                                !.older = Tail(@)]])]

\* Mutant: the watch the program held is forgotten.
AbandonedForgets(s, d) ==
    LET freed == [s EXCEPT !.flight = d.flight, !.current = NoCurrent, !.job = NoJob]
        replied == IF s.current.running = NoQuery THEN freed
                   ELSE Reply(freed, s.current.running, "Abandoned")
    IN  IF d.published THEN replied ELSE ContinueGroup(replied, s.current.group)

\* abandoned, of a decision of the work in flight: the worker is dead from here.
Abandoned(s, d) ==
    LET freed == [s EXCEPT !.flight = d.flight, !.current = NoCurrent, !.job = NoJob,
                           !.owed = IF @.attempting = s.flight.generation THEN NoOwed ELSE @]
        Replied(t) == IF s.current.running = NoQuery THEN t
                      ELSE Reply(t, s.current.running, "Abandoned")
        Continued(t) == IF d.published THEN t ELSE ContinueGroup(t, s.current.group)
    IN  Continued(Replied(WatchBecomes(freed, HolderAbandoned(s.watch))))

\* decided.
Decided(s, d) ==
    CASE d.do = "Abandon" -> Abandoned(s, d)
      [] d.do = "Judge" -> Asking([s EXCEPT !.flight = d.flight],
                                  [ask |-> "Judge", request |-> d.flight.request, why |-> "None"])
      [] d.do = "Publish" -> Asking([s EXCEPT !.flight = d.flight],
                                    [ask |-> "Publish", request |-> d.flight.request,
                                     why |-> d.why])
      [] OTHER -> [s EXCEPT !.flight = d.flight]

\* finished, of a program in flight that ended without a cut: what it held is
\* answered, and its group goes on unless the try was reported or published.
Finished(s, p) ==
    LET group == s.current.group
        published == s.flight.walk = "Published"
        ended == [s EXCEPT !.flight = End(@, p.request), !.current = NoCurrent, !.job = NoJob]
        Replied(t) == IF s.current.running = NoQuery THEN t
                      ELSE Reply(t, s.current.running, "Failed")
        readAfter == s.after # <<>> /\ s.after[1].e.item = "GapRead"
        reported == p.reported \/ published
        Continued(t) ==
            CASE group = NoGroup -> t
              [] group # NoGroup /\ readAfter /\ reported ->
                    [t EXCEPT !.after[1].group = NoGroup]
              [] group # NoGroup /\ readAfter /\ ~reported ->
                    [t EXCEPT !.after[1].group =
                        IF @ = NoGroup THEN @ ELSE [@ EXCEPT !.older = group.older]]
              [] group # NoGroup /\ ~readAfter /\ ~reported -> ContinueGroup(t, group)
              [] OTHER -> t
    IN  Continued(Replied(WatchBecomes(ended, HolderEnded(s.watch))))

-----------------------------------------------------------------------------
(* Dispatching.                                                            *)

\* names_no_window, and a release's drop: judged by the deadline alone.
Rule(item, q) ==
    IF item = "Drop" \/ (item = "Query" /\ KindOf[q] = "Shell") THEN "Never"
    ELSE IF item \in {"Query", "Owed", "PollRead"} THEN "Named" ELSE "Known"

\* The budget: a listener's read and focus-now have their walk's bound more.
Budget(item, q) ==
    IF item = "Read" \/ (item = "Query" /\ KindOf[q] = "FocusNow")
    THEN HandlingDeadline + WalkBound ELSE HandlingDeadline

IsCaretKey(item, q) == item = "Query" /\ KindOf[q] \in {"Key", "Console"}

\* dispatch, of the query q or none, and the worker's taking it up with its copy
\* of the watch.
DispatchAs(s, e, q, group) ==
    LET tries == group # NoGroup
    IN  [s EXCEPT
            !.flight = Start(@, 0, Budget(e.item, q), Rule(e.item, q), 0), !.now = 0,
            !.current = [running |-> q, group |-> group, deferred |-> e.item = "GapRead",
                         destroyed |-> {}, n |-> e.n],
            !.job = [NoJob EXCEPT !.request = NextRequest(s.flight), !.item = e.item,
                                  !.obj = IF q = NoQuery THEN e.obj ELSE NodeOf[q],
                                  !.n = e.n, !.q = q, !.watch = s.watch],
            !.seen.ran = IF q = NoQuery THEN @ ELSE @ \cup {q},
            !.seen.try = IF tries THEN [group EXCEPT !.older = <<>>] ELSE @,
            !.seen.left = CASE tries /\ group.rank = 0 /\ e.item # "GapRead" ->
                                    {group.older[i].n : i \in 1..Len(group.older)}
                            [] tries /\ e.item # "GapRead" -> @ \ {e.n}
                            [] OTHER -> @]

\* A caret key ends the watch before it.
Dispatch(s, e, group) ==
    LET Of(q) == DispatchAs(IF IsCaretKey(e.item, q) THEN WatchBecomes(s, EndKept(s.watch)) ELSE s,
                            e, q, group)
    IN  Of(IF e.item = "Query" THEN e.obj ELSE NoQuery)

\* Whether everything that arrived before entry n is done with.
Undone(s, n) ==
    {e.n : e \in {x \in Entries(s.intake) \cup ToSet(s.intake.idle) :
                      x.n < n /\ x.item # "GapBound"}}
        \cup {m \in {s.after[i].e.n : i \in 1..Len(s.after)} : m < n}
        \cup (IF Busy(s) /\ s.current.n < n /\ s.current.n # 0 THEN {s.current.n} ELSE {})
        \cup (IF s.watch.at # "None" THEN {s.watch.q} ELSE {})
        \cup (IF s.gap.bound = "Waiting" THEN {s.gap.window} ELSE {})

\* Mutant: the record's bound is not waited for.
AnswerIdleEarly(s) ==
    IF s.idleQuery = 0 \/ (Busy(s) /\ s.current.deferred) \/ s.watch.at # "None" THEN s
    ELSE [s EXCEPT !.idleQuery = 0, !.seen.rounds = @ \cup {s.idleQuery},
                   !.seen.undone = Undone(s, s.idleQuery)]

\* answer_idle.
AnswerIdle(s) ==
    IF s.idleQuery = 0 \/ (Busy(s) /\ s.current.deferred) \/ s.watch.at # "None"
       \/ Pending(s.gap)
    THEN s
    ELSE [s EXCEPT !.idleQuery = 0, !.seen.rounds = @ \cup {s.idleQuery},
                   !.seen.undone = Undone(s, s.idleQuery)]

\* run's barrier: directly behind a noted caret, once; else the round is reached.
ReachBarrier(s, e) ==
    IF s.intake.idle # <<>> /\ e.inside = {}
    THEN [s EXCEPT !.intake = PushAhead(TakeIdle(@),
                                        s.intake.idle \o <<[e EXCEPT !.inside = {"noted"}]>>)]
    ELSE AnswerIdle([s EXCEPT !.idleQuery = e.n])

\* run, of an entry planned on its own.  A shell query reached past its own
\* deadline is answered at once; whether it was is the caller's choice, late.
RunEntry(s, e, late) ==
    CASE e.item = "Barrier" -> ReachBarrier(s, e)
      [] e.item = "NodesHeld" ->
            Asking([s EXCEPT !.releasing = TRUE],
                   [ask |-> "Release", request |-> NoRequest, why |-> "None"])
      [] e.item = "GapBound" ->
            IF BoundReads(s.gap, e.marker)
            THEN Dispatch([s EXCEPT !.gap = BoundPassed(@)],
                          Entry("GapRead", s.gap.window, s.gap.stamp), NoGroup)
            ELSE s
      [] e.item = "Query" /\ KindOf[e.obj] = "Shell" /\ late -> Reply(s, e.obj, "Done")
      [] OTHER -> Dispatch(s, e, NoGroup)

\* The watch's due time acted on, nothing else being ready.
ReachWatch(s) ==
    LET Reading(t) == [Dispatch(t, Entry("PollRead", s.watch.node, 0), NoGroup) EXCEPT
                          !.current.deferred = TRUE, !.polls = @ + 1]
        Reached(t) == IF t.watch.at = "Checking" THEN Reading(t) ELSE t
    IN  Reached(WatchBecomes(s, Reach(s.watch)))

\* pump: owed work, what was left to run, a drop, the intake's next, the watch.
RECURSIVE Pump(_, _, _)
Pump(s, due, late) ==
    LET Focus(t, e) == Dispatch([t EXCEPT !.groups = @ + 1], e[1],
                                [number |-> s.groups + 1, rank |-> 0, older |-> Tail(e)])
        Take(next, rest) ==
            IF next = <<>>
            THEN IF due /\ Kept(s.watch) THEN Pump(ReachWatch(s), FALSE, late) ELSE s
            ELSE CASE next[1].do = "Run" -> Pump(RunEntry(rest, next[1].entries[1], late), due, late)
                   [] next[1].do = "Menu" -> Dispatch(rest, next[1].entries[1], NoGroup)
                   [] next[1].do = "Focus" -> Focus(rest, next[1].entries)
        Hand(planned) == Take(Handed(planned), [s EXCEPT !.intake = AfterNext(planned)])
    IN  IF Busy(s) \/ s.stopping \/ s.releasing THEN s
        ELSE IF s.owed # NoOwed /\ s.owed.attempting = -1
        THEN Dispatch([s EXCEPT !.owed.attempting = s.flight.generation],
                      Entry("Owed", s.owed.node, 0), NoGroup)
        ELSE IF s.after # <<>>
        THEN Dispatch([s EXCEPT !.after = Tail(@)], s.after[1].e, s.after[1].group)
        ELSE IF s.toDrop
        THEN Dispatch([s EXCEPT !.toDrop = FALSE], Entry("Drop", NoWindow, 0), NoGroup)
        ELSE Hand(Planned(s.intake, Marks(s)))

\* The end of every input: what is next is started, and a round answered.
Then(s, due, late) == AnswerIdle(Pump(s, due, late))

\* Whether a shell query reached now is past its own deadline.
Late(s) == IF \E e \in Entries(s.intake) : e.item = "Query" /\ KindOf[e.obj] = "Shell"
           THEN BOOLEAN ELSE {FALSE}

\* An input's step, from what handling it leaves.
Goes(s, due) == \E late \in Late(s) : st' = Then(s, due, late)

-----------------------------------------------------------------------------
(* What arrives: Core's queries, cancels and held lists, and events.       *)

\* destroy_seen.
DestroySeen(s, window) ==
    [s EXCEPT !.hung = @ \ {window},
              !.current.destroyed = IF Busy(s) THEN @ \cup {window} ELSE @,
              !.seen.gone = @ \cup {window}]

\* entry and push, with the foreground's test made as the entry is taken in,
\* and a drop for no window, which has an open record read in its place.
TakenIn(s, e, front) ==
    LET seen == IF e.item = "Destroy" THEN DestroySeen(s, e.obj) ELSE s
        recorded == IF e.item = "Query" /\ ~s.stopping
                    THEN [seen EXCEPT !.queries = @ \cup {e.obj}] ELSE seen
        shown == IF e.item = "Foreground" /\ front # "Not"
                 THEN [recorded EXCEPT !.gap = ForegroundTaken(@, e.obj, e.n, front)]
                 ELSE recorded
        none == e.item = "NoWindow" /\ ~s.intake.closed
        pushed == IF none /\ NoWindowReads(s.gap, e.n)
                  THEN Entry("GapRead", s.gap.window, s.gap.stamp) ELSE e
    IN  [shown EXCEPT !.gap = IF none THEN NoWindowTaken(@, e.n) ELSE @,
                      !.intake = Push(@, pushed, Marks(s))]

Free == st.asks = <<>> /\ ~st.exited

Asked(q) == q \in st.queries \/ q \in st.seen.ran \/ st.seen.replies[q] # <<>>

\* An event, a fact or a query not asked before.
Arrive ==
    /\ Free /\ arrived < Len(Letters) /\ ~st.stopping
    /\ arrived' = arrived + 1 /\ UNCHANGED <<posts, scenario>>
    /\ \E l \in Letters[arrived + 1] :
          /\ l.item = "Barrier" => st.idleQuery = 0
                                   /\ ~\E e \in Entries(st.intake) : IsBarrier(e)
          /\ l.item = "Query" => ~Asked(l.obj)
          /\ Goes(TakenIn(st, Entry(l.item, l.obj, arrived + 1), l.front), FALSE)

\* Input::Cancel: only a query still queued is taken out and answered.
Cancelled(s, q) ==
    IF Queued(s.intake, q) THEN Reply([s EXCEPT !.intake = Cancel(@, q)], q, "NotStarted") ELSE s

CancelQuery ==
    /\ Free
    /\ \E q \in st.queries : st' = Then(Cancelled(st, q), FALSE, FALSE)
    /\ st' # st
    /\ UNCHANGED <<posts, arrived, scenario>>

\* Input::Close, and the loop's end once no program is in flight: the tokens of
\* the queries left are dropped, which answers them as failed.
Shutdown ==
    /\ Free /\ scenario.closes /\ ~st.stopping
    /\ st' = [st EXCEPT !.stopping = TRUE, !.intake = Close(@)]
    /\ UNCHANGED <<posts, arrived, scenario>>

Exit ==
    /\ Free /\ st.stopping /\ ~Busy(st)
    /\ st' = [st EXCEPT !.exited = TRUE, !.queries = {},
                        !.seen.replies = [q \in Queries |->
                            IF q \in st.queries THEN Append(@[q], "Failed") ELSE @[q]]]
    /\ UNCHANGED <<posts, arrived, scenario>>

-----------------------------------------------------------------------------
(* The shell's answers to what the reducer asks.                           *)

\* Answering the first ask with `s`, whose own asks come before the rest.
Answer(s, due) ==
    /\ \E late \in Late(s) : st' = [Then(s, due, late) EXCEPT !.asks = @ \o Tail(st.asks)]
    /\ UNCHANGED <<posts, arrived, scenario>>

Ask == Head(st.asks)
Cleared == [st EXCEPT !.asks = <<>>]

\* judge, and Input::Judged: a window destroyed is never found hung.
AnswerJudge ==
    /\ st.asks # <<>> /\ Ask.ask = "Judge"
    /\ \E verdict \in scenario.verdicts \cup {"None"} :
          /\ verdict = "Hung" => st.job.obj \in Windows \ st.seen.gone
          /\ LET mine == RunningOf(st.flight, Ask.request)
                 seen == IF verdict = "Hung" /\ mine
                         THEN HangSeen(Cleared, Ask.request, st.job.obj) ELSE Cleared
             IN  Answer(IF st.stopping THEN Cleared
                        ELSE Decided(seen, Judged(seen.flight, Ask.request, verdict)), FALSE)

\* What the walk of the program in charge reports, as read so far.
WalkReport(job) ==
    [NoChange EXCEPT !.report = "Focus", !.obj = job.obj, !.at = job.n,
                     !.q = job.q, !.reply = job.q # NoQuery]

\* Charge::publish: claimed while under way, or returned past its bound.
Claimed(job, request) == job.request = request /\ job.slot \in {"Armed", "PastBound"}

\* publication, and Input::Published.
AnswerPublish ==
    /\ st.asks # <<>> /\ Ask.ask = "Publish"
    /\ LET claimed == Claimed(st.job, Ask.request)
           slot == IF claimed THEN [Cleared EXCEPT !.job.slot = "Published"] ELSE Cleared
           got == claimed /\ Accepts(st.flight, Ask.request)
           Told(s) == Decided(s, IF st.stopping
                                 THEN PublishedJudgingNothing(s.flight, Ask.request, got, Ask.why)
                                 ELSE Published(s.flight, Ask.request, got, Ask.why, st.now))
       IN  Answer(Told(IF got THEN Committed([slot EXCEPT !.job.reports = @ + 1], Ask.request,
                                             WalkReport(st.job), FALSE)
                       ELSE slot), FALSE)

\* release, and Input::Released: a kept watch on a released node ends.
AnswerRelease ==
    /\ st.asks # <<>> /\ Ask.ask = "Release"
    /\ \E nodes \in {{}, {st.watch.node}}, objects \in BOOLEAN :
          LET ended == IF Kept(st.watch) /\ st.watch.node \in nodes
                       THEN WatchBecomes(Cleared, EndWatch(st.watch)) ELSE Cleared
          IN  Answer([ended EXCEPT !.releasing = FALSE, !.toDrop = @ \/ objects], FALSE)

\* gap_bound_tested: an unrelated window closes the record; else its title is
\* told, and a record still waiting for a focus has its bound's entry queued.
BoundTested(s, related, title, request) ==
    LET reads == s.gap.awaits = "Focus"
        whole == [NoChange EXCEPT !.report = "Whole", !.obj = s.gap.window, !.at = s.gap.stamp]
        bound == [Entry("GapBound", s.gap.window, s.gap.stamp) EXCEPT !.marker = s.gap.number]
        Bounded(told) == IF reads /\ GapOpen(told.gap)
                         THEN [told EXCEPT !.intake = Push(@, bound, Marks(s))]
                         ELSE [told EXCEPT !.gap = BoundPassed(@)]
    IN  CASE ~GapOpen(s.gap) -> s
          [] GapOpen(s.gap) /\ ~related -> [s EXCEPT !.gap = CloseGap(@)]
          [] OTHER -> Bounded(IF title THEN Committed(s, request, whole, FALSE) ELSE s)

\* gap_bound_test, and Input::GapBoundTested.
AnswerGap ==
    /\ st.asks # <<>> /\ Ask.ask = "Gap"
    /\ \E related, title \in BOOLEAN :
          /\ title => related
          /\ Answer(BoundTested(Cleared, related, title, Ask.request), FALSE)

-----------------------------------------------------------------------------
(* The shell's loop: a post taken, and the tick after its timed wait.      *)

\* gap_bound: asked with a request of its own, and not while stopping.
GapBoundDue(s) ==
    IF s.stopping \/ s.gap.bound # "Waiting" THEN s
    ELSE Asking([s EXCEPT !.gap = AtBound(@), !.flight.requests = @ + 1],
                [ask |-> "Gap", request |-> NextRequest(s.flight), why |-> "None"])

\* tick, at `now`, with the watch's or the gap record's time come, or not.
Ticked(now, watchDue, gapDue) ==
    LET timed == [st EXCEPT !.now = now]
        judged == IF st.stopping THEN timed ELSE Decided(timed, Judge(st.flight, now))
    IN  Goes(IF gapDue THEN GapBoundDue(judged) ELSE judged, watchDue)

Tick ==
    /\ Free
    /\ \E now \in st.now..(HandlingDeadline + WalkBound), watchDue, gapDue \in BOOLEAN :
          /\ now = st.now \/ Judge(st.flight, now).do # "Nothing"
          /\ Ticked(now, watchDue, gapDue)
    /\ st' # st
    /\ UNCHANGED <<posts, arrived, scenario>>

\* dispatch_finish: the program that cut its caret read goes on as a new request.
HandedOn(s) ==
    LET f == HandOn(s.flight)
    IN  [s EXCEPT !.flight = f,
                  !.job = [@ EXCEPT !.request = f.request, !.watch = s.watch, !.made = 0,
                                    !.cut = TRUE, !.done = FALSE]]

\* The reducer's taking of a worker's post.
Took(s, p, past) ==
    LET mine == RunningOf(s.flight, p.request)
    IN  CASE p.post = "Commit" ->
                IF ~Accepts(s.flight, p.request) THEN s
                ELSE Committed(IF p.change.report = "None" THEN s
                               ELSE [s EXCEPT !.job.reports = @ + 1], p.request, p.change, past)
          [] p.post = "Armed" -> [s EXCEPT !.flight = Armed(@, p.request, WalkBound)]
          [] p.post = "WalkReturned" -> Decided(s, WalkReturned(s.flight, p.request, p.past))
          [] p.post = "Finished" ->
                IF ~mine THEN s
                ELSE IF p.cut /\ s.flight.walk # "Published" THEN HandedOn(s)
                ELSE Finished([s EXCEPT !.seen.walkUntold =
                                  @ \/ (~p.panicked /\ s.job.slot # "None" /\ s.job.reports = 0)],
                              p)

TakePost ==
    /\ Free /\ posts # <<>>
    /\ posts' = Tail(posts)
    /\ \E past \in BOOLEAN :
          /\ past => st.polls > 0
          /\ past \/ st.polls < MaxPolls
          /\ Goes(Took(st, Head(posts), past), FALSE)
    /\ UNCHANGED <<arrived, scenario>>

-----------------------------------------------------------------------------
(* The worker in charge.  It may stop for ever in a call: nothing here is  *)
(* fair.  Abandoned, it posts nothing more that is applied.                *)

NoPost == [post |-> "None", request |-> NoRequest, change |-> NoChange, past |-> FALSE,
           reported |-> FALSE, panicked |-> FALSE, cut |-> FALSE]

Working == st.job # NoJob /\ ~st.job.done /\ ~st.exited

Posts(post, job) ==
    /\ posts' = Append(posts, [post EXCEPT !.request = st.job.request])
    /\ st' = [st EXCEPT !.job = job]
    /\ UNCHANGED <<arrived, scenario>>

ArmsAWalk == {"Read", "FocusNow"}
Kind(job) == IF job.item = "Query" THEN KindOf[job.q] ELSE job.item

\* What the program may commit next.
Changes(job) ==
    LET kind == Kind(job)
        base == [NoChange EXCEPT !.obj = job.obj, !.window = job.obj, !.at = job.n, !.q = job.q]
        fresh == job.made = 0
        Reports(r) == {[base EXCEPT !.report = r, !.owes = o] :
                          o \in IF scenario.owes /\ r = "Focus" THEN BOOLEAN ELSE {FALSE}}
        reply == {[base EXCEPT !.reply = TRUE]}
        onNode == Kept(job.watch) /\ job.watch.node = job.obj
        checks == {[base EXCEPT !.watch = w] : w \in {"Evidence", "Watching"}}
    IN  CASE kind = "Focus" /\ fresh -> Reports("Focus") \cup {[base EXCEPT !.note = "Copy"]}
          [] kind = "Foreground" /\ fresh -> Reports("Whole")
          [] kind \in {"GapRead", "Menu"} /\ fresh -> Reports("Focus")
          [] kind \in ArmsAWalk /\ fresh ->
                IF job.slot = "Disarmed"
                THEN {[WalkReport(job) EXCEPT !.window = job.obj, !.owes = c.owes] :
                          c \in Reports("Focus")} ELSE {}
          [] kind \in {"UiaCaret", "NotedCaret"} ->
                IF job.watch.at = "Checking" /\ (job.made = 1 \/ job.cut) THEN checks
                ELSE IF fresh /\ onNode THEN {[base EXCEPT !.watch = "Take"]}
                ELSE IF fresh /\ kind = "UiaCaret" THEN {[base EXCEPT !.noted = TRUE]} ELSE {}
          [] kind = "PollRead" /\ fresh -> checks
          [] kind \in {"Plain", "Shell"} /\ fresh -> reply
          [] kind \in {"Key", "Console"} /\ fresh ->
                reply \cup {[base EXCEPT !.watch = "Open", !.console = kind = "Console"]}
          [] kind = "Owed" /\ fresh -> {[base EXCEPT !.done = TRUE]}
          [] kind = "Destroy" /\ fresh -> {[base EXCEPT !.note = "Destroyed"]}
          [] OTHER -> IF fresh /\ scenario.finds # {} THEN {base} ELSE {}

\* apply_local, the program's own copy of the watch.
LocalWatch(w, c) ==
    CASE c.watch = "Open" -> Opened(w, c.q, c.obj, c.console)
      [] c.watch = "Take" -> TakeWatch(w, c.obj)
      [] c.watch \in {"Evidence", "Watching"} -> Checked(w, c.watch = "Evidence", FALSE).watch
      [] OTHER -> w

WorkerCommit ==
    /\ Working
    /\ \E c \in Changes(st.job), found \in scenario.finds \cup {"None"} :
          /\ found # "None" => st.job.obj \in Windows \ st.seen.gone
          /\ Posts([NoPost EXCEPT !.post = "Commit", !.change = [c EXCEPT !.found = found]],
                   [st.job EXCEPT !.made = @ + 1, !.watch = LocalWatch(@, c),
                                  !.told = @ \/ c.report # "None"])

\* Charge::arm.
WorkerArm ==
    /\ Working
    /\ Kind(st.job) \in ArmsAWalk /\ st.job.slot = "None"
    /\ Posts([NoPost EXCEPT !.post = "Armed"], [st.job EXCEPT !.slot = "Armed"])

\* Charge::returned, of a walk still armed.
ReturnedSlot(past) == IF past THEN "PastBound" ELSE "Disarmed"

WorkerReturn ==
    /\ Working /\ st.job.slot = "Armed"
    /\ \E past \in BOOLEAN :
          /\ past \/ st.now < WalkBound
          /\ Posts([NoPost EXCEPT !.post = "WalkReturned", !.past = past],
                   [st.job EXCEPT !.slot = ReturnedSlot(past)])

\* run_job's end: a panic forgets what was reported, and else ends alike; an edit's caret read may be
\* cut, to be finished by the program it is handed on to.
WorkerFinish ==
    /\ Working
    /\ \E panicked, cut \in BOOLEAN :
          /\ ~panicked => st.job.slot # "Armed" /\ (st.job.slot = "Disarmed" => st.job.made = 1)
          /\ panicked => st.job.told \/ st.job.slot # "None"
          /\ cut => /\ ~panicked /\ ~st.job.cut
                    /\ \/ Kind(st.job) = "Key" /\ st.job.made = 0
                       \/ Kind(st.job) = "UiaCaret" /\ st.job.watch.at = "Checking"
          /\ Posts([NoPost EXCEPT !.post = "Finished", !.panicked = panicked, !.cut = cut,
                        !.reported = ~panicked /\ (\/ st.job.told
                                                   \/ st.job.slot \in {"PastBound", "Published"})],
                   [st.job EXCEPT !.done = TRUE])

-----------------------------------------------------------------------------
Next ==
    \/ Arrive \/ CancelQuery \/ Shutdown \/ Exit
    \/ AnswerJudge \/ AnswerPublish \/ AnswerRelease \/ AnswerGap
    \/ Tick \/ TakePost
    \/ WorkerCommit \/ WorkerArm \/ WorkerReturn \/ WorkerFinish

Spec == Init /\ [][Next]_vars

\* A time the reducer waits for: a judgement's, the gap record's or the watch's.
TimerWaits ==
    /\ Free /\ ~st.stopping
    /\ \/ Judge(st.flight, HandlingDeadline + WalkBound).do # "Nothing"
       \/ st.gap.bound = "Waiting"
       \/ ~Busy(st) /\ Kept(st.watch)

\* All of them come.
LateTick ==
    /\ TimerWaits
    /\ Ticked(IF Busy(st) THEN HandlingDeadline + WalkBound ELSE st.now, TRUE, TRUE)
    /\ UNCHANGED <<posts, arrived, scenario>>

(***************************************************************************)
(* The reducer's thread goes on: it takes what is posted, carries out what *)
(* it asks before anything else, and wakes at its timers.  The worker and  *)
(* the application owe nothing.  Each conjunct is weak fairness of one of  *)
(* these, with the state that enables it written out.                      *)
(***************************************************************************)
Fairness ==
    /\ []<>~(Free /\ posts # <<>>) \/ []<><<posts' = Tail(posts)>>_posts
    /\ []<>~TimerWaits \/ []<><<LateTick>>_vars
    /\ []<>(st.asks = <<>>) \/ []<><<AnswerJudge \/ AnswerPublish \/ AnswerRelease \/ AnswerGap>>_vars
    /\ []<>~(Free /\ st.stopping /\ ~Busy(st)) \/ []<><<Exit>>_vars

-----------------------------------------------------------------------------
(* Properties.                                                             *)

\* A query is answered once: whatever cancels it, answers it, abandons or ends
\* the program that ran it, opens, takes, checks or ends its watch (lib.rs send,
\* abandoned, finished, answer_watch), Core is sent one reply to it, and one sent
\* by the time the outpost has exited.
AnsweredOnce ==
    \A q \in Queries :
        /\ Len(st.seen.replies[q]) <= 1
        /\ q \in st.queries => st.seen.replies[q] = <<>>
        /\ st.exited /\ Asked(q) => Len(st.seen.replies[q]) = 1

\* A query told not started was never given to a worker (lib.rs Input::Cancel):
\* Core asks it again, so one that ran would be done twice.
NotStartedNeverRan ==
    \A q \in st.seen.ran : \A i \in 1..Len(st.seen.replies[q]) :
        st.seen.replies[q][i] # "NotStarted"

\* The caret key's watch has an unanswered query, the program in flight holds it
\* if anyone does, and never answers it beside the watch (watch.rs, apply_watch).
WatchHasItsQuery ==
    /\ st.watch.at # "None" /\ ~st.exited => st.watch.q \in st.queries /\ st.current.running # st.watch.q
    /\ st.watch.at = "Checking" => Busy(st)

\* An idle answer means quiet: nothing that arrived before the round's query was
\* waiting, running or noted for later as it was sent, no watch was open and no
\* gap record waited for its bound (lib.rs answer_idle, run's barrier).
IdleMeansQuiet == st.seen.undone = {}

\* A destroyed window is never in the record of hung windows, whatever the
\* program begun before its destroy found (lib.rs destroy_seen, hang_seen).
DestroyedNotHung == st.hung \cap st.seen.gone = {}

\* A focus group that nothing reported has every older entry still to try kept
\* by the program in flight or in what runs next, through abandonments and the
\* reads of a dropped copy (lib.rs abandoned, finished, continue_group).
GroupContinues ==
    LET number == st.seen.try.number
        Kept1(g) == IF g.number = number THEN {g.older[i].n : i \in 1..Len(g.older)} ELSE {}
    IN  st.seen.left # {} /\ number \notin st.seen.reported =>
            st.seen.left \subseteq
                Kept1(st.current.group)
                \cup UNION {Kept1(st.after[i].group) \cup {st.after[i].e.n} :
                               i \in 1..Len(st.after)}

\* A focus is told once for each walk: claimed by the reducer at its bound or
\* reported by its worker, never both, and never neither when the program ends
\* normally (worker.rs Charge::returned and publish; lib.rs published).
WalkToldOnce == st.job.reports <= 1 /\ ~st.seen.walkUntold

\* No result is applied of a program whose walk was published, and the tries of
\* focus groups go forwards: a new group from its newest, or the same group's
\* next older entry, or its gap's read in the same try (lib.rs pump, Core's
\* group_taken drops a report of a try further back than one it took).
TriedInOrder ==
    [][LET was == st.seen.try
           is == st'.seen.try
       IN  is # was =>
              \/ is.number > was.number /\ is.rank = 0
              \/ is.number = was.number /\ is.rank = was.rank + 1]_vars

\* What the outpost tells Core is told once and is so: of queries, whatever
\* becomes of the programs and watches that hold them, of walks and of windows
\* that hang.
ToldOnce ==
    /\ AnsweredOnce /\ NotStartedNeverRan /\ WatchHasItsQuery
    /\ WalkToldOnce /\ DestroyedNotHung

\* A focus group is tried to its end, in order, through abandoned workers and
\* the reads of dropped copies.
GroupTried == []GroupContinues /\ TriedInOrder

\* Every query taken is answered, though the application answers nothing and the
\* worker never returns (lib.rs tick, abandoned; watch.rs reach).
EveryQueryAnswered ==
    \A q \in Queries : q \in st.queries ~> st.seen.replies[q] # <<>>

\* A gap record's bound is handled: it is told, read, found unrelated or answered
\* (lib.rs gap_bound, gap_bound_tested, run's GapBound).
GapHandled == Pending(st.gap) ~> (~Pending(st.gap) \/ st.stopping)

\* A round's query taken in is answered (lib.rs run's barrier, answer_idle),
\* whatever the watch, the gap record and the worker do.
RoundAnswered ==
    \A n \in 1..MaxLetters :
        (\E e \in Entries(st.intake) : IsBarrier(e) /\ e.n = n)
            ~> n \in st.seen.rounds \/ st.stopping

\* Everyone who waits for the outpost is answered in the end.
EverythingAnswered == EveryQueryAnswered /\ GapHandled /\ RoundAnswered
=============================================================================
