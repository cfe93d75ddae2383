---------------------------- MODULE TerminalQueue ----------------------------
(* The queue of a terminal's output that waits to be spoken, of             *)
(* verbatim-core/src/terminal.rs: how what a read says is added to it, how  *)
(* it is kept within its bounds, and how the flood policy skips what it     *)
(* does not speak.  Pure operators on sequences of items.                   *)
(*                                                                          *)
(* An item is a line (its number, how a skipped count counts it, whether it *)
(* is blank, its size, when its read began), a growth of the line before    *)
(* it, a skipped count, or the note that the line before it was cut.  A     *)
(* line's text is abstracted to its number and its size.                    *)
EXTENDS Naturals, Sequences, SequencesExt

VARIABLE
    limits      \* the settings in force, and the most bytes of output waiting

full_lines == limits.full_lines         \* "Lines spoken in full"
last_lines == limits.last_lines         \* "Last lines to speak"
MAX_WAITING_BYTES == limits.bytes

NoGroup == 1000         \* no burst of output: `None`
NoCount == <<"none", 0>>

-----------------------------------------------------------------------------
(* Items *)

Line(id, counted, blank, size, at) ==
    [kind |-> "line", id |-> id, counted |-> counted, blank |-> blank, size |-> size, at |-> at]

Growth(id, size, at) == [kind |-> "growth", id |-> id, blank |-> FALSE, size |-> size, at |-> at]

SkippedItem(count) == [kind |-> "skipped", count |-> count]

CutItem == [kind |-> "cut"]

Count(n) == <<"count", n>>
Uncounted == <<"uncounted", 0>>
MoreThan(n) == <<"more", n>>
About(n) == <<"about", n>>

is_line(item) == item.kind = "line"

belongs(item) == item.kind \in {"growth", "cut"}

is_mark(item) == item.kind = "skipped" /\ item.count = MoreThan(0)

Lines(waiting) == Len(SelectSeq(waiting, is_line))

(* One count followed by a newer one. *)
plus(a, b) ==
    CASE a[1] = "count" /\ b[1] = "count" -> Count(a[2] + b[2])
      [] b[1] = "more" -> b
      [] a[1] = "more" /\ b[1] \in {"count", "about"} -> MoreThan(a[2] + b[2])
      [] a[1] \in {"count", "about"} /\ b[1] \in {"count", "about"} -> About(a[2] + b[2])
      [] OTHER -> Uncounted

(* The count so far with one more line that counts as `counted`. *)
with_line(skipped, counted) ==
    LET so_far == IF skipped = NoCount THEN Count(0) ELSE skipped IN
    CASE so_far[1] = "more" -> plus(so_far, Count(1))
      [] counted = "more" -> plus(so_far, MoreThan(1))
      [] counted = "about" -> plus(so_far, About(1))
      [] OTHER -> plus(so_far, Count(1))

with_count(skipped, count) == IF skipped = NoCount THEN count ELSE plus(skipped, count)

-----------------------------------------------------------------------------
(* Adding what a read says *)

(* The items the output among what a read says makes.  A lost read's count  *)
(* of none gives its kind to the lines after it, and waits itself unless it *)
(* is "about"; a line larger than the bound is cut.                         *)
added(items) ==
    LET Step(so_far, item) ==
          IF item.kind = "skipped"
          THEN [counted |-> CASE item.count = About(0) -> "about"
                              [] item.count = MoreThan(0) -> "more"
                              [] OTHER -> so_far.counted,
                out |-> IF item.count = About(0) THEN so_far.out ELSE Append(so_far.out, item)]
          ELSE LET kept == IF is_line(item) THEN [item EXCEPT !.counted = so_far.counted] ELSE item
               IN  [so_far EXCEPT !.out =
                      @ \o IF item.size <= MAX_WAITING_BYTES THEN <<kept>>
                           ELSE <<[kept EXCEPT !.size = MAX_WAITING_BYTES], CutItem>>]
    IN  FoldLeft(Step, [counted |-> "exactly", out |-> <<>>], items).out

(* Adds an item, a skipped count merged with one that is last already. *)
push(waiting, item) ==
    IF item.kind = "skipped" /\ waiting # <<>> /\ Last(waiting).kind = "skipped"
    THEN [waiting EXCEPT ![Len(waiting)].count = plus(@, item.count)]
    ELSE Append(waiting, item)

(* Where the backlog starts: past the lines the group still hands to        *)
(* speech, anything among them, and what belongs to the last of them.       *)
backlog_start(waiting, group_left) ==
    IF group_left = 0 THEN 0
    ELSE IF Lines(waiting) < group_left THEN Len(waiting)
    ELSE LET last == CHOOSE i \in DOMAIN waiting :
                        is_line(waiting[i]) /\ Lines(SubSeq(waiting, 1, i)) = group_left
         IN  CHOOSE i \in last..Len(waiting) :
                /\ \A j \in last + 1..i : belongs(waiting[j])
                /\ i < Len(waiting) => ~belongs(waiting[i + 1])

(* What a pass that drops the oldest lines of the backlog knows: how many   *)
(* lines are still to go, the count of those gone, whether the last item    *)
(* dropped was a line, and whether an item was kept.                        *)
Drops(pass, item) ==
    CASE item.kind = "skipped" -> TRUE
      [] belongs(item) -> pass.in_line \/ pass.dropping > 0
      [] OTHER -> pass.dropping > 0

Dropped(pass, item) ==
    CASE is_line(item) ->
           [pass EXCEPT !.skipped = with_line(@, item.counted), !.in_line = TRUE,
                        !.dropping = @ - 1]
      [] item.kind = "skipped" ->
           [pass EXCEPT !.skipped = with_count(@, item.count), !.in_line = FALSE]
      [] OTHER -> pass

(* The count a pass leaves in the place of what it dropped. *)
CountOf(pass) ==
    IF pass.skipped \in {NoCount, Count(0)} THEN <<>> ELSE <<SkippedItem(pass.skipped)>>

(* Everything from `start` on but the newest `keep` lines replaced by one   *)
(* skipped count.                                                           *)
skip_all_but(waiting, start, keep) ==
    LET backlog == SubSeq(waiting, start + 1, Len(waiting))
        lines == Lines(backlog)
        Step(pass, item) ==
          IF pass.kept \/ ~Drops(pass, item) THEN [pass EXCEPT !.kept = TRUE]
          ELSE [Dropped(pass, item) EXCEPT !.gone = @ + 1]
        pass == FoldLeft(Step,
                         [dropping |-> IF lines > keep THEN lines - keep ELSE 0,
                          skipped |-> NoCount, in_line |-> FALSE, kept |-> FALSE, gone |-> 0],
                         backlog)
    IN  SubSeq(waiting, 1, start) \o CountOf(pass)
          \o SubSeq(backlog, pass.gone + 1, Len(backlog))

(* The queue rebuilt in one pass while the backlog is over its bound: the   *)
(* group and what belongs to its last line kept, then the oldest lines of   *)
(* the backlog counted into one skipped count, then the rest kept.          *)
BoundedStep(pass, item) ==
    LET in_group == pass.group_left # NoGroup /\ (pass.group_left > 0 \/ belongs(item))
        now == IF pass.group_left = NoGroup \/ in_group THEN pass
               ELSE [pass EXCEPT !.group_left = NoGroup, !.skipping = TRUE]
    IN  CASE in_group ->
               [pass EXCEPT !.out = Append(@, item),
                            !.group_left = IF is_line(item) /\ @ > 0 THEN @ - 1 ELSE @]
          [] now.skipping /\ Drops(now, item) -> Dropped(now, item)
          [] now.skipping /\ ~Drops(now, item) ->
               [now EXCEPT !.skipping = FALSE, !.out = @ \o CountOf(now) \o <<item>>]
          [] OTHER -> [now EXCEPT !.out = Append(@, item)]

bounded(waiting, group_left, dropping) ==
    LET pass == FoldLeft(BoundedStep,
                         [out |-> <<>>, group_left |-> IF group_left > 0 THEN group_left ELSE NoGroup,
                          skipping |-> group_left = 0, dropping |-> dropping,
                          skipped |-> NoCount, in_line |-> FALSE],
                         waiting)
    IN  pass.out \o IF pass.skipping THEN CountOf(pass) ELSE <<>>

(* How many lines the backlog may hold: as many as either limit keeps. *)
keep == IF full_lines > last_lines THEN full_lines ELSE last_lines

(* Adds what a read says, the backlog behind the group kept within bounds. *)
queue(waiting, group, items) ==
    LET group_left == IF group = NoGroup THEN 0 ELSE group
        all == FoldLeft(push, waiting, added(items))
        lines == Lines(waiting) + Lines(items)
        backlog == IF lines > group_left THEN lines - group_left ELSE 0
    IN  IF backlog <= keep THEN all ELSE bounded(all, group_left, backlog - keep)

Bytes(waiting) ==
    FoldLeft(LAMBDA sum, item : sum + item.size, 0,
             SelectSeq(waiting, LAMBDA item : item.kind \in {"line", "growth"}))

(* One line dropped to fit the byte bound: the backlog's oldest, else the   *)
(* group's, whose lines left go down by one.  A line goes with what belongs *)
(* to it and joins the count just before it.                                *)
drop_at(k, at, start) ==
    LET item == k.waiting[at]
        end == IF ~is_line(item) THEN at
               ELSE CHOOSE i \in at..Len(k.waiting) :
                      /\ \A j \in at + 1..i : belongs(k.waiting[j])
                      /\ i < Len(k.waiting) => ~belongs(k.waiting[i + 1])
        joins == is_line(item) /\ at > 1 /\ k.waiting[at - 1].kind = "skipped"
        before == SubSeq(k.waiting, 1, IF joins THEN at - 2 ELSE at - 1)
        count == IF ~is_line(item) THEN <<>>
                 ELSE <<SkippedItem(with_line(IF joins THEN k.waiting[at - 1].count ELSE NoCount,
                                              item.counted))>>
    IN  [k EXCEPT !.waiting = before \o count \o SubSeq(@, end + 1, Len(@)),
                  !.group = IF at <= start /\ @ # NoGroup /\ @ > 0 THEN @ - 1 ELSE @]

bound_one(k) ==
    LET texts == {i \in DOMAIN k.waiting : k.waiting[i].kind \in {"line", "growth"}}
        First(pick) == CHOOSE i \in pick : \A j \in pick : i <= j
        Behind(start, behind) == drop_at(k, First(IF behind # {} THEN behind ELSE texts), start)
        From(start) == Behind(start, {i \in texts : i > start})
    IN  From(backlog_start(k.waiting, IF k.group = NoGroup THEN 0 ELSE k.group))

(* Keeps everything waiting within the byte bound. *)
RECURSIVE bound(_)
bound(k) == IF Bytes(k.waiting) <= MAX_WAITING_BYTES THEN k ELSE bound(bound_one(k))

-----------------------------------------------------------------------------
(* The flood policy's decision *)

(* Whether what waits from `start` on is skipped once it is looked at. *)
skips(waiting, start) ==
    LET backlog == SubSeq(waiting, start + 1, Len(waiting))
        counts == SelectSeq(backlog, LAMBDA item : item.kind = "skipped" /\ ~is_mark(item))
        skipped == FoldLeft(LAMBDA so_far, item : plus(so_far, item.count), Count(0), counts)
    IN  skipped[1] = "count" => Lines(backlog) + skipped[2] > full_lines

(* Whether a skip of the backlog's first item will say "more than". *)
skip_says_more_than(waiting, group_left) ==
    LET start == backlog_start(waiting, group_left) IN
    /\ start < Len(waiting)
    /\ LET first == waiting[start + 1] IN
       \/ first.kind = "skipped" /\ first.count[1] = "more" /\ skips(waiting, start)
       \/ /\ is_line(first) /\ first.counted = "more"
          /\ skips(waiting, start)
          /\ Lines(SubSeq(waiting, start + 1, Len(waiting))) > last_lines

(* The next group, once the one spoken has been heard: what waits, but only *)
(* its newest lines when too many wait; with nothing waiting, no burst.     *)
decide(k) ==
    IF k.waiting = <<>> THEN [k EXCEPT !.group = NoGroup]
    ELSE LET Left(lines, over) == IF over /\ lines > last_lines THEN last_lines ELSE lines
             Group(left) == IF full_lines > left THEN full_lines ELSE left
             Decided(over) ==
                 [k EXCEPT !.waiting = IF over THEN skip_all_but(@, 0, last_lines) ELSE @,
                           !.group = Group(Left(Lines(k.waiting), over))]
         IN  Decided(skips(k.waiting, 0))

=============================================================================
