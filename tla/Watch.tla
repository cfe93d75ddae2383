-------------------------------- MODULE Watch --------------------------------
(***************************************************************************)
(* The caret key's watch (verbatim-outpost-logic, watch.rs): the one wait, *)
(* after a caret key, for the application to move its caret.  It belongs   *)
(* to the key's query and is on the text it was pressed in.  Its times are *)
(* left out: whether its bound, its next poll read or its last one has     *)
(* come is an argument.  resume is where a held watch goes back to.        *)
(***************************************************************************)
NoQuery == "no query"

NoWatch == [at |-> "None", q |-> NoQuery, node |-> "none", resume |-> "none"]

\* kept: waiting or polling, so a program may take it.
Kept(w) == w.at \in {"Waiting", "Polling"}

\* opened: from no watch only, polled when the node is a console's.
Opened(w, q, node, console) ==
    IF w.at # "None" THEN w
    ELSE [at |-> IF console THEN "Polling" ELSE "Waiting", q |-> q, node |-> node,
          resume |-> "none"]

\* take: held by the program that checks it, on the node it is on only.
TakeWatch(w, node) ==
    IF Kept(w) /\ w.node = node THEN [w EXCEPT !.at = "Checking", !.resume = w.at] ELSE w

(***************************************************************************)
(* What a transition leaves and the answer it gives to the watch's query,  *)
(* "none" when it gives none.                                              *)
(***************************************************************************)
Still(w) == [watch |-> w, answer |-> "none"]
Answered(answer) == [watch |-> NoWatch, answer |-> answer]

\* checked: dropped when no watch is held; a poll read past the last ends it.
Checked(w, evidence, past) ==
    CASE w.at # "Checking" -> Still(w)
      [] w.at = "Checking" /\ evidence -> Answered("Evidence")
      [] w.at = "Checking" /\ ~evidence /\ w.resume = "Read" /\ past -> Answered("WatchEnded")
      [] w.at = "Checking" /\ ~evidence /\ w.resume = "Read" /\ ~past ->
            Still([w EXCEPT !.at = "Polling", !.resume = "none"])
      [] OTHER -> Still([w EXCEPT !.at = w.resume, !.resume = "none"])

\* end, in any state, and end_kept, of a watch no program holds.
EndWatch(w) == IF w.at = "None" THEN Still(w) ELSE Answered("WatchEnded")
EndKept(w) == IF Kept(w) THEN EndWatch(w) ELSE Still(w)

\* reach, of a due time come: a waiting watch ends, a polled one is read.
Reach(w) ==
    CASE w.at = "Waiting" -> Answered("WatchEnded")
      [] w.at = "Polling" -> Still([w EXCEPT !.at = "Checking", !.resume = "Read"])
      [] OTHER -> Still(w)

\* abandoned and program_ended: the program holding it was abandoned, or ended.
HolderAbandoned(w) == IF w.at = "Checking" THEN Answered("Abandoned") ELSE Still(w)
HolderEnded(w) == IF w.at = "Checking" THEN Answered("WatchEnded") ELSE Still(w)
=============================================================================
