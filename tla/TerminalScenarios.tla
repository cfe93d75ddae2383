------------------------- MODULE TerminalScenarios -------------------------
(* What a terminal's program writes, and what happens meanwhile.            *)
EXTENDS Naturals

Limits(full, last, bytes) == [full_lines |-> full, last_lines |-> last, bytes |-> bytes]

Never == [event \in {"cuts", "interrupts", "toggles", "fails", "unread", "hung", "ends"} |-> 0]

Once(events) == [event \in DOMAIN Never |-> IF event \in events THEN 1 ELSE 0]

(* A program's output, with what happens meanwhile. *)
Program(limit, script, size, may) ==
    [limits |-> limit, script |-> script, size |-> size, may |-> may, lines |-> 0, sizes |-> {}]

(* The queue alone, with this many lines read, of these sizes. *)
Alone(limit, lines, sizes) ==
    [limits |-> limit, script |-> <<>>, size |-> 1, may |-> Never, lines |-> lines, sizes |-> sizes]

(* A flood, with lines that grow or are blank, cut off by a key; what goes  *)
(* wrong with speech and the outpost; an utterance that interrupts and a    *)
(* window that hangs; a read that loses track of the terminal; and a flood  *)
(* undisturbed.                                                             *)
MCScenarios ==
    {Program(Limits(2, 1, 100), <<"line", "line", "growth", "blank", "line">>, 1, Once({"cuts"})),
     Program(Limits(1, 1, 100), <<"line", "growth", "line">>, 1, Once({"toggles", "fails", "ends"})),
     Program(Limits(1, 1, 100), <<"line", "blank", "line">>, 1, Once({"interrupts", "unread", "hung"})),
     Program(Limits(2, 1, 4), <<"line", "line", "more", "line", "line">>, 2, Never),
     Program(Limits(3, 1, 100), <<"line", "line", "line", "line", "line", "line">>, 1, Never),
     Alone(Limits(2, 1, 100), 5, {1}),
     Alone(Limits(1, 1, 3), 4, {1, 4})}

(* A longer flood, more lines spoken in full than are handed on ahead.      *)
Stalls == {Program(Limits(2, 1, 100), <<"line", "line", "line", "line", "line", "line", "line">>, 1, Never)}
============================================================================
