----------------------------- MODULE MCReading -----------------------------
(* Instances of Core's two long readings, one to a behaviour: say all, the  *)
(* texts read and what happens meanwhile; and a terminal's output (module   *)
(* MCTerminal).                                                             *)
EXTENDS SayAll, TerminalScenarios

CONSTANT Outputs    \* what terminals say, and how it is disturbed

VARIABLES terminal, written, changed, reading, work, requests, messages, said, marks,
          now, running, used, limits, scenario

terminalVars == <<terminal, written, changed, reading, work, requests, messages, said, marks,
                  now, running, used, limits, scenario>>

World(doc, supported, keys, fails, refusals, ends) ==
    [doc |-> doc, supported |-> supported, keys |-> keys, fails |-> fails,
     refusals |-> refusals, ends |-> ends]

(* Lines: a sentence over two of them, a blank one, and an end unfinished. *)
Lines == << <<"none">>, <<"mid">>, <<>>, <<"none">> >>

(* Short lines, one sentence each. *)
Sentences == << <<"end">>, <<"mid">>, <<"end">> >>

(* Paragraphs split into sentences, one of them blank. *)
Paragraphs == << <<"end", "none">>, <<>>, <<"mid", "none">> >>

(* Two keys while lines are read; utterances that fail, reads not answered  *)
(* and an outpost that ends.                                                *)
MCWorlds ==
    {World(Tail(Lines), FALSE, 2, 0, 0, FALSE),
     World(Lines, FALSE, 1, 0, 0, FALSE),
     World(Sentences, TRUE, 1, 1, 0, TRUE),
     World(Paragraphs, TRUE, 1, 1, 1, FALSE)}

-----------------------------------------------------------------------------
NoOutput == Program(Limits(1, 1, 1), <<>>, 1, Never)

Terminal == INSTANCE MCTerminal WITH
    Scenarios <- Outputs, core <- terminal, speech <- said, port <- marks, alive <- running
MCOutputs == {NoOutput} \cup MCScenarios

ReadsOutput == scenario # NoOutput

\* A behaviour reads one of the documents, or one of the outputs.
MCInit ==
    /\ Init /\ Terminal!Init
    /\ ReadsOutput => world = CHOOSE w \in Worlds : TRUE
MCNext ==
    \/ ~ReadsOutput /\ Next /\ UNCHANGED terminalVars
    \/ ReadsOutput /\ Terminal!MCNext /\ UNCHANGED vars
MCSpec == MCInit /\ [][MCNext]_<<vars, terminalVars>>

-----------------------------------------------------------------------------
(* What MCTerminal says of a terminal's output: it is spoken in its place   *)
(* or counted (terminal.rs, reading.rs), and all of it is read in the end.  *)
OutputAccounted == Terminal!OutputAccounted
AllRead == Terminal!AllRead
============================================================================
