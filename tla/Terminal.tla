------------------------------ MODULE Terminal ------------------------------
(***************************************************************************)
(* One process from its command line to the last line it writes: main,     *)
(* which parses (Cli) and runs the sender or the receiver (Console) with   *)
(* the Options that Parse returned.                                        *)
(***************************************************************************)
EXTENDS Cli, Console

CONSTANT MaxRun   \* BOUND: arguments of a command line that is run

vars == <<cliVars, consoleVars>>

\* There is no session yet.
NoCall == <<>>

\* RunSend or RunReceive is entered.  What is sent, and whether stderr is a
\* terminal, is not the command line's matter.
Launch ==
    /\ pc = "main" /\ status \in {"run sender", "run receiver"}
    /\ Len(args) <= MaxRun
    /\ pc' = "start"
    /\ call' \in {c \in Calls : /\ c.receives = (status = "run receiver")
                                /\ c.verbose = opts.verbose
                                /\ c.no_progress = opts.no_progress}
    /\ UNCHANGED <<cliVars, nth, left, now, bar, level, column>>

Init == CliInit /\ call = NoCall /\ pc = "main" /\ AtRest

Next ==
    \/ CliNext /\ UNCHANGED consoleVars
    \/ Launch
    \/ pc # "main" /\ ConsoleNext /\ UNCHANGED cliVars

Spec == Init /\ [][Next]_vars
=============================================================================
