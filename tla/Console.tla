------------------------------- MODULE Console -------------------------------
(***************************************************************************)
(* What a process writes to stderr during a session: the progress bar of   *)
(* common/progress.cpp and the log lines of common/logging.cpp, as the     *)
(* loops of SendPaths and ReceiveStream drive them.                        *)
(***************************************************************************)
EXTENDS Integers, Sequences

CONSTANTS
    Plan,       \* the sessions: sequences of file sizes
    Block,      \* the bytes of one Add, at most
    Interval,   \* the throttle's 100 ms, in ticks
    MaxTime     \* BOUND: ticks of the clock

ASSUME ConsoleAssumption ==
    /\ Plan \subseteq Seq(Nat)
    /\ {Block, Interval} \subseteq Nat \ {0}
    /\ MaxTime \in Nat

VARIABLES
    call,     \* the plan, the options, the role, and whether stderr is a terminal
    pc,       \* where the session is
    nth,      \* files done
    left,     \* bytes of the current file still to come
    now,      \* the clock
    bar,      \* the Progress object
    level,    \* g_level
    column    \* where the cursor is: "start" of a line, or behind the "bar"

consoleVars == <<call, pc, nth, left, now, bar, level, column>>

Levels == [DEBUG |-> 0, INFO |-> 1, WARN |-> 2, ERROR |-> 3]

Least(a, b) == IF a < b THEN a ELSE b

\* The bytes of the first k files of a plan, and of all files of the session's.
Bytes(plan) == LET sum[k \in 0..Len(plan)] == IF k = 0 THEN 0 ELSE sum[k - 1] + plan[k] IN sum
Total == Bytes(call.plan)[Len(call.plan)]

-----------------------------------------------------------------------------
(* What is written. *)

\* A log line ends with a newline; nothing below g_level is written.
Log(lvl) == column' = IF Levels[lvl] >= Levels[level] THEN "start" ELSE column

Quiet == UNCHANGED column

NewBar ==
    [total |-> Total, done |-> 0, last |-> now,
     enabled |-> call.tty /\ ~call.no_progress, finished |-> FALSE]

\* It begins with a carriage return, and only the final one ends with a newline.
Render(final) == column' = IF final THEN "start" ELSE "bar"

\* Mutant: bytes count only when the bar is drawn.
AddDrawn(n) ==
    IF bar.enabled /\ ~bar.finished /\ now - bar.last >= Interval
    THEN bar' = [bar EXCEPT !.done = @ + n, !.last = now] /\ Render(FALSE)
    ELSE UNCHANGED bar /\ Quiet

Add(n) ==
    LET b == [bar EXCEPT !.done = @ + n]
    IN  IF b.enabled /\ ~b.finished /\ now - b.last >= Interval
        THEN bar' = [b EXCEPT !.last = now] /\ Render(FALSE)
        ELSE bar' = b /\ Quiet

\* Mutant: the last line is drawn like the others.
FinishLikeAdd ==
    /\ bar' = [bar EXCEPT !.finished = TRUE]
    /\ IF bar.enabled /\ ~bar.finished THEN Render(FALSE) ELSE Quiet

Finish ==
    /\ bar' = [bar EXCEPT !.finished = TRUE]
    /\ IF bar.enabled /\ ~bar.finished THEN Render(TRUE) ELSE Quiet

-----------------------------------------------------------------------------
(* The session. *)

\* SetLevel, and the line about the connection.
Run ==
    /\ pc = "start"
    /\ level' = IF call.verbose THEN "DEBUG" ELSE "INFO"
    /\ pc' = "connected"
    /\ Quiet
    /\ UNCHANGED <<call, nth, left, now, bar>>

\* After the handshake: the line about the session, then the bar.
Begin ==
    /\ pc = "connected"
    /\ pc' = "files"
    /\ bar' = NewBar
    /\ Log("INFO")
    /\ UNCHANGED <<call, nth, left, now, level>>

NextFile ==
    /\ pc = "files" /\ nth < Len(call.plan)
    /\ pc' = "payload"
    /\ left' = call.plan[nth + 1]
    /\ Quiet
    /\ UNCHANGED <<call, nth, now, bar, level>>

\* Any part of a block at a time: SendFromFd may stop earlier.
Transferred ==
    /\ pc = "payload" /\ left > 0
    /\ \E n \in 1..Least(Block, left) : Add(n) /\ left' = left - n
    /\ UNCHANGED <<call, pc, nth, now, level>>

FileDone ==
    /\ pc = "payload" /\ left = 0
    /\ pc' = "files"
    /\ nth' = nth + 1
    /\ IF call.receives THEN Log("DEBUG") ELSE Quiet
    /\ UNCHANGED <<call, left, now, bar, level>>

\* Any step of a session may fail; the bar is left as it is.
Fail ==
    /\ pc \in {"connected", "files", "payload"}
    /\ pc' = "ended"
    /\ Log("ERROR")
    /\ UNCHANGED <<call, nth, left, now, bar, level>>

\* A receiver goes on without the trailer, and says so.
Trailer ==
    /\ pc = "files" /\ nth = Len(call.plan)
    /\ pc' = "trailer"
    /\ Quiet \/ (call.receives /\ Log("WARN"))
    /\ UNCHANGED <<call, nth, left, now, bar, level>>

FinishBar ==
    /\ pc = "trailer"
    /\ pc' = "finished"
    /\ Finish
    /\ UNCHANGED <<call, nth, left, now, level>>

End ==
    /\ pc = "finished"
    /\ pc' = "ended"
    /\ Log("INFO")
    /\ UNCHANGED <<call, nth, left, now, bar, level>>

Tick ==
    /\ now < MaxTime
    /\ now' = now + 1
    /\ UNCHANGED <<call, pc, nth, left, bar, level, column>>

Calls ==
    [plan : Plan, tty : BOOLEAN, receives : BOOLEAN, verbose : BOOLEAN, no_progress : BOOLEAN]

\* Nothing is written yet.
AtRest ==
    /\ nth = 0 /\ left = 0 /\ now = 0
    /\ bar = [total |-> 0, done |-> 0, last |-> 0, enabled |-> FALSE, finished |-> FALSE]
    /\ level = "INFO"
    /\ column = "start"

ConsoleNext ==
    \/ Run \/ Begin \/ NextFile \/ Transferred \/ FileDone \/ Fail \/ Trailer \/ FinishBar \/ End
    \/ Tick

-----------------------------------------------------------------------------
(* Properties. *)

\* The bar counts what was moved, drawn or not: never more than the total the
\* header announced, and all of it when it is finished, however the payload was
\* cut and the drawing throttled.
CountsToTotal ==
    pc \in {"files", "payload", "trailer", "finished"} =>
        bar.done <= bar.total /\ (bar.finished => bar.done = bar.total)

\* progress.h:8 says that after Finish the next console output begins cleanly
\* on a new line: also when the bar was never drawn before, when messages were
\* printed behind it, and when there is no bar.
CleanAfterFinish == pc = "finished" => column = "start"
=============================================================================
