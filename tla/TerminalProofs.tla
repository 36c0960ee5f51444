---------------------------- MODULE TerminalProofs ----------------------------
(***************************************************************************)
(* What a process makes of its command line, and what it writes to its     *)
(* terminal: proofs about module Terminal.  Its two parts, Console and     *)
(* Cli, have an invariant each.                                            *)
(***************************************************************************)
EXTENDS Terminal, Induction, SequenceTheorems, FiniteSetTheorems

-----------------------------------------------------------------------------
(* The progress bar. *)

\* The sums of a plan: a recursive definition, and what it says.
LEMMA BytesRec ==
    ASSUME NEW plan \in Seq(Nat)
    PROVE  /\ Bytes(plan) \in [0..Len(plan) -> Nat]
           /\ Bytes(plan)[0] = 0
           /\ \A k \in 1..Len(plan) : Bytes(plan)[k] = Bytes(plan)[k - 1] + plan[k]
<1> DEFINE step == [k \in 1..Len(plan) |-> [sum \in Nat |-> sum + plan[k]]]
<1>1. Len(plan) \in Nat /\ \A k \in 1..Len(plan) : plan[k] \in Nat
  OBVIOUS
<1>2. step \in [1..Len(plan) -> [Nat -> Nat]] /\ 0 \in Nat
  BY <1>1
<1>3. \A k \in 1..Len(plan), sum \in Nat : step[k][sum] = sum + plan[k]
  OBVIOUS
<1> HIDE DEF step
<1>4. PICK f : Unfolds(f, Len(plan), 0, step)
  BY <1>1, <1>2, Recursion
<1>5. \A k \in 0..Len(plan) : f[k] \in Nat
  BY <1>1, <1>2, <1>4, RecursionType
<1>6. \A k \in 1..Len(plan) : f[k] = f[k - 1] + plan[k]
  <2> SUFFICES ASSUME NEW k \in 1..Len(plan) PROVE f[k] = f[k - 1] + plan[k]
    OBVIOUS
  <2>1. k - 1 \in 0..Len(plan)
    BY <1>1
  <2> QED
    BY <2>1, <1>3, <1>4, <1>5 DEF Unfolds
<1>7. f = [k \in 0..Len(plan) |-> IF k = 0 THEN 0 ELSE f[k - 1] + plan[k]]
  <2>1. f = [k \in 0..Len(plan) |-> f[k]]
    BY <1>4 DEF Unfolds
  <2>2. f[0] = 0
    BY <1>4 DEF Unfolds
  <2>3. \A k \in 0..Len(plan) : f[k] = IF k = 0 THEN 0 ELSE f[k - 1] + plan[k]
    BY <1>1, <1>6, <2>2
  <2> QED
    BY <2>1, <2>3
<1> DEFINE b == Bytes(plan)
<1>8. b = [k \in 0..Len(plan) |-> IF k = 0 THEN 0 ELSE b[k - 1] + plan[k]]
  BY <1>7 DEF Bytes
<1> HIDE DEF b
<1>9. /\ DOMAIN b = 0..Len(plan) /\ b = [k \in 0..Len(plan) |-> b[k]]
      /\ b[0] = 0
      /\ \A k \in 1..Len(plan) : b[k] = b[k - 1] + plan[k]
  BY <1>1, <1>8
<1> DEFINE S == {k \in 0..Len(plan) : b[k] \in Nat}
<1>10. 0 \in S
  BY <1>1, <1>9
<1>11. ASSUME NEW k \in 1..Len(plan), k - 1 \in S PROVE k \in S
  BY <1>1, <1>9, <1>11
<1> HIDE DEF S
<1>12. 0..Len(plan) \subseteq S
  BY <1>1, <1>10, <1>11, InductUpTo
<1>13. b \in [0..Len(plan) -> Nat]
  BY <1>9, <1>12 DEF S
<1> QED
  BY <1>9, <1>13 DEF b

\* The first files have no more bytes than all of them.
LEMMA BytesGrow ==
    ASSUME NEW plan \in Seq(Nat), NEW k \in 0..Len(plan)
    PROVE  Bytes(plan)[k] <= Bytes(plan)[Len(plan)]
<1> DEFINE b == Bytes(plan)
           N == Len(plan)
           S == {j \in 0..N : b[N - j] <= b[N]}
<1>1. /\ N \in Nat /\ b \in [0..N -> Nat]
      /\ \A j \in 1..N : b[j] = b[j - 1] + plan[j] /\ plan[j] \in Nat
  BY BytesRec
<1> HIDE DEF b, N
<1>2. 0 \in S
  BY <1>1
<1>3. ASSUME NEW j \in 1..N, j - 1 \in S PROVE j \in S
  <2>1. N - (j - 1) \in 1..N /\ N - (j - 1) - 1 = N - j /\ N - j \in 0..N
    BY <1>1
  <2>2. b[N - (j - 1)] = b[N - j] + plan[N - (j - 1)] /\ plan[N - (j - 1)] \in Nat
    BY <1>1, <2>1
  <2>3. b[N - j] \in Nat /\ b[N - (j - 1)] \in Nat /\ b[N] \in Nat
    BY <1>1, <2>1
  <2>4. b[N - (j - 1)] <= b[N]
    BY <1>3
  <2> QED
    BY <2>2, <2>3, <2>4
<1> HIDE DEF S
<1>4. 0..N \subseteq S
  BY <1>1, <1>2, <1>3, InductUpTo
<1>5. N - k \in 0..N /\ N - (N - k) = k
  BY <1>1 DEF N
<1>6. N - k \in S
  BY <1>4, <1>5
<1>7. b[k] <= b[N]
  BY <1>5, <1>6 DEF S
<1> QED
  BY <1>7 DEF b, N

ConsoleTypeOK ==
    /\ call \in Calls
    /\ pc \in {"start", "connected", "files", "payload", "trailer", "finished", "ended"}
    /\ nth \in 0..Len(call.plan)
    /\ {left, now} \subseteq Nat
    /\ bar \in [total : Nat, done : Nat, last : Nat, enabled : BOOLEAN, finished : BOOLEAN]

\* What the bar has counted are the files done, and of the current one what is
\* not still to come.
Tallied ==
    /\ pc \in {"start", "connected"} => nth = 0
    /\ pc \in {"files", "payload", "trailer", "finished"} => bar.total = Total
    /\ pc = "files" => bar.done = Bytes(call.plan)[nth]
    /\ pc = "payload" => nth < Len(call.plan) /\ bar.done + left = Bytes(call.plan)[nth + 1]
    /\ pc \in {"trailer", "finished"} => bar.done = Total

\* The cursor is behind a bar only if the bar can be drawn, and so will be once
\* more by Finish.
Drawn ==
    /\ pc \in {"start", "connected", "finished"} => column = "start"
    /\ pc \in {"files", "payload", "trailer"} =>
          ~bar.finished /\ (column = "start" \/ bar.enabled)

ConsoleInv == ConsoleTypeOK /\ Tallied /\ Drawn

LEMMA PlanType ==
    ASSUME call \in Calls
    PROVE  /\ call.plan \in Seq(Nat) /\ Len(call.plan) \in Nat
           /\ \A k \in 1..Len(call.plan) : call.plan[k] \in Nat
           /\ {call.tty, call.no_progress} \subseteq BOOLEAN
BY ConsoleAssumption DEF ConsoleAssumption, Calls

\* A session starts as it must, whatever it is to send.
LEMMA ConsoleInitially ==
    ASSUME call \in Calls, pc = "start", AtRest
    PROVE  ConsoleInv
BY PlanType DEF AtRest, ConsoleInv, ConsoleTypeOK, Tallied, Drawn

\* A line of the log leaves the cursor where it is, or at the start of a line.
LEMMA LogStarts ==
    ASSUME NEW lvl, Log(lvl)
    PROVE  column' \in {"start", column}
BY DEF Log

LEMMA ConsolePreserved == ConsoleInv /\ [ConsoleNext]_consoleVars => ConsoleInv'
<1> SUFFICES ASSUME ConsoleInv, [ConsoleNext]_consoleVars PROVE ConsoleInv'
  OBVIOUS
<1> DEFINE b == Bytes(call.plan)
           N == Len(call.plan)
<1>a. ConsoleTypeOK /\ Tallied /\ Drawn
  BY DEF ConsoleInv
<1>b. /\ N \in Nat /\ b \in [0..N -> Nat] /\ b[0] = 0 /\ Total = b[N]
      /\ \A k \in 1..N : b[k] = b[k - 1] + call.plan[k] /\ call.plan[k] \in Nat
  BY <1>a, PlanType, BytesRec DEF ConsoleTypeOK, Total
<1>c. call' = call
  BY DEF ConsoleNext, consoleVars, Run, Begin, NextFile, Transferred, FileDone, Fail, Trailer,
         FinishBar, End, Tick
<1>d. b' = b /\ N' = N /\ Total' = Total
  BY <1>c DEF Total
<1> HIDE DEF b, N
<1>1. CASE Run
  BY <1>1, <1>a DEF Run, Quiet, ConsoleInv, ConsoleTypeOK, Tallied, Drawn
<1>2. CASE Begin
  <2>1. column' = "start"
    BY <1>2, <1>a, LogStarts DEF Begin, Drawn
  <2>2. bar'.total = Total /\ bar'.done = 0 /\ bar'.finished = FALSE
    BY <1>2 DEF Begin, NewBar
  <2>3. ConsoleTypeOK'
    BY <1>2, <1>a, <1>b, PlanType DEF Begin, NewBar, ConsoleTypeOK
  <2>4. nth' = 0 /\ pc' = "files"
    BY <1>2, <1>a DEF Begin, Tallied
  <2> QED
    BY <2>1, <2>2, <2>3, <2>4, <1>b, <1>d DEF ConsoleInv, Tallied, Drawn, b
<1>3. CASE NextFile
  <2>1. nth + 1 \in 1..N /\ nth \in 0..N /\ (nth + 1) - 1 = nth
    BY <1>3, <1>a, <1>b DEF NextFile, ConsoleTypeOK, N
  <2>2. left' = call.plan[nth + 1] /\ left' \in Nat /\ b[nth + 1] = b[nth] + left'
    BY <1>3, <1>b, <2>1 DEF NextFile
  <2>3. /\ bar.done = b[nth] /\ b[nth] \in Nat
        /\ pc = "files" /\ pc' = "payload" /\ UNCHANGED <<nth, now, bar, column>>
    BY <1>3, <1>a, <1>b, <2>1 DEF NextFile, Quiet, Tallied, b
  <2>4. ConsoleTypeOK'
    BY <1>a, <1>c, <2>2, <2>3 DEF ConsoleTypeOK
  <2>5. Tallied'
    BY <1>a, <1>b, <1>d, <2>1, <2>2, <2>3 DEF Tallied, b, N
  <2>6. Drawn'
    BY <1>a, <2>3 DEF Drawn
  <2> QED
    BY <2>4, <2>5, <2>6 DEF ConsoleInv
<1>4. CASE Transferred
  <2>1. PICK n \in 1..Least(Block, left) : Add(n) /\ left' = left - n
    BY <1>4 DEF Transferred
  <2>2. n \in Nat /\ n <= left /\ left \in Nat
    BY <2>1, <1>a, ConsoleAssumption DEF ConsoleAssumption, Least, ConsoleTypeOK
  <2> DEFINE Bars == [total : Nat, done : Nat, last : Nat, enabled : BOOLEAN, finished : BOOLEAN]
             c == [bar EXCEPT !.done = @ + n]
  <2>e. bar \in Bars /\ now \in Nat
    BY <1>a DEF ConsoleTypeOK
  <2>f. c \in Bars /\ c.total = bar.total /\ c.done = bar.done + n
        /\ c.enabled = bar.enabled /\ c.finished = bar.finished
    BY <2>2, <2>e
  <2>g. bar' = c \/ bar' = [c EXCEPT !.last = now]
    BY <2>1 DEF Add
  <2>4. column' = column \/ c.enabled
    BY <2>1, Zenon DEF Add, Quiet
  <2> HIDE DEF c
  <2>3. /\ bar' \in Bars
        /\ bar'.total = bar.total /\ bar'.done = bar.done + n
        /\ bar'.enabled = bar.enabled /\ bar'.finished = bar.finished
    BY <2>e, <2>f, <2>g
  <2>5. pc = "payload" /\ UNCHANGED <<pc, nth, now>>
    BY <1>4 DEF Transferred
  <2>6. ConsoleTypeOK'
    BY <1>a, <1>c, <2>1, <2>2, <2>3, <2>5 DEF ConsoleTypeOK
  <2>7. Tallied'
    <3>1. bar.done \in Nat /\ left' = left - n
      BY <1>a, <2>1 DEF ConsoleTypeOK
    <3>2. bar'.done + left' = bar.done + left
      BY <3>1, <2>2, <2>3
    <3> QED
      BY <1>a, <1>d, <2>3, <2>5, <3>2 DEF Tallied, b, N
  <2>8. Drawn'
    BY <1>a, <2>3, <2>4, <2>5, <2>f DEF Drawn
  <2> QED
    BY <2>6, <2>7, <2>8 DEF ConsoleInv
<1>5. CASE FileDone
  <2>1. nth + 1 \in 0..N /\ bar.done + left = b[nth + 1] /\ left = 0 /\ bar.done \in Nat
    BY <1>5, <1>a, <1>b DEF FileDone, ConsoleTypeOK, Tallied, b, N
  <2>2. pc = "payload" /\ pc' = "files" /\ nth' = nth + 1 /\ UNCHANGED <<left, now, bar>>
    BY <1>5 DEF FileDone
  <2>3. column' \in {"start", column}
    BY <1>5, LogStarts DEF FileDone, Quiet
  <2>4. ConsoleTypeOK'
    BY <1>a, <1>c, <1>d, <2>1, <2>2 DEF ConsoleTypeOK, N
  <2>5. Tallied'
    BY <1>a, <1>d, <2>1, <2>2 DEF Tallied, b
  <2>6. Drawn'
    BY <1>a, <2>2, <2>3 DEF Drawn
  <2> QED
    BY <2>4, <2>5, <2>6 DEF ConsoleInv
<1>6. CASE Fail
  <2>1. pc' = "ended" /\ UNCHANGED <<nth, left, now, bar>>
    BY <1>6 DEF Fail
  <2> QED
    BY <1>a, <1>c, <2>1 DEF ConsoleInv, ConsoleTypeOK, Tallied, Drawn
<1>7. CASE Trailer
  <2>1. pc = "files" /\ pc' = "trailer" /\ nth = N /\ UNCHANGED <<nth, left, now, bar>>
    BY <1>7 DEF Trailer, N
  <2>2. column' \in {"start", column}
    BY <1>7, LogStarts DEF Trailer, Quiet
  <2>3. Tallied'
    BY <1>a, <1>b, <1>d, <2>1 DEF Tallied, b
  <2>4. ConsoleTypeOK' /\ Drawn'
    BY <1>a, <1>c, <2>1, <2>2 DEF ConsoleTypeOK, Drawn
  <2> QED
    BY <2>3, <2>4 DEF ConsoleInv
<1>8. CASE FinishBar
  <2>1. pc = "trailer" /\ pc' = "finished" /\ UNCHANGED <<nth, left, now>>
    BY <1>8 DEF FinishBar
  <2>2. bar' = [bar EXCEPT !.finished = TRUE] /\ column' = "start"
    BY <1>8, <1>a, <2>1 DEF FinishBar, Finish, Render, Quiet, Drawn
  <2>3. ConsoleTypeOK' /\ bar'.done = bar.done /\ bar'.total = bar.total
    BY <1>a, <1>c, <2>1, <2>2 DEF ConsoleTypeOK
  <2>4. Tallied' /\ Drawn'
    BY <1>a, <1>d, <2>1, <2>2, <2>3 DEF Tallied, Drawn
  <2> QED
    BY <2>3, <2>4 DEF ConsoleInv
<1>9. CASE End
  <2>1. pc' = "ended" /\ UNCHANGED <<nth, left, now, bar>>
    BY <1>9 DEF End
  <2> QED
    BY <1>a, <1>c, <2>1 DEF ConsoleInv, ConsoleTypeOK, Tallied, Drawn
<1>10. CASE Tick
  <2>1. now' \in Nat /\ UNCHANGED <<pc, nth, left, bar, column>>
    BY <1>10, <1>a DEF Tick, ConsoleTypeOK
  <2> QED
    BY <1>a, <1>c, <1>d, <2>1 DEF ConsoleInv, ConsoleTypeOK, Tallied, Drawn, b
<1>11. CASE UNCHANGED consoleVars
  BY <1>11, <1>a, <1>d DEF consoleVars, ConsoleInv, ConsoleTypeOK, Tallied, Drawn, b
<1> QED
  BY <1>1, <1>2, <1>3, <1>4, <1>5, <1>6, <1>7, <1>8, <1>9, <1>10, <1>11 DEF ConsoleNext

\* Until there is a session nothing is written.
SessionInv == IF pc = "main" THEN AtRest ELSE ConsoleInv

LEMMA SessionPreserved == SessionInv /\ [Next]_vars => SessionInv'
<1> SUFFICES ASSUME SessionInv, [Next]_vars PROVE SessionInv'
  OBVIOUS
<1>1. CASE UNCHANGED consoleVars
  <2>1. UNCHANGED <<pc, AtRest>>
    BY <1>1 DEF consoleVars, AtRest
  <2>2. pc # "main" => ConsoleInv'
    BY <1>1, ConsolePreserved DEF SessionInv
  <2> QED
    BY <2>1, <2>2 DEF SessionInv
<1>2. CASE Launch
  <2>1. AtRest' /\ pc' = "start" /\ call' \in Calls
    BY <1>2 DEF Launch, SessionInv, AtRest
  <2>2. Calls' = Calls
    BY DEF Calls
  <2>3. ConsoleInv'
    BY <2>1, <2>2, PlanType DEF AtRest, ConsoleInv, ConsoleTypeOK, Tallied, Drawn
  <2> QED
    BY <2>1, <2>3 DEF SessionInv
<1>3. CASE pc # "main" /\ ConsoleNext
  <2>1. ConsoleInv'
    BY <1>3, ConsolePreserved DEF SessionInv
  <2>2. pc' # "main"
    BY <2>1 DEF ConsoleInv, ConsoleTypeOK
  <2> QED
    BY <2>1, <2>2 DEF SessionInv
<1> QED
  BY <1>1, <1>2, <1>3 DEF Next, vars

THEOREM BarIsTallied == Spec => []SessionInv
<1>1. Init => SessionInv
  BY DEF Init, SessionInv
<1> QED
  BY <1>1, SessionPreserved, PTL DEF Spec

\* The bar never shows more bytes than the header announced, and all of them at
\* the end: Add counts also what it does not draw (progress.cpp), and the loops
\* of SendPaths and ReceiveStream call it with what they moved.
THEOREM BarCountsToTotal == Spec => []CountsToTotal
<1>1. SessionInv => CountsToTotal
  <2> SUFFICES ASSUME SessionInv, pc \in {"files", "payload", "trailer", "finished"}
               PROVE  bar.done <= bar.total /\ (bar.finished => bar.done = bar.total)
    BY DEF CountsToTotal
  <2>0. ConsoleInv
    BY DEF SessionInv
  <2> DEFINE b == Bytes(call.plan)
             N == Len(call.plan)
  <2>1. /\ ConsoleTypeOK /\ Tallied /\ Drawn
        /\ N \in Nat /\ Total = b[N] /\ bar.total = Total /\ b \in [0..N -> Nat]
        /\ bar.done \in Nat /\ left \in Nat /\ nth \in 0..N
        /\ \A k \in 0..N : b[k] <= b[N]
    BY <2>0, PlanType, BytesRec, BytesGrow DEF ConsoleInv, ConsoleTypeOK, Tallied, Total
  <2> HIDE DEF b, N
  <2>2. CASE pc = "files"
    BY <2>1, <2>2 DEF Tallied, Drawn, b
  <2>3. CASE pc = "payload"
    <3>1. nth + 1 \in 0..N /\ bar.done + left = b[nth + 1]
      BY <2>1, <2>3 DEF Tallied, b, N
    <3>2. b[nth + 1] \in Nat /\ b[nth + 1] <= b[N] /\ b[N] \in Nat
      BY <2>1, <3>1
    <3> QED
      BY <2>1, <2>3, <3>1, <3>2 DEF Drawn
  <2>4. CASE pc \in {"trailer", "finished"}
    BY <2>1, <2>4 DEF Tallied
  <2> QED
    BY <2>2, <2>3, <2>4
<1> QED
  BY <1>1, BarIsTallied, PTL

\* After Progress::Finish the cursor is at the start of a line, whether or not
\* the bar was ever drawn and whatever was logged since.
THEOREM FinishLeavesCleanLine == Spec => []CleanAfterFinish
<1>1. SessionInv => CleanAfterFinish
  BY DEF SessionInv, ConsoleInv, Drawn, CleanAfterFinish
<1> QED
  BY <1>1, BarIsTallied, PTL

-----------------------------------------------------------------------------
(* The command line. *)

\* The tables of the options, as functions.
ModeOptions == {"--help", "--version"}
SwitchOptions ==
    {"--verbose", "--no-progress", "--recursive", "--follow-symlinks", "--no-zero-copy",
     "--no-verify", "--listen"}
SwitchFields ==
    {"verbose", "no_progress", "recursive", "follow_symlinks", "no_zero_copy", "no_verify", "listen"}
ColorOptions == {"--color=always", "--color=never"}
ValueOptions == {"--host", "--output", "--port"}
Fields == SwitchFields \cup {"mode", "force_color", "port", "host", "paths", "output_dir"}

LEMMA Tables ==
    /\ DOMAIN ModeFlags = ModeOptions
    /\ DOMAIN Switches = SwitchOptions
    /\ \A t \in SwitchOptions : Switches[t] \in SwitchFields
    /\ DOMAIN Colors = ColorOptions
    /\ DOMAIN ValueFlags = {"--host", "--output"}
    /\ ValueFlags["--host"] = "host" /\ ValueFlags["--output"] = "output_dir"
    /\ DOMAIN ValueFlags \cup {"--port"} = ValueOptions
    /\ Options = {"--color=auto"} \cup ModeOptions \cup SwitchOptions \cup ColorOptions \cup ValueOptions
<1>1. DOMAIN ModeFlags = ModeOptions
  BY DEF ModeFlags, ModeOptions
<1>2. DOMAIN Switches = SwitchOptions
  BY DEF Switches, SwitchOptions
<1>3. \A t \in SwitchOptions : Switches[t] \in SwitchFields
  BY DEF Switches, SwitchOptions, SwitchFields
<1>4. DOMAIN Colors = ColorOptions
  BY DEF Colors, ColorOptions
<1>5. DOMAIN ValueFlags = {"--host", "--output"}
      /\ ValueFlags["--host"] = "host" /\ ValueFlags["--output"] = "output_dir"
  BY DEF ValueFlags
<1> QED
  BY <1>1, <1>2, <1>3, <1>4, <1>5 DEF Options, ValueOptions

LEMMA SwitchDefaults == \A f \in SwitchFields : Defaults[f] = FALSE
<1>1. /\ Defaults["verbose"] = FALSE /\ Defaults["no_progress"] = FALSE
      /\ Defaults["recursive"] = FALSE /\ Defaults["follow_symlinks"] = FALSE
      /\ Defaults["no_zero_copy"] = FALSE /\ Defaults["no_verify"] = FALSE
      /\ Defaults["listen"] = FALSE
  BY DEF Defaults
<1> QED
  BY <1>1 DEF SwitchFields

LEMMA DefaultFields ==
    /\ Defaults = [f \in Fields |-> Defaults[f]]
    /\ Defaults.mode = "Unset" /\ Defaults.force_color = FALSE /\ Defaults.port = 9876
    /\ Defaults.host = Empty /\ Defaults.output_dir = Empty /\ Defaults.paths = <<>>
<1>1. DOMAIN Defaults = Fields
  BY DEF Defaults, Fields, SwitchFields
<1>2. Defaults = [f \in DOMAIN Defaults |-> Defaults[f]]
  BY DEF Defaults
<1>3. /\ Defaults.mode = "Unset" /\ Defaults.force_color = FALSE /\ Defaults.port = 9876
      /\ Defaults.host = Empty /\ Defaults.output_dir = Empty /\ Defaults.paths = <<>>
  BY DEF Defaults
<1> QED
  BY <1>1, <1>2, <1>3

\* An argument is a value when the one before it is an option that takes one,
\* and no value itself.
LEMMA ValueRec ==
    /\ DOMAIN IsValue = 0..MaxArgs
    /\ \A i \in 1..MaxArgs : IsValue[i] <=> i > First /\ ~IsValue[i - 1] /\ args[i - 1] \in ValueOptions
<1> DEFINE step == [i \in 1..MaxArgs |-> [before \in BOOLEAN |->
                      i > First /\ ~before /\ args[i - 1] \in ValueOptions]]
<1>0. MaxArgs \in Nat /\ First \in {1, 2}
  BY CliAssumption DEF CliAssumption, First
<1>1. step \in [1..MaxArgs -> [BOOLEAN -> BOOLEAN]]
  OBVIOUS
<1>2. \A i \in 1..MaxArgs, before \in BOOLEAN :
          step[i][before] = (i > First /\ ~before /\ args[i - 1] \in ValueOptions)
  OBVIOUS
<1> HIDE DEF step
<1>3. PICK f : Unfolds(f, MaxArgs, FALSE, step)
  BY <1>0, <1>1, Recursion
<1>4. \A i \in 0..MaxArgs : f[i] \in BOOLEAN
  BY <1>0, <1>1, <1>3, RecursionType
<1>5. f[0] = FALSE /\ \A i \in 1..MaxArgs : f[i] = step[i][f[i - 1]]
  BY <1>3 DEF Unfolds
<1>6. ASSUME NEW i \in 0..MaxArgs
      PROVE  f[i] = (i > First /\ ~f[i - 1] /\ args[i - 1] \in ValueOptions)
  <2>1. CASE i = 0
    <3>1. ~(i > First) /\ f[i] = FALSE
      BY <1>0, <1>5, <2>1
    <3> QED
      BY <3>1, Zenon
  <2>2. CASE i # 0
    <3>1. i \in 1..MaxArgs /\ i - 1 \in 0..MaxArgs
      BY <1>0, <2>2
    <3> QED
      BY <1>2, <1>4, <1>5, <3>1
  <2> QED
    BY <2>1, <2>2
<1>7. f = [i \in 0..MaxArgs |-> i > First /\ ~f[i - 1] /\ args[i - 1] \in ValueOptions]
  <2>1. f = [i \in 0..MaxArgs |-> f[i]]
    BY <1>3 DEF Unfolds
  <2> QED
    BY <1>6, <2>1
<1>8. DOMAIN ValueFlags \cup {"--port"} = ValueOptions
  BY Tables
<1>9. IsValue = [i \in 0..MaxArgs |-> i > First /\ ~IsValue[i - 1] /\ args[i - 1] \in ValueOptions]
  BY <1>7, <1>8 DEF IsValue
<1>10. ASSUME NEW i \in 1..MaxArgs
       PROVE  IsValue[i] <=> i > First /\ ~IsValue[i - 1] /\ args[i - 1] \in ValueOptions
  <2>1. i \in 0..MaxArgs
    BY <1>0
  <2>2. IsValue[i] = (i > First /\ ~IsValue[i - 1] /\ args[i - 1] \in ValueOptions)
    BY <1>9, <2>1, Zenon
  <2> QED
    BY <2>2, Zenon
<1>11. DOMAIN IsValue = 0..MaxArgs
  BY <1>9, Zenon
<1> QED
  BY <1>10, <1>11

\* The arguments from a set, that are no values, in front of place p.
Before(set, p) == {i \in Where(set) : i < p}

\* Where the scan goes from an argument that it looks at.
Beyond(p) == IF args[p] \in ValueOptions THEN p + 2 ELSE p + 1

\* The scan can look at place p.
Place(p) ==
    /\ p \in First..Len(args) + 1
    /\ p <= Len(args) => ~IsValue[p]

LEMMA FirstType ==
    ASSUME args \in Seq(Argument)
    PROVE  First \in 1..Len(args) + 1 /\ Len(args) \in Nat
BY DEF First

LEMMA Advance ==
    ASSUME args \in Seq(Argument), Len(args) <= MaxArgs, NEW p, Place(p), p <= Len(args),
           args[p] \in ValueOptions => p < Len(args)
    PROVE  /\ Place(Beyond(p)) /\ p < Beyond(p)
           /\ \A set : Before(set, Beyond(p)) =
                           IF args[p] \in set THEN Before(set, p) \cup {p} ELSE Before(set, p)
<1>0. /\ Len(args) \in Nat /\ First \in Nat /\ 1 <= First /\ p \in Nat /\ First <= p
      /\ ~IsValue[p] /\ MaxArgs \in Nat
  BY FirstType, CliAssumption DEF CliAssumption, Place
<1>1. p + 1 <= Len(args) => (IsValue[p + 1] <=> args[p] \in ValueOptions)
  <2> SUFFICES ASSUME p + 1 <= Len(args) PROVE IsValue[p + 1] <=> args[p] \in ValueOptions
    OBVIOUS
  <2>1. p + 1 \in 1..MaxArgs /\ p + 1 > First /\ (p + 1) - 1 = p
    BY <1>0
  <2> QED
    BY <1>0, <2>1, ValueRec
<1>2. args[p] \in ValueOptions /\ p + 2 <= Len(args) => ~IsValue[p + 2]
  <2> SUFFICES ASSUME args[p] \in ValueOptions, p + 2 <= Len(args) PROVE ~IsValue[p + 2]
    OBVIOUS
  <2>1. p + 2 \in 1..MaxArgs /\ (p + 2) - 1 = p + 1 /\ p + 1 <= Len(args)
    BY <1>0
  <2> QED
    BY <1>1, <2>1, ValueRec
<1>3. Place(Beyond(p)) /\ p < Beyond(p)
  BY <1>0, <1>1, <1>2 DEF Place, Beyond
<1>4. ASSUME NEW set, NEW i
      PROVE  i \in Before(set, Beyond(p)) <=> i \in Before(set, p) \/ (i = p /\ args[p] \in set)
  <2> DEFINE In(j) == j \in First..Len(args) /\ args[j] \in set /\ ~IsValue[j]
  <2>1. \A j, q : j \in Before(set, q) <=> In(j) /\ j < q
    BY DEF Before, Where
  <2>2. In(p) <=> args[p] \in set
    BY <1>0
  <2>3. In(p + 1) => args[p] \notin ValueOptions
    BY <1>0, <1>1
  <2>4. In(i) => i \in Nat
    BY <1>0
  <2> HIDE DEF In
  <2>5. CASE args[p] \in ValueOptions
    <3>1. Beyond(p) = p + 2
      BY <2>5 DEF Beyond
    <3>2. In(i) /\ i < p + 2 <=> In(i) /\ (i < p \/ i = p)
      BY <1>0, <2>3, <2>4, <2>5
    <3> QED
      BY <1>0, <2>1, <2>2, <2>4, <3>1, <3>2
  <2>6. CASE args[p] \notin ValueOptions
    <3>1. Beyond(p) = p + 1
      BY <2>6 DEF Beyond
    <3>2. In(i) /\ i < p + 1 <=> In(i) /\ (i < p \/ i = p)
      BY <1>0, <2>4
    <3> QED
      BY <1>0, <2>1, <2>2, <2>4, <3>1, <3>2
  <2> QED
    BY <2>5, <2>6
<1>5. ASSUME NEW set
      PROVE  Before(set, Beyond(p)) = IF args[p] \in set THEN Before(set, p) \cup {p} ELSE Before(set, p)
  <2>1. CASE args[p] \in set
    <3>1. \A i : i \in Before(set, Beyond(p)) <=> i \in Before(set, p) \cup {p}
      BY <1>4, <2>1
    <3> QED
      BY <2>1, <3>1, Zenon
  <2>2. CASE args[p] \notin set
    <3>1. \A i : i \in Before(set, Beyond(p)) <=> i \in Before(set, p)
      BY <1>4, <2>2
    <3> QED
      BY <2>2, <3>1, Zenon
  <2> QED
    BY <2>1, <2>2
<1> QED
  BY <1>3, <1>5

\* Nothing is in front of the place where the scan begins, everything in front
\* of the one where it ends.
LEMMA Bounds ==
    ASSUME args \in Seq(Argument), NEW set
    PROVE  Before(set, First) = {} /\ Before(set, Len(args) + 1) = Where(set)
<1>1. Len(args) \in Nat /\ First \in Nat
  BY FirstType
<1>2. Where(set) \subseteq First..Len(args)
  BY DEF Where
<1> QED
  BY <1>1, <1>2 DEF Before

\* A field of a record is assigned.
LEMMA Assigned ==
    ASSUME NEW o, o = [f \in Fields |-> o[f]], NEW g \in Fields, NEW v, NEW n,
           n = [o EXCEPT ![g] = v]
    PROVE  /\ n = [f \in Fields |-> n[f]]
           /\ n[g] = v
           /\ \A f \in Fields : f # g => n[f] = o[f]
OBVIOUS

\* The field an option is about, the options that set a field, and the value an
\* option at some place gives it.
About(t) ==
    CASE t \in ModeOptions -> "mode"
      [] t \in SwitchOptions -> Switches[t]
      [] t \in ColorOptions -> "force_color"
      [] t \in {"--host", "--output"} -> ValueFlags[t]
      [] t = "--port" -> "port"
      [] OTHER -> "none"

Setting(f) == {t \in Options : About(t) = f}

Given(place, f) ==
    CASE f = "mode" -> ModeFlags[args[place]]
      [] f = "force_color" -> Colors[args[place]]
      [] f = "port" -> ToInt(Number(args[place + 1]))
      [] f \in {"host", "output_dir"} -> args[place + 1]
      [] OTHER -> TRUE

Single == Fields \ {"paths"}

LEMMA AboutWhat ==
    /\ \A t \in ModeOptions : About(t) = "mode"
    /\ \A t \in SwitchOptions : About(t) = Switches[t] /\ Switches[t] \in SwitchFields
    /\ \A t \in ColorOptions : About(t) = "force_color"
    /\ About("--host") = "host" /\ About("--output") = "output_dir" /\ About("--port") = "port"
    /\ About("--color=auto") = "none"
<1> USE DEF ModeOptions, SwitchOptions, ColorOptions
<1>1. \A t \in ModeOptions : About(t) = "mode"
  BY DEF About
<1>2. \A t \in SwitchOptions : About(t) = Switches[t] /\ Switches[t] \in SwitchFields
  BY Tables DEF About
<1>3. \A t \in ColorOptions : About(t) = "force_color"
  BY DEF About
<1>4. About("--host") = "host" /\ About("--output") = "output_dir" /\ About("--port") = "port"
  BY Tables DEF About
<1>5. About("--color=auto") = "none"
  BY DEF About
<1> QED
  BY <1>1, <1>2, <1>3, <1>4, <1>5

LEMMA SettingSets ==
    /\ Setting("mode") = ModeOptions
    /\ Setting("force_color") = ColorOptions
    /\ Setting("port") = {"--port"}
    /\ Setting("host") = {"--host"}
    /\ Setting("output_dir") = {"--output"}
    /\ \A f \in SwitchFields : Setting(f) = {t \in SwitchOptions : Switches[t] = f}
<1> USE DEF ValueOptions
<1>6. \A t : t \in Options <=>
          t = "--color=auto" \/ t \in ModeOptions \/ t \in SwitchOptions \/ t \in ColorOptions
             \/ t \in {"--host", "--output", "--port"}
  BY Tables
<1>7. \A f \in SwitchFields : f \notin {"mode", "force_color", "port", "host", "output_dir", "none"}
  BY DEF SwitchFields
<1> HIDE DEF ValueOptions
<1> USE <1>6, <1>7, AboutWhat DEF Setting
<1>11. Setting("mode") = ModeOptions
  OBVIOUS
<1>12. Setting("force_color") = ColorOptions
  OBVIOUS
<1>13. Setting("port") = {"--port"}
  OBVIOUS
<1>14. Setting("host") = {"--host"}
  OBVIOUS
<1>15. Setting("output_dir") = {"--output"}
  OBVIOUS
<1>16. ASSUME NEW f \in SwitchFields
       PROVE  Setting(f) = {t \in SwitchOptions : Switches[t] = f}
  OBVIOUS
<1> QED
  BY <1>11, <1>12, <1>13, <1>14, <1>15, <1>16

\* What the steps that use an argument up do, by argument and by field.
Move == ModeFlag \/ Switch \/ Color \/ Value \/ Port \/ Positional

MoveEffect ==
    /\ status = "scan" /\ pos <= Len(args)
    /\ UNCHANGED <<args, status>> /\ pos' = Beyond(pos)
    /\ Arg \in ValueOptions => pos < Len(args)
    /\ Arg = "--port" => Number(args[pos + 1]) # NoNumber
    /\ Arg \notin Options => Arg \in Plain /\ opts.mode = "Send"
    /\ opts' = [f \in Fields |-> opts'[f]]
    /\ \A f \in Single : opts'[f] = IF Arg \in Setting(f) THEN Given(pos, f) ELSE opts[f]
    /\ opts'["paths"] = IF Arg \in Plain THEN Append(opts["paths"], Arg) ELSE opts["paths"]

\* An option that sets one field.
LEMMA SetsOne ==
    ASSUME opts = [f \in Fields |-> opts[f]], Arg \in Options, NEW g \in Single,
           About(Arg) = g, NEW v, v = Given(pos, g), opts' = [opts EXCEPT ![g] = v]
    PROVE  /\ opts' = [f \in Fields |-> opts'[f]]
           /\ \A f \in Single : opts'[f] = IF Arg \in Setting(f) THEN Given(pos, f) ELSE opts[f]
           /\ opts'["paths"] = IF Arg \in Plain THEN Append(opts["paths"], Arg) ELSE opts["paths"]
<1>1. g \in Fields /\ g # "paths" /\ "paths" \in Fields /\ Single \subseteq Fields
  BY DEF Single, Fields
<1>2. /\ opts' = [f \in Fields |-> opts'[f]] /\ opts'[g] = v
      /\ \A f \in Fields : f # g => opts'[f] = opts[f]
  BY <1>1, Assigned
<1>3. Arg \notin Plain
  BY CliAssumption DEF CliAssumption
<1>4. ASSUME NEW f \in Single
      PROVE  opts'[f] = IF Arg \in Setting(f) THEN Given(pos, f) ELSE opts[f]
  <2>1. CASE f = g
    <3>1. Arg \in Setting(f)
      BY <2>1 DEF Setting
    <3> QED
      BY <1>2, <2>1, <3>1, Zenon
  <2>2. CASE f # g
    <3>1. Arg \notin Setting(f) /\ f \in Fields
      BY <1>1, <2>2 DEF Setting
    <3> QED
      BY <1>2, <2>2, <3>1, Zenon
  <2> QED
    BY <2>1, <2>2
<1>5. opts'["paths"] = opts["paths"]
  BY <1>1, <1>2
<1> QED
  BY <1>2, <1>3, <1>4, <1>5, Zenon

LEMMA Moves ==
    ASSUME opts = [f \in Fields |-> opts[f]], Move
    PROVE  MoveEffect
<1> USE DEF Scanning, Take
<1>a. Plain \cap Options = {}
  BY CliAssumption DEF CliAssumption
<1>b. SwitchFields \subseteq Single /\ {"mode", "force_color", "port", "host", "output_dir"} \subseteq Single
  BY DEF Single, Fields, SwitchFields
<1>c. status = "scan" /\ pos <= Len(args) /\ UNCHANGED <<args, status>>
  BY DEF Move, ModeFlag, Switch, Color, Value, Port, Positional
<1>1. CASE ModeFlag
  <2>1. /\ Arg \in ModeOptions /\ opts' = [opts EXCEPT !["mode"] = ModeFlags[Arg]]
        /\ pos' = pos + 1
    BY <1>1, Tables DEF ModeFlag
  <2>2. Arg \in Options /\ About(Arg) = "mode"
    BY <2>1, Tables, AboutWhat
  <2>3. Arg \notin ValueOptions /\ Arg # "--port"
    BY <2>1 DEF ModeOptions, ValueOptions
  <2>4. ModeFlags[Arg] = Given(pos, "mode")
    BY DEF Given, Arg
  <2>5. pos' = Beyond(pos)
    BY <2>1, <2>3 DEF Beyond, Arg
  <2> QED
    BY <1>b, <1>c, <2>1, <2>2, <2>3, <2>4, <2>5, SetsOne DEF MoveEffect
<1>2. CASE Switch
  <2>1. /\ Arg \in SwitchOptions /\ opts' = [opts EXCEPT ![Switches[Arg]] = TRUE]
        /\ pos' = pos + 1
    BY <1>2, Tables DEF Switch
  <2>2. Arg \in Options /\ About(Arg) = Switches[Arg] /\ Switches[Arg] \in SwitchFields
    BY <2>1, Tables, AboutWhat
  <2>3. Arg \notin ValueOptions /\ Arg # "--port"
    BY <2>1 DEF SwitchOptions, ValueOptions
  <2>4. Given(pos, Switches[Arg]) = TRUE
    BY <2>2 DEF Given, SwitchFields
  <2>5. pos' = Beyond(pos)
    BY <2>1, <2>3 DEF Beyond, Arg
  <2>6. Switches[Arg] \in Single
    BY <1>b, <2>2
  <2> QED
    BY <1>c, <2>1, <2>2, <2>3, <2>4, <2>5, <2>6, SetsOne DEF MoveEffect
<1>3. CASE Color
  <2>1. Arg \in ColorOptions \cup {"--color=auto"} /\ pos' = pos + 1
    BY <1>3, Tables DEF Color
  <2>2. Arg \in Options /\ Arg \notin ValueOptions /\ Arg # "--port"
    BY <2>1, Tables DEF ColorOptions, ValueOptions
  <2>3. pos' = Beyond(pos)
    BY <2>1, <2>2 DEF Beyond, Arg
  <2>4. CASE Arg \in ColorOptions
    <3>1. opts' = [opts EXCEPT !["force_color"] = Colors[Arg]]
      BY <1>3, <2>4 DEF Color, ColorOptions
    <3>2. Colors[Arg] = Given(pos, "force_color") /\ About(Arg) = "force_color"
      BY <2>4, AboutWhat DEF Given, Arg
    <3> QED
      BY <1>b, <1>c, <2>2, <2>3, <3>1, <3>2, SetsOne DEF MoveEffect
  <2>5. CASE Arg = "--color=auto"
    <3>1. opts' = opts
      BY <1>3, <2>5, Tables DEF Color, ColorOptions
    <3>2. Arg \notin Plain /\ \A f \in Single : Arg \notin Setting(f)
      BY <1>a, <2>2, <2>5, AboutWhat DEF Setting, Single, Fields, SwitchFields
    <3> QED
      BY <1>c, <2>2, <2>3, <3>1, <3>2 DEF MoveEffect
  <2> QED
    BY <2>1, <2>4, <2>5
<1>4. CASE Value
  <2>1. /\ Arg \in {"--host", "--output"} /\ pos < Len(args) /\ pos' = pos + 2
        /\ opts' = [opts EXCEPT ![ValueFlags[Arg]] = args[pos + 1]]
    BY <1>4, Tables DEF Value
  <2>2. /\ Arg \in Options /\ Arg \in ValueOptions /\ Arg # "--port"
        /\ About(Arg) = ValueFlags[Arg] /\ ValueFlags[Arg] \in {"host", "output_dir"}
    BY <2>1, Tables, AboutWhat DEF ValueOptions
  <2>3. Given(pos, ValueFlags[Arg]) = args[pos + 1]
    BY <2>2 DEF Given
  <2>4. pos' = Beyond(pos)
    BY <2>1, <2>2 DEF Beyond, Arg
  <2>5. ValueFlags[Arg] \in Single
    BY <1>b, <2>2
  <2> QED
    BY <1>c, <2>1, <2>2, <2>3, <2>4, <2>5, SetsOne DEF MoveEffect
<1>5. CASE Port
  <2>1. /\ Arg = "--port" /\ pos < Len(args) /\ pos' = pos + 2
        /\ opts' = [opts EXCEPT !["port"] = ToInt(Number(args[pos + 1]))]
        /\ Number(args[pos + 1]) # NoNumber
    BY <1>5 DEF Port
  <2>2. /\ Arg \in Options /\ Arg \in ValueOptions /\ About(Arg) = "port"
    BY <2>1, Tables, AboutWhat DEF ValueOptions
  <2>3. Given(pos, "port") = ToInt(Number(args[pos + 1]))
    BY DEF Given
  <2>4. pos' = Beyond(pos)
    BY <2>1, <2>2 DEF Beyond, Arg
  <2> QED
    BY <1>b, <1>c, <2>1, <2>2, <2>3, <2>4, SetsOne DEF MoveEffect
<1>6. CASE Positional
  <2>1. /\ Arg \in Plain /\ opts.mode = "Send" /\ pos' = pos + 1
        /\ opts' = [opts EXCEPT !["paths"] = Append(opts["paths"], Arg)]
    BY <1>6 DEF Positional
  <2>2. Arg \notin Options /\ Arg \notin ValueOptions /\ Arg # "--port"
    BY <1>a, <2>1, Tables
  <2>3. pos' = Beyond(pos)
    BY <2>1, <2>2 DEF Beyond, Arg
  <2>4. "paths" \in Fields /\ \A f \in Single : f \in Fields /\ f # "paths"
    BY DEF Single, Fields
  <2>5. /\ opts' = [f \in Fields |-> opts'[f]] /\ opts'["paths"] = Append(opts["paths"], Arg)
        /\ \A f \in Fields : f # "paths" => opts'[f] = opts[f]
    BY <2>1, <2>4, Assigned
  <2>6. \A f \in Single : Arg \notin Setting(f)
    BY <2>2 DEF Setting
  <2> QED
    BY <1>c, <2>1, <2>2, <2>3, <2>4, <2>5, <2>6 DEF MoveEffect
<1> QED
  BY <1>1, <1>2, <1>3, <1>4, <1>5, <1>6 DEF Move

\* The last of some places is the one behind the others.
LEMMA LastPlace ==
    ASSUME NEW S, NEW p \in Int, \A i \in S : i \in Int /\ i < p
    PROVE  Max(S \cup {p}) = p
<1> DEFINE T == S \cup {p}
<1>1. p \in T /\ \A i \in T : p >= i
  OBVIOUS
<1>2. \A x \in T : (\A y \in T : x >= y) => x = p
  OBVIOUS
<1> HIDE DEF T
<1>3. Max(T) \in T /\ \A y \in T : Max(T) >= y
  BY <1>1 DEF Max
<1> QED
  BY <1>2, <1>3 DEF T

\* One place more, behind the others: it is the next, and they keep their
\* numbers.
Chosen(places) == CHOOSE i \in places : TRUE
Numbered(places, k) == {j \in places : Cardinality({l \in places : l <= j}) = k}

LEMMA NextPlace ==
    ASSUME NEW S, IsFiniteSet(S), NEW p \in Int, \A i \in S : i \in Int /\ i < p
    PROVE  /\ Cardinality(S) \in Nat
           /\ IsFiniteSet(S \cup {p}) /\ Cardinality(S \cup {p}) = Cardinality(S) + 1
           /\ \A k \in 1..Cardinality(S) : Nth(S \cup {p}, k) = Nth(S, k)
           /\ Nth(S \cup {p}, Cardinality(S) + 1) = p
<1> DEFINE T == S \cup {p}
           n == Cardinality(S)
<1>1. p \notin S
  OBVIOUS
<1>2. n \in Nat /\ IsFiniteSet(T) /\ Cardinality(T) = n + 1
  BY <1>1, FS_CardinalityType, FS_AddElement
<1>3. \A j \in S : {l \in T : l <= j} = {l \in S : l <= j}
  OBVIOUS
<1>4. {l \in T : l <= p} = T
  OBVIOUS
<1>5. ASSUME NEW j \in S PROVE Cardinality({l \in S : l <= j}) \in Nat /\ Cardinality({l \in S : l <= j}) <= n
  <2>1. {l \in S : l <= j} \in SUBSET S
    OBVIOUS
  <2>2. IsFiniteSet({l \in S : l <= j}) /\ Cardinality({l \in S : l <= j}) <= n
    BY <2>1, FS_Subset
  <2> QED
    BY <2>2, FS_CardinalityType
<1>6. \A k \in 1..n : Numbered(T, k) = Numbered(S, k)
  <2> SUFFICES ASSUME NEW k \in 1..n PROVE Numbered(T, k) = Numbered(S, k)
    OBVIOUS
  <2>1. Cardinality({l \in T : l <= p}) # k
    BY <1>2, <1>4
  <2>2. \A j : j \in Numbered(T, k) <=> j \in Numbered(S, k)
    BY <1>3, <2>1 DEF Numbered
  <2> QED
    BY <2>2
<1>7. Numbered(T, n + 1) = {p}
  <2>1. p \in Numbered(T, n + 1)
    BY <1>2, <1>4 DEF Numbered
  <2>2. ASSUME NEW j \in S PROVE j \notin Numbered(T, n + 1)
    BY <1>2, <1>3, <1>5 DEF Numbered
  <2>3. Numbered(T, n + 1) \subseteq S \cup {p}
    BY DEF Numbered
  <2> QED
    BY <2>1, <2>2, <2>3
<1> HIDE DEF T, n
<1>8. \A P, k : Nth(P, k) = Chosen(Numbered(P, k))
  BY Zenon DEF Nth, Chosen, Numbered
<1>9. \A k \in 1..n : Nth(T, k) = Nth(S, k)
  BY <1>6, <1>8
<1>10. Chosen({p}) = p
  BY DEF Chosen
<1>11. Nth(T, n + 1) = p
  BY <1>7, <1>8, <1>10
<1> QED
  BY <1>2, <1>9, <1>11 DEF T, n

\* What a field has before the scan, and after the options in front of a place.
InitialOf(f) == IF f = "mode" /\ First = 2 THEN Commands[args[1]] ELSE Defaults[f]

FieldAt(f, p) ==
    IF Before(Setting(f), p) = {} THEN InitialOf(f) ELSE Given(Max(Before(Setting(f), p)), f)

PathsAt(p) ==
    [k \in 1..Cardinality(Before(Plain, p)) |-> args[Nth(Before(Plain, p), k)]]

\* The options are those in front of a place.
Understood(o, p) ==
    /\ o = [f \in Fields |-> o[f]]
    /\ \A f \in Single : o[f] = FieldAt(f, p)
    /\ o["paths"] = PathsAt(p)

LEMMA SameUnderstanding ==
    ASSUME NEW o, NEW q, NEW p, Understood(o, p), Understood(q, p)
    PROVE  o = q
<1>1. \A f \in Fields : o[f] = q[f]
  BY DEF Understood, Single
<1> QED
  BY <1>1 DEF Understood

LEMMA BeforeFinite ==
    ASSUME args \in Seq(Argument), NEW set, NEW p
    PROVE  /\ IsFiniteSet(Before(set, p)) /\ Cardinality(Before(set, p)) \in Nat
           /\ \A i \in Before(set, p) : i \in Int /\ i < p
<1>1. First \in Int /\ Len(args) \in Int
  BY FirstType
<1>2. IsFiniteSet(First..Len(args))
  BY <1>1, FS_Interval
<1>3. Before(set, p) \in SUBSET (First..Len(args))
  BY DEF Before, Where
<1>4. IsFiniteSet(Before(set, p))
  BY <1>2, <1>3, FS_Subset
<1> QED
  BY <1>1, <1>3, <1>4, FS_CardinalityType DEF Before

\* A move understands one argument more.
LEMMA UnderstoodMore ==
    ASSUME args \in Seq(Argument), Len(args) <= MaxArgs, Place(pos),
           Understood(opts, pos), MoveEffect
    PROVE  Understood(opts', Beyond(pos))
<1>1. /\ pos <= Len(args) /\ pos \in Int
      /\ args[pos] \in ValueOptions => pos < Len(args)
  BY FirstType DEF MoveEffect, Arg, Place
<1>2. \A set : Before(set, Beyond(pos)) =
                   IF args[pos] \in set THEN Before(set, pos) \cup {pos} ELSE Before(set, pos)
  BY <1>1, Advance
<1>3. ASSUME NEW f \in Single PROVE opts'[f] = FieldAt(f, Beyond(pos))
  <2>1. opts'[f] = IF args[pos] \in Setting(f) THEN Given(pos, f) ELSE opts[f]
    BY DEF MoveEffect, Arg
  <2>2. opts[f] = FieldAt(f, pos)
    BY DEF Understood
  <2>3. CASE args[pos] \in Setting(f)
    <3>1. Before(Setting(f), Beyond(pos)) = Before(Setting(f), pos) \cup {pos}
      BY <1>2, <2>3
    <3>2. Max(Before(Setting(f), pos) \cup {pos}) = pos
      BY <1>1, BeforeFinite, LastPlace
    <3>3. Before(Setting(f), Beyond(pos)) # {}
      BY <3>1
    <3> QED
      BY <2>1, <2>3, <3>1, <3>2, <3>3, Zenon DEF FieldAt
  <2>4. CASE args[pos] \notin Setting(f)
    <3>1. Before(Setting(f), Beyond(pos)) = Before(Setting(f), pos)
      BY <1>2, <2>4
    <3> QED
      BY <2>1, <2>2, <2>4, <3>1, Zenon DEF FieldAt
  <2> QED
    BY <2>3, <2>4
<1>4. opts'["paths"] = PathsAt(Beyond(pos))
  <2> DEFINE S == Before(Plain, pos)
             n == Cardinality(S)
  <2>1. opts["paths"] = [k \in 1..n |-> args[Nth(S, k)]]
    BY DEF Understood, PathsAt
  <2>2. IsFiniteSet(S) /\ n \in Nat /\ \A i \in S : i \in Int /\ i < pos
    BY BeforeFinite
  <2>3. CASE args[pos] \in Plain
    <3>1. Before(Plain, Beyond(pos)) = S \cup {pos}
      BY <1>2, <2>3
    <3>2. opts'["paths"] = Append(opts["paths"], args[pos])
      BY <2>3 DEF MoveEffect, Arg
    <3> HIDE DEF S, n
    <3>3. /\ Cardinality(S \cup {pos}) = n + 1
          /\ \A k \in 1..n : Nth(S \cup {pos}, k) = Nth(S, k)
          /\ Nth(S \cup {pos}, n + 1) = pos
      BY <1>1, <2>2, NextPlace DEF n
    <3> DEFINE s == opts["paths"]
               t == [k \in 1..n + 1 |-> args[Nth(S \cup {pos}, k)]]
    <3>4. Len(s) = n /\ \A k \in 1..n : s[k] = args[Nth(S, k)]
      BY <2>1, <2>2
    <3>5. Append(s, args[pos]) = [k \in 1..n + 1 |-> IF k = n + 1 THEN args[pos] ELSE s[k]]
      BY <3>4
    <3>6. \A k \in 1..n + 1 : t[k] = IF k = n + 1 THEN args[pos] ELSE s[k]
      <4> TAKE k \in 1..n + 1
      <4>1. t[k] = args[Nth(S \cup {pos}, k)]
        OBVIOUS
      <4>2. CASE k = n + 1
        BY <3>3, <4>1, <4>2
      <4>3. CASE k # n + 1
        <5>1. k \in 1..n
          BY <2>2, <4>3 DEF n
        <5>2. s[k] = args[Nth(S, k)] /\ Nth(S \cup {pos}, k) = Nth(S, k)
          BY <3>3, <3>4, <5>1
        <5> QED
          BY <4>1, <4>3, <5>2
      <4> QED
        BY <4>2, <4>3
    <3>7. Append(s, args[pos]) = t
      BY <3>5, <3>6
    <3>8. PathsAt(Beyond(pos)) = t
      BY <3>1, <3>3, Zenon DEF PathsAt
    <3> QED
      BY <3>2, <3>7, <3>8
  <2>4. CASE args[pos] \notin Plain
    <3>1. Before(Plain, Beyond(pos)) = S
      BY <1>2, <2>4
    <3>2. opts'["paths"] = opts["paths"]
      BY <2>4 DEF MoveEffect, Arg
    <3> QED
      BY <2>1, <3>1, <3>2 DEF PathsAt
  <2> QED
    BY <2>3, <2>4
<1> QED
  BY <1>3, <1>4 DEF Understood, MoveEffect

\* The scan begins with nothing but a subcommand understood.
LEMMA Begun ==
    ASSUME args \in Seq(Argument), Len(args) <= MaxArgs,
           NEW o, o = [f \in Fields |-> InitialOf(f)]
    PROVE  Place(First) /\ Understood(o, First)
<1>1. /\ First \in 1..Len(args) + 1 /\ Len(args) \in Nat /\ First \in Nat /\ MaxArgs \in Nat
  BY FirstType, CliAssumption DEF CliAssumption
<1>2. ASSUME First <= Len(args) PROVE ~IsValue[First]
  <2>1. First \in 1..MaxArgs /\ ~(First > First)
    BY <1>1, <1>2
  <2> QED
    BY <2>1, ValueRec, Zenon
<1>3. Place(First)
  BY <1>1, <1>2 DEF Place
<1>4. \A set : Before(set, First) = {}
  BY Bounds
<1>5. \A f \in Single : o[f] = FieldAt(f, First)
  BY <1>4 DEF FieldAt, Single
<1>6. o["paths"] = PathsAt(First)
  <2>1. o["paths"] = <<>>
    BY DefaultFields DEF InitialOf, Fields
  <2>2. Cardinality(Before(Plain, First)) = 0
    BY <1>4, FS_EmptySet
  <2>3. PathsAt(First) = <<>>
    BY <2>2 DEF PathsAt
  <2> QED
    BY <2>1, <2>3
<1> QED
  BY <1>3, <1>5, <1>6 DEF Understood

\* What Parse reads of a command line: what it means, but for a port that it cuts
\* and the options about color, of which it counts two.
Read ==
    [Meaning EXCEPT !.force_color = LastOf(DOMAIN Colors, LAMBDA i : Colors[args[i]], FALSE),
                    !.port = LastOf({"--port"}, LAMBDA i : ToInt(Number(args[i + 1])), 9876)]

\* That is what all of the arguments make understood.
LEMMA ReadUnderstood ==
    ASSUME args \in Seq(Argument)
    PROVE  Understood(Read, Len(args) + 1)
<1> DEFINE all == Len(args) + 1
           mode == LastOf(DOMAIN ModeFlags, LAMBDA i : ModeFlags[args[i]],
                          IF First = 2 THEN Commands[args[1]] ELSE "Unset")
           color == LastOf(DOMAIN Colors, LAMBDA i : Colors[args[i]], FALSE)
           port == LastOf({"--port"}, LAMBDA i : ToInt(Number(args[i + 1])), 9876)
           named == LastOf({"--port"}, LAMBDA i : PortNamed(Number(args[i + 1])), 9876)
           host == LastOf({"--host"}, LAMBDA i : args[i + 1], Empty)
           output == LastOf({"--output"}, LAMBDA i : args[i + 1], Empty)
           paths == [k \in 1..Cardinality(Where(Plain)) |-> args[Nth(Where(Plain), k)]]
           switches == [f \in DOMAIN Defaults |-> Where({t \in DOMAIN Switches : Switches[t] = f}) # {}]
<1>1. /\ Meaning = [switches EXCEPT !.mode = mode, !.force_color = ColorForced, !.port = named,
                                    !.host = host, !.output_dir = output, !.paths = paths]
      /\ Read = [Meaning EXCEPT !.force_color = color, !.port = port]
  BY DEF Meaning, Read
<1>2. \A set : Before(set, all) = Where(set)
  BY Bounds
<1>3. DOMAIN Defaults = Fields
  BY DefaultFields
<1>4. mode = FieldAt("mode", all)
  BY <1>2, SettingSets, Tables, DefaultFields DEF FieldAt, LastOf, Given, InitialOf
<1>5. color = FieldAt("force_color", all)
  <2>1. Setting("force_color") = DOMAIN Colors
    BY SettingSets, Tables
  <2>2. InitialOf("force_color") = FALSE
    BY DefaultFields DEF InitialOf
  <2>3. \A place : Given(place, "force_color") = Colors[args[place]]
    BY DEF Given
  <2>4. FieldAt("force_color", all) = IF Where(DOMAIN Colors) = {} THEN FALSE
                              ELSE Given(Max(Where(DOMAIN Colors)), "force_color")
    BY <1>2, <2>1, <2>2, Zenon DEF FieldAt
  <2> QED
    BY <2>3, <2>4, Zenon DEF LastOf
<1>6. port = FieldAt("port", all)
  <2>1. Setting("port") = {"--port"}
    BY SettingSets, Tables
  <2>2. InitialOf("port") = 9876
    BY DefaultFields DEF InitialOf
  <2>3. \A place : Given(place, "port") = ToInt(Number(args[place + 1]))
    BY DEF Given
  <2>4. FieldAt("port", all) = IF Where({"--port"}) = {} THEN InitialOf("port")
                              ELSE Given(Max(Where({"--port"})), "port")
    BY <1>2, <2>1, Zenon DEF FieldAt
  <2> QED
    BY <2>2, <2>3, <2>4 DEF LastOf
<1>7. host = FieldAt("host", all)
  <2>1. Setting("host") = {"--host"}
    BY SettingSets, Tables
  <2>2. InitialOf("host") = Empty
    BY DefaultFields DEF InitialOf
  <2>3. \A place : Given(place, "host") = args[place + 1]
    BY DEF Given
  <2>4. FieldAt("host", all) = IF Where({"--host"}) = {} THEN Empty
                              ELSE Given(Max(Where({"--host"})), "host")
    BY <1>2, <2>1, <2>2, Zenon DEF FieldAt
  <2> QED
    BY <2>3, <2>4, Zenon DEF LastOf
<1>8. output = FieldAt("output_dir", all)
  <2>1. Setting("output_dir") = {"--output"}
    BY SettingSets, Tables
  <2>2. InitialOf("output_dir") = Empty
    BY DefaultFields DEF InitialOf
  <2>3. \A place : Given(place, "output_dir") = args[place + 1]
    BY DEF Given
  <2>4. FieldAt("output_dir", all) = IF Where({"--output"}) = {} THEN Empty
                              ELSE Given(Max(Where({"--output"})), "output_dir")
    BY <1>2, <2>1, <2>2, Zenon DEF FieldAt
  <2> QED
    BY <2>3, <2>4, Zenon DEF LastOf
<1>9. paths = PathsAt(all)
  BY <1>2 DEF PathsAt
<1>10. ASSUME NEW f \in SwitchFields
       PROVE  switches[f] = FieldAt(f, all)
  <2>1. f \in Fields /\ f \notin {"mode", "force_color", "port", "host", "output_dir"}
    BY DEF Fields, SwitchFields
  <2>2. Setting(f) = {t \in DOMAIN Switches : Switches[t] = f}
    BY SettingSets, Tables
  <2>3. switches[f] = (Where(Setting(f)) # {})
    BY <1>3, <2>1, <2>2, Zenon
  <2>4. InitialOf(f) = FALSE
    <3>1. InitialOf(f) = Defaults[f]
      BY <2>1, Zenon DEF InitialOf
    <3>2. Defaults[f] = FALSE
      BY SwitchDefaults, Zenon
    <3> QED
      BY <3>1, <3>2, Zenon
  <2>5. \A place : Given(place, f) = TRUE
    BY <2>1 DEF Given
  <2>6. CASE Where(Setting(f)) = {}
    <3>1. FieldAt(f, all) = FALSE
      BY <1>2, <2>4, <2>6, Zenon DEF FieldAt
    <3> QED
      BY <2>3, <2>6, <3>1, Zenon
  <2>7. CASE Where(Setting(f)) # {}
    <3>1. FieldAt(f, all) = TRUE
      BY <1>2, <2>5, <2>7, Zenon DEF FieldAt
    <3> QED
      BY <2>3, <2>7, <3>1, Zenon
  <2> QED
    BY <2>6, <2>7
<1> HIDE DEF all, mode, color, port, named, host, output, paths, switches
<1>11. switches = [f \in Fields |-> switches[f]]
  BY <1>3, Zenon DEF switches
<1>12. /\ Meaning = [f \in Fields |-> Meaning[f]]
       /\ Meaning["mode"] = mode /\ Meaning["host"] = host /\ Meaning["output_dir"] = output
       /\ Meaning["paths"] = paths
  BY <1>1, <1>11 DEF Fields
<1>13. ASSUME NEW f \in SwitchFields PROVE Meaning[f] = switches[f]
  <2>1. f \in Fields /\ f \notin {"mode", "force_color", "port", "host", "output_dir", "paths"}
    BY DEF Fields, SwitchFields
  <2> QED
    BY <1>1, <1>11, <2>1
<1>14. /\ Read = [f \in Fields |-> Read[f]]
       /\ Read["force_color"] = color /\ Read["port"] = port
       /\ \A f \in Fields \ {"force_color", "port"} : Read[f] = Meaning[f]
  BY <1>1, <1>12 DEF Fields
<1>15. Single = SwitchFields \cup {"mode", "force_color", "port", "host", "output_dir"}
  BY DEF Single, Fields, SwitchFields
<1>16. ASSUME NEW f \in Single PROVE Read[f] = FieldAt(f, all)
  <2>1. CASE f \in SwitchFields
    <3>1. f \in Fields \ {"force_color", "port"}
      BY <2>1 DEF Fields, SwitchFields
    <3> QED
      BY <1>10, <1>13, <1>14, <2>1, <3>1
  <2>2. CASE f \in {"mode", "host", "output_dir"}
    <3>1. f \in Fields \ {"force_color", "port"}
      BY <2>2 DEF Fields
    <3> QED
      BY <1>4, <1>7, <1>8, <1>12, <1>14, <2>2, <3>1
  <2>3. CASE f \in {"force_color", "port"}
    BY <1>5, <1>6, <1>14, <2>3
  <2> QED
    BY <1>15, <2>1, <2>2, <2>3
<1>17. Read["paths"] = paths
  BY <1>12, <1>14 DEF Fields
<1> QED
  BY <1>9, <1>14, <1>16, <1>17 DEF Understood, all

\* The last of several places.
LEMMA LastPlaceOf ==
    ASSUME NEW N \in Nat, NEW W \in SUBSET (1..N), W # {}
    PROVE  Max(W) \in W /\ \A i \in W : i <= Max(W)
<1> DEFINE T == {N - i : i \in W}
<1>1. \A i \in W : i \in 1..N /\ N - i \in Nat
  OBVIOUS
<1>2. T \in SUBSET Nat /\ T # {}
  <2>1. T \subseteq Nat
    BY <1>1, Zenon
  <2>2. PICK i : i \in W
    OBVIOUS
  <2>3. N - i \in T
    BY <2>2, Zenon
  <2> QED
    BY <2>1, <2>3
<1>3. PICK x \in T : \A y \in T : x <= y
  BY <1>2, LeastNat
<1>4. PICK m \in W : x = N - m
  BY <1>3
<1>5. \A i \in W : m >= i
  <2> TAKE i \in W
  <2>1. N - m <= N - i
    BY <1>3, <1>4
  <2> QED
    BY <1>1, <1>4, <2>1
<1>6. Max(W) \in W /\ \A i \in W : Max(W) >= i
  BY <1>4, <1>5 DEF Max
<1>7. \A i \in W : i <= Max(W)
  BY <1>1, <1>6
<1> QED
  BY <1>6, <1>7

LEMMA LastWhere ==
    ASSUME args \in Seq(Argument), NEW set, Where(set) # {}
    PROVE  /\ Max(Where(set)) \in Where(set)
           /\ \A i \in Where(set) : i <= Max(Where(set))
<1>1. Len(args) \in Nat /\ Where(set) \in SUBSET (1..Len(args))
  BY FirstType DEF Where
<1> QED
  BY <1>1, LastPlaceOf

LEMMA LastBefore ==
    ASSUME args \in Seq(Argument), NEW set, NEW p, {i \in Where(set) : i < p} # {}
    PROVE  Max({i \in Where(set) : i < p}) \in {i \in Where(set) : i < p}
<1>1. Len(args) \in Nat /\ {i \in Where(set) : i < p} \in SUBSET (1..Len(args))
  BY FirstType DEF Where
<1> QED
  BY <1>1, LastPlaceOf, Zenon

LEMMA MeaningFields == Meaning = [f \in Fields |-> Meaning[f]]
<1> DEFINE mode == LastOf(DOMAIN ModeFlags, LAMBDA i : ModeFlags[args[i]],
                          IF First = 2 THEN Commands[args[1]] ELSE "Unset")
           named == LastOf({"--port"}, LAMBDA i : PortNamed(Number(args[i + 1])), 9876)
           host == LastOf({"--host"}, LAMBDA i : args[i + 1], Empty)
           output == LastOf({"--output"}, LAMBDA i : args[i + 1], Empty)
           paths == [k \in 1..Cardinality(Where(Plain)) |-> args[Nth(Where(Plain), k)]]
           switches == [f \in DOMAIN Defaults |-> Where({t \in DOMAIN Switches : Switches[t] = f}) # {}]
<1>1. Meaning = [switches EXCEPT !.mode = mode, !.force_color = ColorForced, !.port = named,
                                 !.host = host, !.output_dir = output, !.paths = paths]
  BY DEF Meaning
<1>2. DOMAIN switches = Fields
  BY DefaultFields
<1> HIDE DEF mode, named, host, output, paths, switches
<1> QED
  BY <1>1, <1>2

\* Only the fields named in Misread differ.
LEMMA ReadIsMeaning ==
    ASSUME args \in Seq(Argument), ~BadValue
    PROVE  \A f \in Fields \ Misread : Read[f] = Meaning[f]
<1> DEFINE color == LastOf(DOMAIN Colors, LAMBDA i : Colors[args[i]], FALSE)
           port == LastOf({"--port"}, LAMBDA i : ToInt(Number(args[i + 1])), 9876)
<1>1. /\ Read = [Meaning EXCEPT !.force_color = color, !.port = port]
      /\ Meaning = [f \in Fields |-> Meaning[f]]
  BY MeaningFields DEF Read
<1>0. Read["force_color"] = color /\ Read["port"] = port
  <2> HIDE DEF color, port
  <2> QED
    BY <1>1 DEF Fields
<1>2. ASSUME NEW f \in Fields \ {"force_color", "port"} PROVE Read[f] = Meaning[f]
  <2> HIDE DEF color, port
  <2> QED
    BY <1>1
<1>3. ASSUME ~CutPort PROVE Read["port"] = Meaning["port"]
  <2>1. /\ Read["port"] = LastOf({"--port"}, LAMBDA i : ToInt(Number(args[i + 1])), 9876)
        /\ Meaning["port"] = LastOf({"--port"}, LAMBDA i : PortNamed(Number(args[i + 1])), 9876)
    BY <1>0, DefaultFields DEF Meaning, Fields
  <2>2. CASE Where({"--port"}) = {}
    BY <2>1, <2>2 DEF LastOf
  <2>3. CASE Where({"--port"}) # {}
    <3>1. Number(args[Max(Where({"--port"})) + 1]).hi = 0
      BY <1>3, <2>3 DEF CutPort
    <3>2. ToInt(Number(args[Max(Where({"--port"})) + 1])) =
              PortNamed(Number(args[Max(Where({"--port"})) + 1]))
      BY <3>1 DEF ToInt, PortNamed
    <3> QED
      BY <2>1, <2>3, <3>2 DEF LastOf
  <2> QED
    BY <2>2, <2>3
<1>4. ASSUME ~AutoIgnored PROVE Read["force_color"] = Meaning["force_color"]
  <2> DEFINE always == Where({"--color=always"})
             auto == Where({"--color=auto"})
             two == Where(DOMAIN Colors)
             any == Where(AnyColor)
             m == Max(two)
  <2>1. /\ Read["force_color"] = IF two = {} THEN FALSE ELSE Colors[args[m]]
        /\ Meaning["force_color"] = ColorForced
    BY <1>0, DefaultFields DEF Meaning, Fields, LastOf
  <2>2. ~(always # {} /\ \E i \in auto : \A j \in any : j <= i)
    BY <1>4 DEF AutoIgnored
  <2>3. ColorForced = \E i \in always : \A j \in any : j <= i
    BY DEF ColorForced
  <2>a. Colors["--color=always"] = TRUE /\ Colors["--color=never"] = FALSE
    BY DEF Colors
  <2>b. DOMAIN Colors = {"--color=always", "--color=never"}
    BY DEF Colors
  <2>4. /\ always \subseteq two /\ two \subseteq any /\ auto \subseteq any
        /\ \A i \in any : i \in two \/ i \in auto
        /\ \A i \in any : i \in Int
    BY <2>b, FirstType DEF Where, AnyColor
  <2>c. ASSUME NEW i \in always PROVE Colors[args[i]] = TRUE
    <3>1. args[i] = "--color=always"
      BY <2>c DEF Where
    <3> QED
      BY <2>a, <3>1, Zenon
  <2>d. ASSUME NEW i \in two, i \notin always PROVE Colors[args[i]] = FALSE
    <3>1. args[i] = "--color=never"
      BY <2>b, <2>d DEF Where
    <3> QED
      BY <2>a, <3>1, Zenon
  <2>5. any # {} => Max(any) \in any /\ \A j \in any : j <= Max(any)
    BY LastWhere
  <2>6. two # {} => m \in two /\ \A j \in two : j <= m
    BY LastWhere
  <2> DEFINE n == Max(any)
  <2> HIDE DEF always, auto, two, any, m, n
  <2>7. CASE always = {}
    <3>1. ColorForced = FALSE
      BY <2>3, <2>7
    <3>2. two # {} => Colors[args[m]] = FALSE
      BY <2>d, <2>6, <2>7
    <3> QED
      BY <2>1, <3>1, <3>2, Zenon
  <2>8. CASE always # {}
    <3>1. any # {} /\ two # {}
      BY <2>4, <2>8
    <3>2. n \in any /\ \A j \in any : j <= n
      BY <2>5, <3>1 DEF n
    <3>3. n \in two
      BY <2>2, <2>4, <2>8, <3>2
    <3>4. m \in two /\ m <= n /\ n <= m
      BY <2>4, <2>6, <3>1, <3>2, <3>3
    <3>5. m = n
      BY <2>4, <3>2, <3>3, <3>4
    <3>6. Read["force_color"] = Colors[args[n]]
      BY <2>1, <3>1, <3>5
    <3>7. CASE n \in always
      <4>1. Colors[args[n]] = TRUE
        BY <2>c, <3>7
      <4>2. ColorForced = TRUE
        BY <2>3, <3>2, <3>7
      <4> QED
        BY <2>1, <3>6, <4>1, <4>2, Zenon
    <3>8. CASE n \notin always
      <4>1. Colors[args[n]] = FALSE
        BY <2>d, <3>3, <3>8
      <4>2. ASSUME NEW i \in always, \A j \in any : j <= i PROVE FALSE
        <5>1. i = n
          BY <2>4, <3>2, <4>2
        <5> QED
          BY <3>8, <5>1
      <4>3. ColorForced = FALSE
        BY <2>3, <4>2
      <4> QED
        BY <2>1, <3>6, <4>1, <4>3, Zenon
    <3> QED
      BY <3>7, <3>8
  <2> QED
    BY <2>7, <2>8
<1>5. ASSUME NEW f \in Fields \ Misread PROVE Read[f] = Meaning[f]
  <2>1. CASE f = "port"
    BY <1>3, <1>5, <2>1 DEF Misread
  <2>2. CASE f = "force_color"
    BY <1>4, <1>5, <2>2 DEF Misread
  <2> QED
    BY <1>2, <1>5, <2>1, <2>2
<1> QED
  BY <1>5

\* The mode in front of a place is the one understood there.
LEMMA ModeSoFar ==
    ASSUME NEW o, NEW p, Understood(o, p)
    PROVE  o["mode"] = ModeAt(p)
<1>1. o["mode"] = FieldAt("mode", p)
  BY DEF Understood, Single, Fields
<1>2. Setting("mode") = DOMAIN ModeFlags
  BY SettingSets, Tables
<1>3. \A place : Given(place, "mode") = ModeFlags[args[place]]
  BY DEF Given
<1>4. InitialOf("mode") = IF First = 2 THEN Commands[args[1]] ELSE "Unset"
  BY DefaultFields DEF InitialOf
<1>5. FieldAt("mode", p) = ModeAt(p)
  <2> DEFINE flags == Before(DOMAIN ModeFlags, p)
  <2>1. FieldAt("mode", p) = IF flags = {} THEN InitialOf("mode") ELSE Given(Max(flags), "mode")
    BY <1>2, Zenon DEF FieldAt
  <2>2. ModeAt(p) = IF flags # {} THEN ModeFlags[args[Max(flags)]]
                    ELSE IF First = 2 THEN Commands[args[1]] ELSE "Unset"
    BY Zenon DEF ModeAt, Before
  <2> HIDE DEF flags
  <2>3. CASE flags = {}
    BY <1>4, <2>1, <2>2, <2>3
  <2>4. CASE flags # {}
    BY <1>3, <2>1, <2>2, <2>4
  <2> QED
    BY <2>3, <2>4
<1> QED
  BY <1>1, <1>5

\* No fault is in front of a place.
Clean(p) ==
    /\ \A i \in Before(Argument \ Options, p) : args[i] \in Plain /\ ModeAt(i) = "Send"
    /\ \A i \in Before(ValueOptions, p) :
           i # Len(args) /\ ~(args[i] = "--port" /\ Number(args[i + 1]) = NoNumber)

LEMMA CleanMore ==
    ASSUME args \in Seq(Argument), Len(args) <= MaxArgs, Place(pos),
           Understood(opts, pos), Clean(pos), MoveEffect
    PROVE  Clean(Beyond(pos))
<1>1. /\ pos <= Len(args) /\ pos \in Int
      /\ args[pos] \in ValueOptions => pos < Len(args)
  BY FirstType DEF MoveEffect, Arg, Place
<1>2. \A set : Before(set, Beyond(pos)) =
                   IF args[pos] \in set THEN Before(set, pos) \cup {pos} ELSE Before(set, pos)
  BY <1>1, Advance
<1>3. opts["mode"] = ModeAt(pos)
  BY ModeSoFar
<1>4. args[pos] \in Argument \ Options => args[pos] \in Plain /\ ModeAt(pos) = "Send"
  BY <1>3 DEF MoveEffect, Arg
<1>5. /\ args[pos] \in ValueOptions => pos # Len(args)
      /\ args[pos] = "--port" => Number(args[pos + 1]) # NoNumber
  BY <1>1 DEF MoveEffect, Arg
<1>6. ASSUME NEW set, NEW i \in Before(set, Beyond(pos))
      PROVE  i \in Before(set, pos) \/ (i = pos /\ args[pos] \in set)
  BY <1>2
<1>7. ASSUME NEW i \in Before(Argument \ Options, Beyond(pos))
      PROVE  args[i] \in Plain /\ ModeAt(i) = "Send"
  BY <1>4, <1>6, Zenon DEF Clean
<1>8. ASSUME NEW i \in Before(ValueOptions, Beyond(pos))
      PROVE  i # Len(args) /\ ~(args[i] = "--port" /\ Number(args[i + 1]) = NoNumber)
  BY <1>5, <1>6, Zenon DEF Clean
<1> QED
  BY <1>7, <1>8 DEF Clean

LEMMA CleanAll ==
    ASSUME args \in Seq(Argument), Clean(Len(args) + 1)
    PROVE  ~BadWord /\ ~BadValue /\ ~Late
<1>1. \A set : Before(set, Len(args) + 1) = Where(set)
  BY Bounds
<1>2. DOMAIN ValueFlags \cup {"--port"} = ValueOptions
  BY Tables
<1>3. ~BadWord
  BY <1>1, Zenon DEF Clean, BadWord
<1>4. ~BadValue
  BY <1>1, <1>2, Zenon DEF Clean, BadValue
<1>5. ASSUME Late PROVE FALSE
  <2>1. First = 1
    BY <1>5, Zenon DEF Late
  <2>2. PICK i \in Where(Plain) : args[i] \in DOMAIN Commands
    BY <1>5, Zenon DEF Late
  <2>3. i \in Where(Argument \ Options)
    BY <2>2, CliAssumption DEF CliAssumption, Where
  <2>4. ModeAt(i) = "Send"
    BY <1>1, <2>3, Zenon DEF Clean
  <2>5. ModeAt(i) = "Unset" \/ \E k \in Where(DOMAIN ModeFlags) : ModeAt(i) = ModeFlags[args[k]]
    <3> DEFINE flags == {j \in Where(DOMAIN ModeFlags) : j < i}
    <3>1. ModeAt(i) = IF flags # {} THEN ModeFlags[args[Max(flags)]] ELSE "Unset"
      BY <2>1 DEF ModeAt
    <3>2. flags # {} => Max(flags) \in flags
      BY LastBefore
    <3> QED
      BY <3>1, <3>2
  <2>6. \A k \in Where(DOMAIN ModeFlags) : ModeFlags[args[k]] \in {"Help", "Version"}
    BY DEF Where, ModeFlags
  <2> QED
    BY <2>4, <2>5, <2>6
<1> QED
  BY <1>3, <1>4, <1>5

\* An argument that the scan looks at is none of the values.
LEMMA LookedAt ==
    ASSUME args \in Seq(Argument), NEW p, Place(p), p <= Len(args), NEW set, args[p] \in set
    PROVE  p \in Where(set)
BY FirstType DEF Place, Where

\* All of this is about the arguments, which no step changes.
LEMMA SameArguments ==
    ASSUME args' = args
    PROVE  /\ First' = First /\ IsValue' = IsValue
           /\ BadFirst' = BadFirst /\ BadWord' = BadWord /\ BadValue' = BadValue
           /\ Late' = Late /\ CutPort' = CutPort
           /\ Faulty' = Faulty /\ Meaning' = Meaning /\ Read' = Read
           /\ Place(pos)' = Place(pos')
           /\ Understood(opts, pos)' = Understood(opts', pos')
           /\ Clean(pos)' = Clean(pos')
<1>1. First' = First
  BY DEF First
<1>2. IsValue' = IsValue
  BY <1>1 DEF IsValue
<1>3. ASSUME NEW CONSTANT set PROVE Where(set)' = Where(set)
  BY <1>1, <1>2 DEF Where
<1>4. ASSUME NEW CONSTANT set, NEW CONSTANT p PROVE Before(set, p)' = Before(set, p)
  BY <1>3 DEF Before
<1>5. ASSUME NEW CONSTANT i PROVE ModeAt(i)' = ModeAt(i)
  BY <1>1, <1>3 DEF ModeAt
<1>6. ASSUME NEW CONSTANT f, NEW CONSTANT p PROVE FieldAt(f, p)' = FieldAt(f, p)
  BY <1>1, <1>4 DEF FieldAt, InitialOf, Given
<1>7. ASSUME NEW CONSTANT p PROVE PathsAt(p)' = PathsAt(p)
  BY <1>1, <1>4 DEF PathsAt
<1>8. ASSUME NEW CONSTANT p PROVE Place(p)' = Place(p)
  BY <1>1, <1>2 DEF Place
<1>9. ASSUME NEW CONSTANT o, NEW CONSTANT p PROVE Understood(o, p)' = Understood(o, p)
  BY <1>6, <1>7 DEF Understood
<1>10. Place(pos)' = Place(pos')
  BY <1>8
<1>11. Understood(opts, pos)' = Understood(opts', pos')
  BY <1>9
<1>12. Meaning' = Meaning
  <2> DEFINE mode == LastOf(DOMAIN ModeFlags, LAMBDA i : ModeFlags[args[i]],
                            IF First = 2 THEN Commands[args[1]] ELSE "Unset")
             color == ColorForced
             port == LastOf({"--port"}, LAMBDA i : PortNamed(Number(args[i + 1])), 9876)
             host == LastOf({"--host"}, LAMBDA i : args[i + 1], Empty)
             output == LastOf({"--output"}, LAMBDA i : args[i + 1], Empty)
             paths == [k \in 1..Cardinality(Where(Plain)) |-> args[Nth(Where(Plain), k)]]
             switches == [f \in DOMAIN Defaults |-> Where({t \in DOMAIN Switches : Switches[t] = f}) # {}]
             meant == [switches EXCEPT !.mode = mode, !.force_color = color, !.port = port,
                                       !.host = host, !.output_dir = output, !.paths = paths]
  <2>1. Meaning = meant /\ Meaning' = meant'
    BY DEF Meaning
  <2>2. mode' = mode
    BY <1>1, <1>3, Zenon DEF LastOf
  <2>3. color' = color
    BY <1>3, Zenon DEF ColorForced
  <2>4. port' = port
    BY <1>1, <1>3 DEF LastOf
  <2>5. host' = host /\ output' = output
    BY <1>1, <1>3, Zenon DEF LastOf
  <2>6. paths' = paths
    BY <1>3
  <2>7. switches' = switches
    BY <1>3
  <2> HIDE DEF mode, color, port, host, output, paths, switches
  <2>8. meant' = meant
    BY <2>2, <2>3, <2>4, <2>5, <2>6, <2>7
  <2> QED
    BY <2>1, <2>8
<1>13. BadFirst' = BadFirst
  BY Zenon DEF BadFirst
<1>20. Late' = Late
  BY <1>1, <1>3, Zenon DEF Late
<1>14. BadWord' = BadWord
  BY <1>3, <1>5, <1>20, Zenon DEF BadWord
<1>15. BadValue' = BadValue
  BY <1>3, Zenon DEF BadValue
<1>16. Faulty' = Faulty
  BY <1>12, <1>13, <1>14, <1>15 DEF Faulty
<1>17. ASSUME NEW CONSTANT p PROVE Clean(p)' = Clean(p)
  BY <1>4, <1>5, Zenon DEF Clean
<1>18. Clean(pos)' = Clean(pos')
  BY <1>17
<1>19. CutPort' = CutPort
  BY <1>3, Zenon DEF CutPort
<1>21. Read' = Read
  <2> DEFINE color == LastOf(DOMAIN Colors, LAMBDA i : Colors[args[i]], FALSE)
             port == LastOf({"--port"}, LAMBDA i : ToInt(Number(args[i + 1])), 9876)
  <2>1. color' = color
    BY <1>3, Zenon DEF LastOf
  <2>2. port' = port
    BY <1>3 DEF LastOf
  <2>3. Read = [Meaning EXCEPT !.force_color = color, !.port = port]
        /\ Read' = [Meaning' EXCEPT !.force_color = color', !.port = port']
    BY DEF Read
  <2> HIDE DEF color, port
  <2> QED
    BY <1>12, <2>1, <2>2, <2>3
<1> QED
  BY <1>1, <1>2, <1>10, <1>11, <1>12, <1>13, <1>14, <1>15, <1>16, <1>18, <1>19, <1>20, <1>21

\* The modes of enum class Mode.
Modes == {"Unset", "Send", "Receive", "Help", "Version"}

\* The scan looks at no value, has understood what is in front of it, and has
\* found no fault there.
ScanInv == ~BadFirst /\ Place(pos) /\ Understood(opts, pos) /\ Clean(pos)

\* The arguments one by one have no fault, and the subcommand its place.
Sound == ~BadFirst /\ ~BadWord /\ ~BadValue /\ ~Late

CliInv ==
    /\ args \in Seq(Argument) /\ Len(args) <= MaxArgs
    /\ opts["mode"] \in Modes
    /\ status = "start" => pos = 1 /\ opts = Defaults
    /\ status = "scan" => ScanInv
    /\ status = "rejected" => Faulty \/ Late
    /\ Accepted => opts = Read /\ Sound /\ ~Unusable(opts)

LEMMA CliInitially == CliInit => CliInv
<1> SUFFICES ASSUME CliInit PROVE CliInv
  OBVIOUS
<1>1. PICK n \in 0..MaxArgs : args \in [1..n -> Argument]
  BY DEF CliInit
<1>2. args \in Seq(Argument) /\ Len(args) = n /\ n <= MaxArgs
  BY <1>1, CliAssumption DEF CliAssumption
<1> QED
  BY <1>2, DefaultFields DEF CliInit, CliInv, Modes, Accepted

\* The modes of the tables.
LEMMA ModesOfTables ==
    /\ \A t \in ModeOptions : ModeFlags[t] \in Modes
    /\ \A name \in DOMAIN Commands : Commands[name] \in Modes
BY DEF ModeFlags, ModeOptions, Commands, Modes

LEMMA CliMoves ==
    ASSUME CliInv, Move
    PROVE  CliInv'
<1>1. /\ args \in Seq(Argument) /\ Len(args) <= MaxArgs /\ opts["mode"] \in Modes
      /\ status = "scan"
  BY DEF CliInv, Move, ModeFlag, Switch, Color, Value, Port, Positional, Scanning
<1>2. ScanInv
  BY <1>1 DEF CliInv
<1>3. MoveEffect
  BY <1>2, Moves DEF ScanInv, Understood
<1>4. args' = args /\ status' = "scan" /\ pos' = Beyond(pos)
  BY <1>1, <1>3 DEF MoveEffect
<1>5. Understood(opts', pos')
  BY <1>1, <1>2, <1>3, <1>4, UnderstoodMore DEF ScanInv
<1>6. Clean(pos')
  BY <1>1, <1>2, <1>3, <1>4, CleanMore DEF ScanInv
<1>7. Place(pos')
  BY <1>1, <1>2, <1>3, <1>4, Advance DEF ScanInv, MoveEffect, Arg
<1>8. ScanInv'
  BY <1>2, <1>4, <1>5, <1>6, <1>7, SameArguments DEF ScanInv
<1>9. opts'["mode"] \in Modes
  <2>1. opts'["mode"] = IF Arg \in ModeOptions THEN ModeFlags[Arg] ELSE opts["mode"]
    BY <1>3, SettingSets DEF MoveEffect, Single, Fields, Given, Arg
  <2> QED
    BY <1>1, <2>1, ModesOfTables
<1> QED
  BY <1>1, <1>4, <1>8, <1>9 DEF CliInv, Accepted

\* The first argument.
LEMMA CliBegins ==
    ASSUME CliInv, Subcommand \/ NoSubcommand
    PROVE  CliInv'
<1>1. /\ args \in Seq(Argument) /\ Len(args) <= MaxArgs /\ opts["mode"] \in Modes
      /\ pos = 1 /\ opts = Defaults /\ args # <<>>
      /\ args' = args /\ status' = "scan"
  BY DEF CliInv, Subcommand, NoSubcommand
<1>2. args[1] \in Argument /\ Argument \cap DOMAIN Commands \subseteq Plain
  BY <1>1, CliAssumption DEF CliAssumption
<1>3. Defaults = [f \in Fields |-> Defaults[f]] /\ "mode" \in Fields
  BY DefaultFields DEF Fields
<1>4. /\ pos' = First /\ ~BadFirst /\ opts' = [f \in Fields |-> InitialOf(f)]
      /\ opts'["mode"] \in Modes
  <2>1. CASE Subcommand
    <3>1. args[1] \in DOMAIN Commands /\ opts' = [Defaults EXCEPT !["mode"] = Commands[args[1]]] /\ pos' = 2
      BY <1>1, <2>1 DEF Subcommand, Arg
    <3>2. First = 2
      BY <1>1, <3>1 DEF First
    <3>3. opts' = [f \in Fields |-> InitialOf(f)]
      BY <1>3, <3>1, <3>2 DEF InitialOf
    <3>4. opts'["mode"] = Commands[args[1]]
      BY <1>3, <3>1
    <3> QED
      BY <1>1, <3>1, <3>2, <3>3, <3>4, ModesOfTables DEF BadFirst
  <2>2. CASE NoSubcommand
    <3>1. args[1] \notin Plain /\ opts' = Defaults /\ pos' = 1
      BY <1>1, <2>2 DEF NoSubcommand, Arg
    <3>2. args[1] \notin DOMAIN Commands
      BY <1>2, <3>1
    <3>3. First = 1
      BY <3>2 DEF First
    <3>4. \A f \in Fields : InitialOf(f) = Defaults[f]
      BY <3>3 DEF InitialOf
    <3>5. opts' = [f \in Fields |-> InitialOf(f)]
      BY <1>3, <3>1, <3>4, Zenon
    <3> QED
      BY <1>1, <3>1, <3>3, <3>5 DEF BadFirst
  <2> QED
    BY <2>1, <2>2
<1>5. Place(pos') /\ Understood(opts', pos')
  BY <1>1, <1>4, Begun
<1>6. Clean(pos')
  BY <1>1, <1>4, Bounds DEF Clean
<1>7. ScanInv'
  BY <1>1, <1>4, <1>5, <1>6, SameArguments DEF ScanInv
<1> QED
  BY <1>1, <1>4, <1>7 DEF CliInv, Accepted

\* The faults of the arguments, and those of what they mean together.
Useless == Unusable(Meaning)

\* Whether they are useless together can be told from what Parse reads, unless it
\* cuts the port, which then is none.
LEMMA UselessIsRead ==
    ASSUME args \in Seq(Argument), ~BadValue
    PROVE  /\ Unusable(Read) => Useless
           /\ Useless => Unusable(Read) \/ CutPort
<1>1. Read.mode = Meaning.mode /\ Read.paths = Meaning.paths
  BY ReadIsMeaning DEF Misread, Fields
<1>2. ~CutPort => Read.port = Meaning.port
  BY ReadIsMeaning DEF Misread, Fields
<1>3. CutPort => Meaning.port = NoPort
  <2>1. DOMAIN Defaults = Fields /\ "port" \in Fields
    BY DefaultFields DEF Fields
  <2>2. Meaning["port"] = LastOf({"--port"}, LAMBDA i : PortNamed(Number(args[i + 1])), 9876)
    BY <2>1 DEF Meaning
  <2>3. CutPort => Meaning["port"] = PortNamed(Number(args[Max(Where({"--port"})) + 1]))
    BY <2>2 DEF CutPort, LastOf
  <2> QED
    BY <2>3 DEF CutPort, PortNamed
<1>4. NoPort \notin Ports
  BY DEF NoPort, Ports
<1> QED
  BY <1>1, <1>2, <1>3, <1>4 DEF Useless, Unusable

LEMMA FaultParts == Faulty <=> BadFirst \/ BadWord \/ BadValue \/ Useless
BY DEF Faulty, Useless, Unusable

\* What is rejected has a fault, or its subcommand too late.
LEMMA CliRejects ==
    ASSUME CliInv, NoArguments \/ UnknownSubcommand \/ NoValue \/ UnknownOption
    PROVE  CliInv'
<1>1. /\ args \in Seq(Argument) /\ Len(args) <= MaxArgs /\ opts["mode"] \in Modes
      /\ UNCHANGED <<args, pos, opts>> /\ status' = "rejected"
  BY DEF CliInv, NoArguments, UnknownSubcommand, NoValue, UnknownOption, Reject
<1>2. ASSUME NoArguments PROVE Faulty
  <2>1. BadFirst
    BY <1>2 DEF NoArguments, BadFirst
  <2> QED
    BY <2>1, FaultParts, Zenon
<1>3. ASSUME UnknownSubcommand PROVE Faulty
  <2>1. pos = 1
    BY <1>3 DEF CliInv, UnknownSubcommand
  <2>2. BadFirst
    BY <1>3, <2>1 DEF UnknownSubcommand, BadFirst, Arg
  <2> QED
    BY <2>2, FaultParts, Zenon
<1>4. ASSUME NoValue PROVE Faulty
  <2>1. ScanInv /\ pos <= Len(args)
    BY <1>4 DEF CliInv, NoValue, Scanning
  <2>2. pos \in Where(DOMAIN ValueFlags \cup {"--port"})
    BY <1>1, <1>4, <2>1, LookedAt DEF ScanInv, NoValue, Arg
  <2>3. BadValue
    BY <1>4, <2>2 DEF BadValue, NoValue, Arg
  <2> QED
    BY <2>3, FaultParts, Zenon
<1>5. ASSUME UnknownOption PROVE Faulty \/ Late
  <2>1. ScanInv /\ pos <= Len(args) /\ args[pos] \notin Options /\ (args[pos] \in Plain => opts["mode"] # "Send")
    BY <1>5 DEF CliInv, UnknownOption, Scanning, Arg
  <2>2. args[pos] \in Argument
    BY <1>1, <2>1, FirstType DEF ScanInv, Place
  <2>3. pos \in Where(Argument \ Options)
    BY <1>1, <2>1, <2>2, LookedAt DEF ScanInv
  <2>4. opts["mode"] = ModeAt(pos)
    BY <2>1, ModeSoFar DEF ScanInv
  <2>5. BadWord \/ Late
    BY <2>1, <2>3, <2>4 DEF BadWord
  <2> QED
    BY <2>5, FaultParts, Zenon
<1>6. Faulty \/ Late
  BY <1>2, <1>3, <1>4, <1>5, Zenon
<1>7. Faulty' \/ Late'
  BY <1>1, <1>6, SameArguments
<1> QED
  BY <1>1, <1>7 DEF CliInv, Accepted

\* The end of the scan.
LEMMA CliScanned ==
    ASSUME CliInv, Scanned
    PROVE  CliInv'
<1>1. /\ args \in Seq(Argument) /\ Len(args) <= MaxArgs /\ opts["mode"] \in Modes
      /\ UNCHANGED <<args, pos, opts>> /\ status' = IF Unusable(opts) THEN "rejected" ELSE "parsed"
      /\ ScanInv /\ pos > Len(args)
  BY DEF CliInv, Scanned
<1>2. pos = Len(args) + 1
  BY <1>1, FirstType DEF ScanInv, Place
<1>3. opts = Read
  BY <1>1, <1>2, ReadUnderstood, SameUnderstanding DEF ScanInv
<1>4. Sound
  BY <1>1, <1>2, CleanAll DEF ScanInv, Sound
<1>5. Unusable(opts) => Faulty
  <2>1. Unusable(Read) => Useless
    BY <1>1, <1>4, UselessIsRead DEF Sound
  <2> QED
    BY <1>3, <2>1, FaultParts, Zenon
<1>6. Faulty' = Faulty /\ Read' = Read /\ Sound' = Sound
  BY <1>1, SameArguments DEF Sound
<1>7. opts' = opts
  BY <1>1
<1> QED
  BY <1>1, <1>3, <1>4, <1>5, <1>6, <1>7 DEF CliInv, Accepted

LEMMA CliPreserved == CliInv /\ [CliNext]_cliVars => CliInv'
<1> SUFFICES ASSUME CliInv, [CliNext]_cliVars PROVE CliInv'
  OBVIOUS
<1>1. CASE Dispatch
  <2>1. /\ UNCHANGED <<args, pos, opts>> /\ Accepted /\ opts["mode"] \in Modes
    BY <1>1 DEF Dispatch, CliInv, Accepted
  <2>2. status' \notin {"start", "scan", "rejected"}
    BY <1>1, <2>1 DEF Dispatch, Modes
  <2>3. opts' = Read' /\ Sound' /\ ~Unusable(opts')
    <3>1. opts = Read /\ Sound /\ ~Unusable(opts)
      BY <2>1, Zenon DEF CliInv
    <3>2. Sound' = Sound /\ Read' = Read
      <4>1. args' = args
        BY <2>1
      <4> QED
        BY <4>1, SameArguments DEF Sound
    <3>3. opts' = opts
      BY <2>1
    <3> QED
      BY <3>1, <3>2, <3>3, Zenon
  <2> QED
    BY <2>1, <2>2, <2>3 DEF CliInv, Accepted
<1>2. CASE UNCHANGED cliVars
  <2>1. args' = args /\ pos' = pos /\ opts' = opts /\ status' = status
    BY <1>2 DEF cliVars
  <2>2. /\ Place(pos)' = Place(pos') /\ Understood(opts, pos)' = Understood(opts', pos')
        /\ Clean(pos)' = Clean(pos') /\ BadFirst' = BadFirst
        /\ Faulty' = Faulty /\ Late' = Late /\ Read' = Read /\ Sound' = Sound
    BY <2>1, SameArguments DEF Sound
  <2>3. Place(pos') = Place(pos) /\ Understood(opts', pos') = Understood(opts, pos) /\ Clean(pos') = Clean(pos)
    BY <2>1
  <2>4. ScanInv' = ScanInv
    BY <2>2, <2>3, Zenon DEF ScanInv
  <2> QED
    BY <2>1, <2>2, <2>4 DEF CliInv, Accepted
<1>3. CASE Move
  BY <1>3, CliMoves
<1>4. CASE Subcommand \/ NoSubcommand
  BY <1>4, CliBegins
<1>5. CASE NoArguments \/ UnknownSubcommand \/ NoValue \/ UnknownOption
  BY <1>5, CliRejects
<1>6. CASE Scanned
  BY <1>6, CliScanned
<1> QED
  BY <1>1, <1>2, <1>3, <1>4, <1>5, <1>6 DEF CliNext, Move

\* In every state of Parse's loop the fields of its Options are those that the
\* arguments in front of it give, wherever they stand, and none of these is a
\* fault: what Parse rejects, accepts and has assigned follows.
THEOREM ScanUnderstands == Spec => []CliInv
<1>1. Init => CliInv
  BY CliInitially DEF Init
<1>2. [Next]_vars => [CliNext]_cliVars
  BY DEF Next, Launch, vars
<1>3. CliInv /\ [Next]_vars => CliInv'
  BY <1>2, CliPreserved
<1> QED
  BY <1>1, <1>3, PTL DEF Spec

\* The Options that Parse returns and main runs are what the command line means:
\* the last of several options counts, --host and --output take whatever comes
\* next, and the paths are the plain arguments, in their order.  Excepted are a
\* port that is cut to an int, and --color=auto behind --color=always.
THEOREM AcceptedIsUnderstood == Spec => []ParseIsMeaning
<1>1. CliInv => ParseIsMeaning
  <2> SUFFICES ASSUME CliInv, Accepted PROVE \A f \in DOMAIN Defaults \ Misread : opts[f] = Meaning[f]
    BY DEF ParseIsMeaning
  <2>1. args \in Seq(Argument) /\ opts = Read /\ ~BadValue
    BY DEF CliInv, Sound
  <2>2. DOMAIN Defaults = Fields
    BY DefaultFields
  <2> QED
    BY <2>1, <2>2, ReadIsMeaning
<1> QED
  BY <1>1, ScanUnderstands, PTL

\* Parse fails on a command line with a fault, wherever in it the fault is and
\* whatever was assigned before it was met; on one whose subcommand stands behind
\* an option; and on no other.  The one fault it lets pass is a port cut to an int.
THEOREM OnlyFaultsAreRejected == Spec => []RejectsExactlyFaults
<1>1. CliInv => RejectsExactlyFaults
  <2> SUFFICES ASSUME CliInv, Accepted, Faulty PROVE CutPort
    BY DEF CliInv, RejectsExactlyFaults, Sound
  <2>1. args \in Seq(Argument) /\ Sound /\ ~Unusable(Read)
    BY Zenon DEF CliInv
  <2>2. ~BadValue /\ Useless
    BY <2>1, FaultParts, Zenon DEF Sound
  <2> QED
    BY <2>1, <2>2, UselessIsRead
<1> QED
  BY <1>1, ScanUnderstands, PTL
=============================================================================
