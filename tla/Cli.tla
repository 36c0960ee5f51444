--------------------------------- MODULE Cli ---------------------------------
(***************************************************************************)
(* The command line: Parse of cli.cpp, which reads the arguments from left *)
(* to right, and the dispatch of main.cpp.  An option with a short and a   *)
(* long spelling is one token here.                                        *)
(***************************************************************************)
EXTENDS Integers, Sequences, FiniteSetsExt

CONSTANTS
    Argument,    \* what can stand on the command line
    Plain,       \* of these, what does not begin with '-'
    Number(_),   \* what strtol makes of an argument: a long, or NoNumber
    NoNumber,
    MaxArgs      \* BOUND: arguments on a command line

VARIABLES
    args,     \* the arguments after the program's name
    pos,      \* the one Parse looks at
    opts,     \* struct Options
    status    \* "start", "scan", "rejected", "parsed", or what main did then

cliVars == <<args, pos, opts, status>>

Commands ==
    [name \in {"send", "recv", "receive", "help", "version"} |->
        CASE name = "send" -> "Send" [] name \in {"recv", "receive"} -> "Receive"
          [] name = "help" -> "Help" [] name = "version" -> "Version"]

ModeFlags == [flag \in {"--help", "--version"} |-> IF flag = "--help" THEN "Help" ELSE "Version"]

Switches ==
    [flag \in {"--verbose", "--no-progress", "--recursive", "--follow-symlinks",
               "--no-zero-copy", "--no-verify", "--listen"} |->
        CASE flag = "--verbose" -> "verbose" [] flag = "--no-progress" -> "no_progress"
          [] flag = "--recursive" -> "recursive" [] flag = "--follow-symlinks" -> "follow_symlinks"
          [] flag = "--no-zero-copy" -> "no_zero_copy" [] flag = "--no-verify" -> "no_verify"
          [] flag = "--listen" -> "listen"]

Colors == [flag \in {"--color=always", "--color=never"} |-> flag = "--color=always"]

ValueFlags == [flag \in {"--host", "--output"} |-> IF flag = "--host" THEN "host" ELSE "output_dir"]

Options ==
    {"--color=auto", "--port"}
        \cup DOMAIN ModeFlags \cup DOMAIN Switches \cup DOMAIN Colors \cup DOMAIN ValueFlags

\* A long is hi * 2^32 + lo, where lo has the range of an int.
ASSUME CliAssumption ==
    /\ \A arg \in Argument : Number(arg) \in [hi : Int, lo : Int] \cup {NoNumber}
    /\ Plain \subseteq Argument
    /\ Plain \cap Options = {}
    /\ Argument \cap DOMAIN Commands \subseteq Plain
    /\ MaxArgs \in Nat

\* A string that is not set.
Empty == ""

Defaults ==
    [mode |-> "Unset", verbose |-> FALSE, no_progress |-> FALSE, force_color |-> FALSE,
     port |-> 9876, host |-> Empty, listen |-> FALSE, recursive |-> FALSE,
     follow_symlinks |-> FALSE, no_zero_copy |-> FALSE, paths |-> <<>>,
     output_dir |-> Empty, no_verify |-> FALSE]

-----------------------------------------------------------------------------
(* One pass over the arguments. *)

Arg == args[pos]
Scanning == status = "scan" /\ pos <= Len(args)
Reject == status' = "rejected" /\ UNCHANGED <<args, pos, opts>>

\* The argument is used up, and n - 1 more of them.
Take(n, o) ==
    /\ pos' = pos + n
    /\ opts' = o
    /\ UNCHANGED <<args, status>>

\* Without arguments the help is printed, and Parse fails.
NoArguments == status = "start" /\ args = <<>> /\ Reject

Subcommand ==
    /\ status = "start" /\ args # <<>> /\ Arg \in DOMAIN Commands
    /\ opts' = [opts EXCEPT !.mode = Commands[Arg]]
    /\ pos' = 2
    /\ status' = "scan"
    /\ UNCHANGED args

UnknownSubcommand == status = "start" /\ args # <<>> /\ Arg \in Plain \ DOMAIN Commands /\ Reject

NoSubcommand ==
    /\ status = "start" /\ args # <<>> /\ Arg \notin Plain
    /\ status' = "scan"
    /\ UNCHANGED <<args, pos, opts>>

ModeFlag == Scanning /\ Arg \in DOMAIN ModeFlags /\ Take(1, [opts EXCEPT !.mode = ModeFlags[Arg]])

Switch == Scanning /\ Arg \in DOMAIN Switches /\ Take(1, [opts EXCEPT ![Switches[Arg]] = TRUE])

Color ==
    /\ Scanning
    /\ \/ Arg \in DOMAIN Colors /\ Take(1, [opts EXCEPT !.force_color = Colors[Arg]])
       \/ Arg = "--color=auto" /\ Take(1, opts)

\* Mutant: the value is looked at again as an argument.
ValueAgain ==
    /\ Scanning /\ Arg \in DOMAIN ValueFlags /\ pos < Len(args)
    /\ Take(1, [opts EXCEPT ![ValueFlags[Arg]] = args[pos + 1]])

\* Whatever comes next is the value, an option too.
Value ==
    /\ Scanning /\ Arg \in DOMAIN ValueFlags /\ pos < Len(args)
    /\ Take(2, [opts EXCEPT ![ValueFlags[Arg]] = args[pos + 1]])

\* static_cast<int>(long).
ToInt(long) == long.lo

Port ==
    /\ Scanning /\ Arg = "--port" /\ pos < Len(args) /\ Number(args[pos + 1]) # NoNumber
    /\ Take(2, [opts EXCEPT !.port = ToInt(Number(args[pos + 1]))])

NoValue ==
    /\ Scanning /\ Arg \in DOMAIN ValueFlags \cup {"--port"}
    /\ \/ pos = Len(args)
       \/ pos < Len(args) /\ Arg = "--port" /\ Number(args[pos + 1]) = NoNumber
    /\ Reject

\* Mutant: a path is taken in every mode.
PositionalAnyMode ==
    /\ Scanning /\ Arg \in Plain
    /\ Take(1, [opts EXCEPT !.paths = Append(@, Arg)])

\* Paths are taken while the mode is Send at this point of the scan.
Positional ==
    /\ Scanning /\ Arg \in Plain /\ opts.mode = "Send"
    /\ Take(1, [opts EXCEPT !.paths = Append(@, Arg)])

UnknownOption ==
    /\ Scanning /\ Arg \notin Options
    /\ Arg \in Plain => opts.mode # "Send"
    /\ Reject

Ports == 1..65535

\* The checks after the scan, in whatever mode it ended.
Unusable(o) == (o.mode = "Send" /\ o.paths = <<>>) \/ o.port \notin Ports

Scanned ==
    /\ status = "scan" /\ pos > Len(args)
    /\ status' = IF Unusable(opts) THEN "rejected" ELSE "parsed"
    /\ UNCHANGED <<args, pos, opts>>

\* main: a rejected command line and one without a mode end with 2.
Dispatch ==
    /\ status = "parsed"
    /\ status' = CASE opts.mode = "Help" -> "help shown"
                   [] opts.mode = "Version" -> "version shown"
                   [] opts.mode = "Send" -> "run sender"
                   [] opts.mode = "Receive" -> "run receiver"
                   [] opts.mode = "Unset" -> "help shown, 2"
    /\ UNCHANGED <<args, pos, opts>>

CliInit ==
    /\ args \in UNION {[1..n -> Argument] : n \in 0..MaxArgs}
    /\ pos = 1
    /\ opts = Defaults
    /\ status = "start"

CliNext ==
    \/ NoArguments \/ Subcommand \/ UnknownSubcommand \/ NoSubcommand
    \/ ModeFlag \/ Switch \/ Color \/ Value \/ Port \/ NoValue \/ Positional \/ UnknownOption
    \/ Scanned \/ Dispatch

-----------------------------------------------------------------------------
(* What a command line means, without a scan. *)

First == IF args # <<>> /\ args[1] \in DOMAIN Commands THEN 2 ELSE 1

\* Is argument i the value of the one before it?
IsValue[i \in 0..MaxArgs] ==
    i > First /\ ~IsValue[i - 1] /\ args[i - 1] \in DOMAIN ValueFlags \cup {"--port"}

\* The arguments from a set, that are no values.
Where(set) == {i \in First..Len(args) : args[i] \in set /\ ~IsValue[i]}

\* The k-th of them.
Nth(places, k) == CHOOSE i \in {j \in places : Cardinality({l \in places : l <= j}) = k} : TRUE

\* The one that counts of several.
LastOf(set, Of(_), default) == IF Where(set) = {} THEN default ELSE Of(Max(Where(set)))

\* The port that a number names; a number that is no int names none.
NoPort == 0
PortNamed(long) == IF long.hi = 0 THEN long.lo ELSE NoPort

\* Color is forced when the last of the options about it is --color=always.
AnyColor == DOMAIN Colors \cup {"--color=auto"}
ColorForced == \E i \in Where({"--color=always"}) : \A j \in Where(AnyColor) : j <= i

Meaning ==
    [[f \in DOMAIN Defaults |-> Where({t \in DOMAIN Switches : Switches[t] = f}) # {}] EXCEPT
        !.mode = LastOf(DOMAIN ModeFlags, LAMBDA i : ModeFlags[args[i]],
                        IF First = 2 THEN Commands[args[1]] ELSE "Unset"),
        !.force_color = ColorForced,
        !.port = LastOf({"--port"}, LAMBDA i : PortNamed(Number(args[i + 1])), 9876),
        !.host = LastOf({"--host"}, LAMBDA i : args[i + 1], Empty),
        !.output_dir = LastOf({"--output"}, LAMBDA i : args[i + 1], Empty),
        !.paths = [k \in 1..Cardinality(Where(Plain)) |-> args[Nth(Where(Plain), k)]]]

\* The mode in front of argument i.
ModeAt(i) ==
    LET flags == {j \in Where(DOMAIN ModeFlags) : j < i}
    IN  IF flags # {} THEN ModeFlags[args[Max(flags)]]
        ELSE IF First = 2 THEN Commands[args[1]] ELSE "Unset"

-----------------------------------------------------------------------------
(* Where the scan reads a command line otherwise. *)

\* The subcommand stands behind an option: cli.cpp:4-6 and 111 say that the
\* first token that does not begin with '-' is the subcommand, Parse tests the
\* first token only.
Late ==
    /\ First = 1
    /\ \E i \in Where(Plain) : args[i] \in DOMAIN Commands /\ \A j \in Where(Plain) : i <= j

\* The number that counts as the port is no int, and was cut to one.
CutPort ==
    Where({"--port"}) # {} /\ Number(args[Max(Where({"--port"})) + 1]).hi # 0

\* The last option about color is --color=auto, which takes nothing back.
AutoIgnored ==
    /\ Where({"--color=always"}) # {}
    /\ \E i \in Where({"--color=auto"}) : \A j \in Where(AnyColor) : j <= i

Misread == (IF CutPort THEN {"port"} ELSE {}) \cup (IF AutoIgnored THEN {"force_color"} ELSE {})

-----------------------------------------------------------------------------
(* What is wrong with a command line. *)

BadFirst == args = <<>> \/ args[1] \in Plain \ DOMAIN Commands

\* A word that is no option, and no path either. With a late subcommand that
\* word is the subcommand, or may be a path of it.
BadWord ==
    \E i \in Where(Argument \ Options) :
        args[i] \notin Plain \/ (ModeAt(i) # "Send" /\ ~Late)

BadValue ==
    \E i \in Where(DOMAIN ValueFlags \cup {"--port"}) :
        i = Len(args) \/ (args[i] = "--port" /\ Number(args[i + 1]) = NoNumber)

Faulty ==
    \/ BadFirst \/ BadWord \/ BadValue
    \/ Meaning.mode = "Send" /\ Meaning.paths = <<>>
    \/ Meaning.port \notin Ports

-----------------------------------------------------------------------------
(* Properties. *)

Accepted == status \notin {"start", "scan", "rejected"}

\* What Parse accepts, it has understood: each option means the same at every
\* place, the last of several counts, a value is never read as an option nor an
\* option's value as a path, and the paths keep their order.  Two fields are
\* misread: a port cut to an int, and --color=auto behind --color=always.
ParseIsMeaning == Accepted => \A f \in DOMAIN Defaults \ Misread : opts[f] = Meaning[f]

\* Parse rejects what has a fault: options that are fine by themselves are fine
\* in every order, but for paths, which need "send" to be the mode by then.  It
\* also rejects what has its subcommand behind an option, and accepts one fault,
\* a port cut to an int that is a port.
RejectsExactlyFaults ==
    /\ status = "rejected" => Faulty \/ Late
    /\ Accepted => ~Late /\ (Faulty => CutPort)

\* What cli.cpp:196 says of the port: it "must be in 1..65535".  So a session
\* runs only for a command line whose port is.
PortInRange == status \in {"run sender", "run receiver"} => Meaning.port \in Ports
=============================================================================
