----------------------------- MODULE MCTerminal -----------------------------
(* Instances of Terminal for TLC. *)
EXTENDS Terminal

Arguments ==
    {"send", "recv", "help", "file", "9000", "4294977172", "--help", "--verbose", "--no-progress",
     "--color=auto", "--color=always", "--color=odd", "--host", "--port"}
PlainArguments == {"send", "recv", "help", "file", "9000", "4294977172"}

\* 4294977172 is 2^32 + 9876.
NumberOf(arg) ==
    CASE arg = "9000" -> [hi |-> 0, lo |-> 9000]
      [] arg = "4294977172" -> [hi |-> 1, lo |-> 9876]
      [] OTHER -> NoNumber

\* Files of several blocks, empty files.
Plans == {<<>>, <<3, 0>>, <<0, 2>>, <<5, 1>>}
=============================================================================
