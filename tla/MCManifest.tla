------------------------------ MODULE MCManifest ------------------------------
(***************************************************************************)
(* Instances of Manifest for TLC.  The working directory is /w; it holds   *)
(* two directories with a file of the same name, and links.                *)
(***************************************************************************)
EXTENDS Manifest

F(n) == [kind |-> "file", size |-> n, to |-> <<>>]
D == [kind |-> "dir", size |-> 0, to |-> <<>>]
L(to) == [kind |-> "link", size |-> 0, to |-> to]

MCNames == {"w", "d", "e", "f", "g", "k", "l", "s", "x", "gone", "out", "o"}
MCCwd == <<"w">>
MCOut == <<"out", "o">>

\* /w/d has the files f and s/f, /w/e has f and g.
Base(link1, link2) ==
    (<<>> :> D) @@ (<<"w">> :> D) @@ (<<"w", "x">> :> F(3))
      @@ (<<"w", "d">> :> D) @@ (<<"w", "d", "f">> :> F(1))
      @@ (<<"w", "d", "s">> :> D) @@ (<<"w", "d", "s", "f">> :> F(2))
      @@ (<<"w", "d", "d">> :> D) @@ (<<"w", "d", "d", "f">> :> F(1))
      @@ (<<"w", "e">> :> D) @@ (<<"w", "e", "f">> :> F(1)) @@ (<<"w", "e", "g">> :> F(2))
      @@ link1 @@ link2

NoLink == <<"w", "x">> :> F(3)
Links == {NoLink, <<"w", "d", "l">> :> L(<<"w", "d", "s", "f">>), <<"w", "d", "l">> :> L(<<"w", "d", "s">>),
          <<"w", "d", "l">> :> L(<<"w", "d">>), <<"w", "d", "l">> :> L(<<"w", "gone">>)}
OutLinks == {<<"w", "d", "l">> :> L(<<"w", "e">>), <<"w", "d", "l">> :> L(<<"w", "e", "g">>)}

MCTrees == {Base(l, <<"w", "k">> :> L(at)) : l \in Links \cup OutLinks, at \in {<<"w", "d">>, <<"w", "x">>, <<"w", "e", "g">>}}
PlainTrees == {Base(NoLink, NoLink)}

Call(paths, recursive, follow, strip) ==
    [paths |-> paths, recursive |-> recursive, follow_symlinks |-> follow, strip_prefix |-> strip]

\* Directories given plainly, with a trailing '/', as '.', through '..' or a
\* link, and by an absolute path; single files.
OneSourceCalls ==
    {Call(<<p>>, TRUE, follow, NoPath) : follow \in BOOLEAN,
        p \in {<<"d">>, <<"d", "">>, <<".">>, <<"d", "..", "d">>, <<"k">>, <<"/", "w", "d">>,
               <<"x">>, <<"d", "f">>, <<"d", "l">>}}
      \cup {Call(<<<<"d">>>>, FALSE, FALSE, NoPath), Call(<<<<"gone">>>>, TRUE, FALSE, NoPath)}

\* Several sources, with same names, and a file where a directory is needed.
SeveralCalls ==
    {Call(<<<<"d", "">>, <<"e", "">>>>, TRUE, FALSE, NoPath), Call(<<<<"d", "f">>, <<"e", "f">>>>, FALSE, FALSE, NoPath),
     Call(<<<<"d", "f">>, <<"x">>, <<"d", "f">>>>, FALSE, FALSE, NoPath),
     Call(<<<<"x">>, <<"e", "">>>>, TRUE, TRUE, NoPath), Call(<<<<"x">>, <<"gone">>>>, TRUE, TRUE, NoPath)}

MultiSource == {Call(<<<<"d">>, <<"e">>>>, TRUE, FALSE, NoPath)}
Stripped == {Call(<<<<"d">>>>, TRUE, FALSE, <<".">>)}
AllCalls == OneSourceCalls \cup SeveralCalls \cup MultiSource \cup Stripped
=============================================================================
