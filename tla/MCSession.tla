------------------------------ MODULE MCSession ------------------------------
(***************************************************************************)
(* Instances of Session for TLC.                                           *)
(***************************************************************************)
EXTENDS Session

CONSTANTS a, b, d1, d2, none, missing

MCBlock == {a, b}
MCDir == {d1, d2}

\* Tells the contents of up to two blocks apart, but for one whose CRC-32C
\* happens to be 0, the value that stands for "not verified".
MCCrc(s) ==
    IF s = <<b, b>> THEN 0
    ELSE FoldLeft(LAMBDA n, x : 3 * n + (IF x = a THEN 1 ELSE 2), 0, s)

E(p, n, c) == [path |-> p, size |-> n, crc |-> c]

Tree(f11, f12, f21, f22) ==
    [f \in File |->
        IF f = <<d1, 1>> THEN f11 ELSE IF f = <<d1, 2>> THEN f12
        ELSE IF f = <<d2, 1>> THEN f21 ELSE IF f = <<d2, 2>> THEN f22
        ELSE missing]

\* SendPaths on the directory d1.
Directory(rec, zc, ver) ==
    [api |-> "SendPaths", dir |-> d1, files |-> <<>>, recursive |-> rec,
     manifest |-> <<>>, zero_copy |-> zc, apple |-> FALSE, verify_crc |-> ver]

\* SendPaths on named files.
Named(fs, zc) ==
    [api |-> "SendPaths", dir |-> none, files |-> fs, recursive |-> FALSE,
     manifest |-> <<>>, zero_copy |-> zc, apple |-> FALSE, verify_crc |-> TRUE]

\* SendFiles of the manifest m from named files.
Prebuilt(fs, m, ver) ==
    [api |-> "SendFiles", dir |-> none, files |-> fs, recursive |-> FALSE,
     manifest |-> m, zero_copy |-> TRUE, apple |-> FALSE,
     verify_crc |-> ver]

\* The same call of a sender on macOS.
OnApple(o) == [o EXCEPT !.apple = TRUE]

MCTrees == {Tree(<<a, b>>, <<b>>, <<a>>, missing), Tree(<<b, b>>, <<>>, <<a, b>>, missing)}
MCStores == {[p \in Path |-> IF p = 1 THEN <<b>> ELSE missing]}
MCEdits == {missing, <<a>>, <<b, a>>}

\* A directory with and without --recursive, two files of the same name in two
\* directories.
PathOptions ==
    {Directory(TRUE, TRUE, TRUE), Directory(TRUE, FALSE, FALSE), Directory(FALSE, TRUE, TRUE),
     Named(<< <<d1, 1>>, <<d2, 1>> >>, FALSE)}

\* One of two named files does not exist.
MissingOption == {Named(<< <<d1, 2>>, <<d2, 2>> >>, TRUE)}

\* Manifests a caller may hand to SendFiles: none; a stale size and a wrong
\* checksum; records without a path, and with a path that is rejected.
ManifestOptions ==
    {Prebuilt(<< <<d1, 1>>, <<d2, 1>> >>, <<>>, TRUE),
     Prebuilt(<< <<d1, 1>> >>, <<E(1, 1, 0), E(2, 2, 9)>>, TRUE),
     Prebuilt(<< <<d1, 1>> >>, <<E(EmptyPath, 0, 0), E(2, 2, 9), E(1, 3, 0)>>, FALSE),
     Prebuilt(<< <<d1, 1>> >>, <<E(1, 2, 0), E(3, 1, 9)>>, FALSE)}

\* Manifests that are not well formed: a payload without a path, a path twice.
BadOptions ==
    {Prebuilt(<< <<d1, 1>> >>, <<E(EmptyPath, 1, 9), E(1, 2, 0)>>, TRUE),
     Prebuilt(<< <<d1, 1>> >>, <<E(1, 1, 0), E(1, 2, 0)>>, TRUE)}

\* On macOS, files that may become shorter, and a caller's stale size.
AppleOptions ==
    {OnApple(Directory(TRUE, TRUE, TRUE)),
     OnApple(Prebuilt(<< <<d1, 1>> >>, <<E(1, 1, 0), E(2, 3, 9)>>, TRUE))}

AllOptions == PathOptions \cup MissingOption \cup ManifestOptions \cup BadOptions \cup AppleOptions

FewOptions ==
    {Directory(TRUE, FALSE, TRUE), Named(<< <<d1, 1>>, <<d2, 1>> >>, TRUE),
     Prebuilt(<< <<d1, 1>> >>, <<E(EmptyPath, 0, 0), E(1, 1, 0), E(3, 1, 9)>>, TRUE)}

\* Calls that cannot fail by themselves.
GoodOptions ==
    {Directory(TRUE, TRUE, TRUE), Directory(TRUE, FALSE, FALSE),
     Named(<< <<d1, 1>>, <<d2, 1>> >>, FALSE), Named(<< <<d2, 1>>, <<d1, 1>> >>, TRUE),
     Named(<< <<d1, 1>>, <<d1, 2>> >>, TRUE),
     Prebuilt(<< <<d1, 1>> >>, <<E(EmptyPath, 0, 0), E(2, 2, 0)>>, TRUE)}
LiveOptions == FewOptions \cup GoodOptions \cup AppleOptions
=============================================================================
