------------------------------ MODULE Manifest ------------------------------
(***************************************************************************)
(* From the paths a user names to the files a receiver creates: the walk   *)
(* of CollectFiles, the relative paths it records, the way back from a     *)
(* record to a file on disk (ResolveOnDisk), and where the receiver puts   *)
(* it (ValidateAndJoin).  Files do not change meanwhile: module Sender     *)
(* models what happens when they do.                                       *)
(*                                                                         *)
(* A path is the sequence of its components.  As in std::filesystem, a     *)
(* trailing '/' is a last component "", and an absolute path begins with   *)
(* "/".  A tree maps the canonical place of every file, directory and      *)
(* symbolic link to what is there.                                         *)
(***************************************************************************)
EXTENDS Integers, FiniteSets, Sequences, SequencesExt

CONSTANTS
    Names,     \* what files and directories can be called
    Trees,     \* the source trees a call may find
    Calls,     \* the calls: paths, recursive, follow_symlinks, strip_prefix
    MaxLinks,  \* how many links the system follows in one path
    Cwd,       \* the directory relative paths start from
    Out        \* the canonical place of the receiver's output directory

NoPath == <<>>
Nowhere == <<"nowhere">>

Special == {"", ".", "..", "/"}
Path == Seq(Names \cup Special)
Places == Seq(Names)

\* A file system: every place but the root is in a directory, and links point
\* to no further link.
WellFormed(t) ==
    /\ \A at \in DOMAIN t :
          /\ at \in Places
          /\ t[at] \in [kind : {"file", "dir", "link"}, size : Nat, to : Places]
          /\ at # <<>> => Front(at) \in DOMAIN t /\ t[Front(at)].kind = "dir"
          /\ t[at].kind = "link" /\ t[at].to \in DOMAIN t => t[t[at].to].kind # "link"
    /\ \A at \in {<<>>, Cwd} : at \in DOMAIN t /\ t[at].kind = "dir"
    /\ Nowhere \notin DOMAIN t

ASSUME ManifestAssumption ==
    /\ Names \cap Special = {} /\ MaxLinks \in Nat
    /\ Cwd \in Places /\ Out \in Places
    /\ \A t \in Trees : WellFormed(t)
    /\ \A c \in Calls :
          /\ c \in [paths : Seq(Path), recursive : BOOLEAN, follow_symlinks : BOOLEAN, strip_prefix : Path]
          /\ \A i \in 1 .. Len(c.paths) : c.paths[i] # NoPath

VARIABLES
    tree,      \* canonical place -> [kind, size, to]
    call,      \* the arguments of SendPaths
    pc,        \* "collect", "hash", "place", "done", "nothing", "failed"
    arg,       \* the loop variable over call.paths
    found,     \* CollectFiles's `out`; src is a history field: the file meant
    manifest,  \* the entries that survive sort and unique
    made       \* entries the receiver wrote, and the places that made

vars == <<tree, call, pc, arg, found, manifest, made>>

-----------------------------------------------------------------------------
(* The file system. *)

Kind(at) == IF at \in DOMAIN tree THEN tree[at].kind ELSE "none"

\* The place one more component leads to.
Enter(at, name) ==
    IF name = "/" THEN <<>>
    ELSE IF Kind(at) # "dir" THEN Nowhere
    ELSE IF name \in {".", ""} THEN at
    ELSE IF name = ".." THEN (IF at = <<>> THEN at ELSE Front(at))
    ELSE IF Kind(Append(at, name)) = "link" THEN tree[Append(at, name)].to
    ELSE Append(at, name)

Walk(from, path) ==
    LET at[n \in 0 .. Len(path)] == IF n = 0 THEN from ELSE Enter(at[n - 1], path[n])
    IN at[Len(path)]

\* Where the kernel ends up for a path, and fs::canonical of it.
Canonical(path) == Walk(Cwd, path)

Is(path, kind) == Kind(Canonical(path)) = kind
FileSize(path) == tree[Canonical(path)].size

Strict(dir, at) == Len(dir) < Len(at) /\ IsPrefix(dir, at)
Under(dir) == {SubSeq(at, Len(dir) + 1, Len(at)) : at \in {x \in DOMAIN tree : Strict(dir, x)}}

Directories(path, ways) == {s \in ways : Is(path \o s, "dir")}
Behind(path, s) == {s \o t : t \in Under(Canonical(path \o s))}

\* The ways from `path` down to what lies below it: through directories, and
\* when links are followed through as many links as the system follows.
Ways(path, follow) ==
    LET links == IF follow THEN MaxLinks ELSE 0
        through[n \in 0 .. links] ==
            IF n = 0 THEN Under(Canonical(path))
            ELSE through[n - 1] \cup UNION {Behind(path, s) : s \in Directories(path, through[n - 1])}
    IN through[links]

\* What a recursive_directory_iterator over `path` visits.
Visited(path, follow) == {path \o s : s \in Ways(path, follow)}

ParentPath(path) == IF Len(path) <= 1 THEN NoPath ELSE Front(path)

\* lexically_relative of two canonical paths.
LexicallyRelative(at, base) ==
    LET n == Len(LongestCommonPrefix({at, base}))
        rel == [i \in 1 .. Len(base) - n |-> ".."] \o SubSeq(at, n + 1, Len(at))
    IN IF rel = <<>> THEN <<".">> ELSE rel

-----------------------------------------------------------------------------
(* CollectFiles. *)

\* Mutant: the directories of a path are dropped.
FlatRelPath(path, prefix) == <<Last(path)>>

MakeRelPath(path, prefix) ==
    IF prefix # NoPath /\ ~Is(prefix, "none")
    THEN LexicallyRelative(Canonical(path), Canonical(prefix))
    ELSE <<Last(path)>>

EntryOf(path, prefix) ==
    [rel |-> MakeRelPath(path, prefix), size |-> FileSize(path), src |-> Canonical(path)]

Prefix(default) == IF call.strip_prefix = NoPath THEN default ELSE call.strip_prefix

\* Mutant: the loop steps on twice.
SkipArg == arg' = arg + 2 /\ UNCHANGED <<tree, call, manifest, made>>

NextArg == arg' = arg + 1 /\ UNCHANGED <<tree, call, manifest, made>>

\* A named file.
CollectFile ==
    /\ pc = "collect" /\ arg <= Len(call.paths)
    /\ LET p == call.paths[arg]
       IN Is(p, "file") /\ found' = found \cup {EntryOf(p, Prefix(ParentPath(p)))}
    /\ NextArg /\ UNCHANGED pc

\* A named path that does not exist; the call sends nothing.
CollectMissing ==
    /\ pc = "collect" /\ arg <= Len(call.paths)
    /\ Is(call.paths[arg], "none")
    /\ pc' = "nothing"
    /\ found' = {}
    /\ NextArg

\* A directory without --recursive.
SkipDirectory ==
    /\ pc = "collect" /\ arg <= Len(call.paths)
    /\ Is(call.paths[arg], "dir") /\ ~call.recursive
    /\ NextArg /\ UNCHANGED <<pc, found>>

\* A directory with --recursive; is_regular_file follows links.
WalkDirectory ==
    /\ pc = "collect" /\ arg <= Len(call.paths)
    /\ Is(call.paths[arg], "dir") /\ call.recursive
    /\ LET p == call.paths[arg]
           files == {path \in Visited(p, call.follow_symlinks) : Is(path, "file")}
       IN found' = found \cup {EntryOf(path, Prefix(p)) : path \in files}
    /\ NextArg /\ UNCHANGED pc

\* Mutant: the call of unique is missing.
NoUnique(entries) == {entries}

\* std::sort is not stable: which of several entries with one path unique
\* keeps is open.
Distinct(entries) ==
    {m \in SUBSET entries :
        /\ {e.rel : e \in m} = {e.rel : e \in entries}
        /\ \A e, f \in m : e.rel = f.rel => e = f}

SortUnique ==
    /\ pc = "collect" /\ arg > Len(call.paths)
    /\ manifest' \in Distinct(found)
    /\ pc' = IF found = {} THEN "nothing" ELSE "hash"
    /\ UNCHANGED <<tree, call, arg, found, made>>

-----------------------------------------------------------------------------
(* From a record back to a file. *)

Match(e, i) ==
    LET candidate == ParentPath(call.paths[i]) \o e.rel
    IN Is(candidate, "file") /\ FileSize(candidate) = e.size

Hits(e) == {i \in 1 .. Len(call.paths) : Match(e, i)}

\* Mutant: a record is always looked up beside the path that was named.
ResolveBeside(e) == Canonical(ParentPath(call.paths[1]) \o e.rel)

\* The canonical place of what ResolveOnDisk returns, Nowhere when it fails.
ResolveOnDisk(e) ==
    LET paths == call.paths
    IN IF Len(paths) = 1 /\ Is(paths[1], "dir") THEN Canonical(paths[1] \o e.rel)
       ELSE IF Len(paths) = 1 /\ Is(paths[1], "file") THEN Canonical(paths[1])
       ELSE IF Hits(e) = {} THEN Nowhere
       ELSE Canonical(ParentPath(paths[CHOOSE i \in Hits(e) : \A j \in Hits(e) : i <= j]) \o e.rel)

-----------------------------------------------------------------------------
(* Sending and receiving. *)

\* The checksum pass opens every file before anything is sent.
HashFiles ==
    /\ pc = "hash"
    /\ pc' = IF \A e \in manifest : Kind(ResolveOnDisk(e)) = "file" THEN "place" ELSE "failed"
    /\ UNCHANGED <<tree, call, arg, found, manifest, made>>

\* Mutants: paths are not validated; directories are not accepted.
AnyPath(rel) == TRUE
OnlyNames(rel) == Len(rel) = 1

\* ValidateAndJoin returns true.
Valid(rel) == \A i \in 1 .. Len(rel) : rel[i] \notin {"..", "/", "\\"}

\* The place output_dir / rel names; there are no links below output_dir.
Below(at, name) ==
    IF name \in {".", ""} THEN at ELSE IF name = ".." THEN Front(at) ELSE Append(at, name)
Target(rel) ==
    LET at[n \in 0 .. Len(rel)] == IF n = 0 THEN Out ELSE Below(at[n - 1], rel[n])
    IN at[Len(rel)]

Ancestors(at) == {SubSeq(at, 1, n) : n \in 0 .. Len(at) - 1}

\* create_directories and the opening of the file succeed.
CanCreate(at) == at \notin made.dirs /\ Ancestors(at) \cap made.files = {}

Accepted(e) == Valid(e.rel) /\ CanCreate(Target(e.rel))

Place ==
    /\ pc = "place"
    /\ \E e \in manifest \ made.entries :
          /\ Accepted(e)
          /\ made' = [entries |-> made.entries \cup {e},
                      files |-> made.files \cup {Target(e.rel)},
                      dirs |-> made.dirs \cup Ancestors(Target(e.rel))]
    /\ UNCHANGED <<tree, call, pc, arg, found, manifest>>

PlaceFails ==
    /\ pc = "place"
    /\ \E e \in manifest \ made.entries : ~Accepted(e)
    /\ pc' = "failed"
    /\ UNCHANGED <<tree, call, arg, found, manifest, made>>

PlaceDone ==
    /\ pc = "place"
    /\ made.entries = manifest
    /\ pc' = "done"
    /\ UNCHANGED <<tree, call, arg, found, manifest, made>>

Init ==
    /\ tree \in Trees
    /\ call \in Calls
    /\ pc = "collect"
    /\ arg = 1
    /\ found = {}
    /\ manifest = {}
    /\ made = [entries |-> {}, files |-> {}, dirs |-> Ancestors(Out) \cup {Out}]

Next ==
    \/ CollectFile \/ CollectMissing \/ SkipDirectory \/ WalkDirectory \/ SortUnique
    \/ HashFiles \/ Place \/ PlaceFails \/ PlaceDone

Spec == Init /\ [][Next]_vars

-----------------------------------------------------------------------------
(* Properties. *)

TypeOK ==
    /\ tree \in Trees /\ call \in Calls
    /\ pc \in {"collect", "hash", "place", "done", "nothing", "failed"}
    /\ arg \in 1 .. Len(call.paths) + 1
    /\ manifest \subseteq found
    /\ made.entries \subseteq manifest

Collected == pc \in {"hash", "place", "done", "failed"}
OneSource == Len(call.paths) = 1 /\ call.strip_prefix = NoPath

\* With one source, ResolveOnDisk finds for every record the very file the
\* record was made from, whatever links are in the tree or in the path given.
OneSourceResolves ==
    Collected /\ OneSource => \A e \in manifest : ResolveOnDisk(e) = e.src

\* Every regular file below a directory that is sent recursively is sent, and
\* sent once, however often links lead to it and though the sort is unstable.
EachFileOnce ==
    Collected /\ OneSource /\ Is(call.paths[1], "dir") =>
        \A at \in DOMAIN tree :
            Kind(at) = "file" /\ Strict(Canonical(call.paths[1]), at) =>
                Cardinality({e \in manifest : e.src = at}) = 1

\* One source from which no link leads out always arrives: no record is
\* rejected, and no file is needed where a directory is.
Source == IF Is(call.paths[1], "dir") THEN call.paths[1] ELSE ParentPath(call.paths[1])
ClosedSourceArrives ==
    pc = "failed" /\ OneSource => \E e \in found : ~Strict(Canonical(Source), e.src)

\* No two records of one call, of one source or of several, land on the same
\* file: a delivered file is never overwritten by a later one.
NoOverwrite == Cardinality(made.files) = Cardinality(made.entries)

\* Every file the receiver makes is below its output directory, also when the
\* sender recorded a path that leads out of the source.
BelowOutput == \A at \in made.files : Strict(Out, at)

\* What sender.cpp:165-166 says of ResolveOnDisk: it works for "multi-source inputs".
SourcesResolve == pc = "hash" => \A e \in manifest : ResolveOnDisk(e) # Nowhere
=============================================================================
