------------------------------- MODULE Sender -------------------------------
(***************************************************************************)
(* transfer/sender.cpp: SendPaths and SendFiles, one action per step that  *)
(* another process, the network or a writer of the source files can be     *)
(* interleaved with.  The process ends when the call returns: RunSend      *)
(* turns the result into an exit code and its Socket is destroyed.         *)
(***************************************************************************)
EXTENDS Wire, FiniteSets, SequencesExt

CONSTANTS
    Dir,       \* directories of the sender's disk that hold source files
    NoDir,     \* "no directory argument"
    MaxSize,   \* BOUND: the largest file, in blocks
    TooLong,   \* paths longer than 0xFFFF bytes
    Options    \* the calls to examine, see Option

\* What a file can hold.
Content == UNION {[1..n -> Block] : n \in 0..MaxSize}

\* An on-disk source file is the path `name` under the directory `dir`.
File == Dir \X Path
NoFile == <<>>

\* The arguments of one call.  `dir` is the single directory argument of
\* SendPaths/SendFiles, or NoDir when the arguments are the named files
\* `files`.  `manifest` is the caller's manifest of SendFiles.  `apple` tells
\* which of SendFromFd's platforms the sender was built for: on macOS the end
\* of a file is not seen.
Option ==
    [api : {"SendPaths", "SendFiles"}, dir : Dir \cup {NoDir}, files : Seq(File),
     recursive : BOOLEAN, manifest : Seq(Entry), zero_copy : BOOLEAN,
     apple : BOOLEAN, verify_crc : BOOLEAN]

\* The empty rel_path names the directory itself under a directory argument;
\* only records of named files use it here.
ASSUME SenderAssumption ==
    /\ IsFiniteSet(Path)
    /\ NoDir \notin Dir
    /\ Missing \notin Content
    /\ MaxSize \in Nat
    /\ \A s \in Content : Crc(s) \in Nat
    /\ TooLong \subseteq Path
    /\ Options \subseteq Option
    /\ \A o \in Options : o.dir # NoDir =>
          \A k \in DOMAIN o.manifest : o.manifest[k].path # EmptyPath

VARIABLES
    opts,      \* the call's arguments
    src,       \* the source files: content or Missing
    spc,       \* where the sender is
    manifest,  \* the vector of FileEntry
    si,        \* the manifest index the current loop is at
    sfile,     \* the file the current fd is open on, or NoFile
    sread,     \* blocks read from it by CrcOfFd
    soff       \* blocks of it sent by SendFileBytes

senderVars == <<spc, manifest, si, sfile, sread, soff>>

SenderEnded == {"ok", "failed", "killed"}

\* Mutant: the socket outlives the call.
LeakSocket(result) ==
    /\ spc' = result
    /\ sfile' = NoFile
    /\ UNCHANGED <<open, reset>>

\* The call returns `result` ("killed": SIGPIPE took the process instead).
ReturnSender(result) ==
    /\ spc' = result
    /\ sfile' = NoFile
    /\ Close("sender")

\* `return false`.
FailSender == ReturnSender("failed")

-----------------------------------------------------------------------------
(* CollectFiles and ResolveOnDisk. *)

Exists(f) == f \in File /\ src[f] # Missing

Scan(f) == [path |-> f[2], size |-> Len(src[f]), crc |-> 0]

\* The entries found before sorting.  A named file's rel_path is its name
\* under its own directory, so two named files can share one.
Listed ==
    IF opts.dir = NoDir
    THEN {Scan(f) : f \in {opts.files[k] : k \in DOMAIN opts.files}}
    ELSE {Scan(f) : f \in {g \in File : opts.recursive /\ g[1] = opts.dir /\ Exists(g)}}

\* Mutant: the result of std::unique is never erased from the vector.
NoErase(m, found) ==
    /\ Len(m) = Cardinality(found)
    /\ \A e \in found : \E k \in DOMAIN m : m[k] = e
    /\ \A k \in 1..(Len(m) - 1) : m[k].path <= m[k + 1].path

\* Sorted by rel_path, and one entry per rel_path.  std::sort is unstable:
\* any of the entries with the same path may be the one that is kept.
SortedUnique(m, found) ==
    /\ \A e \in found : \E k \in DOMAIN m : m[k].path = e.path
    /\ \A j, k \in DOMAIN m : j < k => m[j].path < m[k].path

\* Mutant: the first file of that name is taken, whatever its size.
ResolveByName(e) ==
    LET Candidate(k) == <<opts.files[k][1], e.path>>
        Fits == {k \in DOMAIN opts.files : Exists(Candidate(k))}
    IN  IF opts.dir # NoDir THEN <<opts.dir, e.path>>
        ELSE IF Fits = {} THEN NoFile
        ELSE Candidate(CHOOSE k \in Fits : \A j \in Fits : k <= j)

\* The on-disk file that entry e is read from, NoFile for "not found".
ResolveOnDisk(e) ==
    LET Candidate(k) == <<opts.files[k][1], e.path>>
        Fits == {k \in DOMAIN opts.files : /\ Exists(Candidate(k))
                                           /\ Len(src[Candidate(k)]) = e.size}
    IN  IF opts.dir # NoDir THEN <<opts.dir, e.path>>
        ELSE IF Len(opts.files) = 1 /\ Exists(opts.files[1]) THEN opts.files[1]
        ELSE IF Fits = {} THEN NoFile
        ELSE Candidate(CHOOSE k \in Fits : \A j \in Fits : k <= j)

\* OpenForRead, then the work on the descriptor goes on at `next`.
OpenSource(e, next) ==
    LET f == ResolveOnDisk(e) IN
    IF Exists(f)
    THEN /\ spc' = next
         /\ sfile' = f
         /\ UNCHANGED <<open, reset>>
    ELSE FailSender

-----------------------------------------------------------------------------
(* SendPaths lines 255-259, SendFiles lines 329-332: the manifest. *)

\* Nothing to send is success: `manifest.empty()` is tested, ec is not.
BeginHashing(m) ==
    /\ manifest' = m
    /\ IF m = <<>>
       THEN ReturnSender("ok") /\ UNCHANGED si
       ELSE spc' = "hash" /\ si' = 1 /\ UNCHANGED <<sfile, open, reset>>

Collect ==
    /\ spc = "collect"
    /\ opts.api = "SendPaths"
    /\ IF \E k \in DOMAIN opts.files : ~Exists(opts.files[k])
       THEN BeginHashing(<<>>)
       ELSE \E n \in 0..Cardinality(Listed) : \E m \in [1..n -> Listed] :
               SortedUnique(m, Listed) /\ BeginHashing(m)
    /\ UNCHANGED <<wire, rd, ack, sread, soff>>

TakeManifest ==
    /\ spc = "collect"
    /\ opts.api = "SendFiles"
    /\ BeginHashing(opts.manifest)
    /\ UNCHANGED <<wire, rd, ack, sread, soff>>

-----------------------------------------------------------------------------
(* The CRC pass: SendPaths 262-270, SendFiles 333-343. *)

NextHash ==
    IF si = Len(manifest)
    THEN spc' = "hello" /\ UNCHANGED si
    ELSE spc' = "hash" /\ si' = si + 1

\* SendFiles only fills in missing CRC-32 values.
HashKnown == opts.api = "SendFiles" /\ manifest[si].crc # 0

HashSkip ==
    /\ spc = "hash"
    /\ HashKnown
    /\ NextHash
    /\ UNCHANGED <<net, manifest, sfile, sread, soff>>

HashOpen ==
    /\ spc = "hash"
    /\ ~HashKnown
    /\ OpenSource(manifest[si], "hashing")
    /\ sread' = <<>>
    /\ UNCHANGED <<wire, rd, ack, manifest, si, soff>>

\* CrcOfFd has something left to read.
HashMore == Len(sread) < manifest[si].size /\ Len(sread) < Len(src[sfile])

HashBlock ==
    /\ spc = "hashing"
    /\ HashMore
    /\ sread' = Append(sread, src[sfile][Len(sread) + 1])
    /\ UNCHANGED <<net, spc, manifest, si, sfile, soff>>

\* A file shorter than its declared size is not an error here.
HashClose ==
    /\ spc = "hashing"
    /\ ~HashMore
    /\ manifest' = [manifest EXCEPT ![si].crc = Crc(sread)]
    /\ NextHash
    /\ sfile' = NoFile
    /\ sread' = <<>>
    /\ UNCHANGED <<net, soff>>

-----------------------------------------------------------------------------
(* The session: SendPaths 281-309, SendFiles 352-373. *)

\* Mutant: records are pushed without waiting for the Ack.
EagerSender ==
    /\ spc = "hello"
    /\ SendAll(Hdr(Len(manifest)))
    /\ spc' = "record"
    /\ si' = 1
    /\ UNCHANGED <<rd, ack, open, reset, manifest, sfile, sread, soff>>

SendHeader ==
    /\ spc = "hello"
    /\ SendAll(Hdr(Len(manifest)))
    /\ spc' = "await_ack"
    /\ UNCHANGED <<rd, ack, open, reset, manifest, si, sfile, sread, soff>>

ReadAck ==
    /\ spc = "await_ack"
    /\ ack = "sent"
    /\ ack' = "read"
    /\ spc' = "record"
    /\ si' = 1
    /\ UNCHANGED <<wire, rd, open, reset, manifest, sfile, sread, soff>>

ReadAckFails ==
    /\ spc = "await_ack"
    /\ AckBroken
    /\ FailSender
    /\ UNCHANGED <<wire, rd, ack, manifest, si, sread, soff>>

\* WriteFileHeader.
SendRecord ==
    /\ spc = "record"
    /\ manifest[si].path \notin TooLong
    /\ SendAll(Rec(si, manifest[si]))
    /\ spc' = "open"
    /\ UNCHANGED <<rd, ack, open, reset, manifest, si, sfile, sread, soff>>

RefuseLongPath ==
    /\ spc = "record"
    /\ manifest[si].path \in TooLong
    /\ FailSender
    /\ UNCHANGED <<wire, rd, ack, manifest, si, sread, soff>>

OpenPayload ==
    /\ spc = "open"
    /\ OpenSource(manifest[si], "payload")
    /\ soff' = 0
    /\ UNCHANGED <<wire, rd, ack, manifest, si, sread>>

\* SendFileBytes can read another block.
PayloadMore == soff < manifest[si].size /\ soff < Len(src[sfile])

SendBlock ==
    /\ spc = "payload"
    /\ PayloadMore
    /\ SendAll(Data(si, soff + 1, src[sfile][soff + 1]))
    /\ soff' = soff + 1
    /\ UNCHANGED <<rd, ack, open, reset, spc, manifest, si, sfile, sread>>

NextRecord ==
    /\ sfile' = NoFile
    /\ soff' = 0
    /\ IF si = Len(manifest)
       THEN spc' = "done" /\ UNCHANGED si
       ELSE spc' = "record" /\ si' = si + 1

ClosePayload ==
    /\ spc = "payload"
    /\ soff = manifest[si].size
    /\ NextRecord
    /\ UNCHANGED <<net, manifest, sread>>

\* The file ended before entry.size bytes were sent.
Short == spc = "payload" /\ soff < manifest[si].size /\ ~PayloadMore

\* On macOS sendfile then returns 0 and says that it sent nothing; SendFromFd
\* takes that for progress and asks again, for ever.
Spins == Short /\ opts.apple /\ opts.zero_copy

\* Mutant: a short file ends its loop like a complete one.
IgnoreShortFile ==
    /\ Short
    /\ ~Spins
    /\ NextRecord
    /\ UNCHANGED <<net, manifest, sread>>

\* Elsewhere the end of the file fails the call: sendfile and pread return 0.
ShortFile ==
    /\ Short
    /\ ~Spins
    /\ FailSender
    /\ UNCHANGED <<wire, rd, ack, manifest, si, sread, soff>>

SendDone ==
    /\ spc = "done"
    /\ SendAll(DoneMark)
    /\ ReturnSender("ok")
    /\ UNCHANGED <<rd, ack, manifest, si, sread, soff>>

\* The sender is at a SendAll.
Sending ==
    \/ spc \in {"hello", "done"}
    \/ spc = "record" /\ manifest[si].path \notin TooLong
    \/ spc = "payload" /\ PayloadMore

\* Socket::Send passes no MSG_NOSIGNAL and main installs no handler: a send on
\* a broken connection either returns an error or raises SIGPIPE.  A sendfile
\* that has nothing to send finds out only when the connection was reset.
SendFails ==
    /\ (Sending /\ SendBroken("receiver")) \/ (Spins /\ reset)
    /\ FailSender \/ ReturnSender("killed")
    /\ UNCHANGED <<wire, rd, ack, manifest, si, sread, soff>>

-----------------------------------------------------------------------------
SenderStep ==
    \/ Collect \/ TakeManifest
    \/ HashSkip \/ HashOpen \/ HashBlock \/ HashClose
    \/ SendHeader \/ ReadAck \/ ReadAckFails
    \/ SendRecord \/ RefuseLongPath \/ OpenPayload
    \/ SendBlock \/ ClosePayload \/ ShortFile
    \/ SendDone \/ SendFails

SenderInit ==
    /\ spc = "collect"
    /\ manifest = <<>>
    /\ si = 1
    /\ sfile = NoFile
    /\ sread = <<>>
    /\ soff = 0

SenderTypeOK ==
    /\ opts \in Options
    /\ src \in [File -> Content \cup {Missing}]
    /\ spc \in {"collect", "hash", "hashing", "hello", "await_ack", "record",
                "open", "payload", "done"} \cup SenderEnded
    /\ manifest \in Seq(Entry)
    /\ spc \notin {"collect"} \cup SenderEnded => si \in 1..Len(manifest)
    /\ sfile \in File \cup {NoFile}
    /\ spc \in {"hashing", "payload"} => Exists(sfile)
    /\ sread \in Content
    /\ soff \in Nat
=============================================================================
