------------------------------- MODULE Session -------------------------------
(***************************************************************************)
(* One xfer session: a sender and a receiver process joined by one TCP     *)
(* connection, the source files that others may edit meanwhile, and the    *)
(* failures either side can meet.                                          *)
(***************************************************************************)
EXTENDS Sender, Receiver

CONSTANTS
    Trees,     \* the source trees a session may find
    Stores,    \* the output directories a session may find
    Edits,     \* what an edit can leave in a source file
    MaxEdits   \* BOUND: edits of source files in one behaviour

ASSUME SessionAssumption ==
    /\ Trees \subseteq [File -> Content \cup {Missing}]
    /\ Stores \subseteq [Path -> Content \cup {Missing}]
    /\ Edits \subseteq Content \cup {Missing}
    /\ MaxEdits \in Nat

VARIABLE edits   \* edits made so far

world == <<opts, src, edits>>
vars == <<net, world, senderVars, verify, receiverVars, dst>>

Init ==
    /\ WireInit
    /\ opts \in Options
    /\ src \in Trees
    /\ SenderInit
    /\ verify = opts.verify_crc
    /\ ReceiverInit
    /\ dst \in Stores
    /\ edits = 0

-----------------------------------------------------------------------------
(* The two processes. *)

SenderNext == SenderStep /\ UNCHANGED <<world, verify, receiverVars, dst>>

ReceiverNext == ReceiverStep /\ UNCHANGED <<world, senderVars>>

-----------------------------------------------------------------------------
(* The environment. *)

NetReset ==
    /\ "reset" \in Faults
    /\ open # {}
    /\ ~reset
    /\ reset' = TRUE
    /\ UNCHANGED <<wire, rd, ack, open, world, senderVars, verify, receiverVars, dst>>

\* A process is killed; the kernel closes its socket.
CrashSender ==
    /\ "crash" \in Faults
    /\ "sender" \in open
    /\ ReturnSender("killed")
    /\ UNCHANGED <<wire, rd, ack, world, manifest, si, sread, soff,
                   verify, receiverVars, dst>>

CrashReceiver ==
    /\ "crash" \in Faults
    /\ "receiver" \in open
    /\ UNCHANGED <<wire, rd, ack, world, senderVars, verify,
                   total, ri, rentry, rgot, summary, dst>>
    /\ ReturnReceiver("killed")

\* Someone writes, creates or removes a source file.  Removing a file the
\* sender has open changes nothing for it, so that case is left out.
EditSource ==
    /\ "edit" \in Faults
    /\ edits < MaxEdits
    /\ "sender" \in open
    /\ \E f \in File, c \in Edits \ {Missing} : src' = [src EXCEPT ![f] = c]
    /\ edits' = edits + 1
    /\ UNCHANGED <<net, opts, senderVars, verify, receiverVars, dst>>

RemoveSource ==
    /\ "edit" \in Faults
    /\ edits < MaxEdits
    /\ "sender" \in open
    /\ Missing \in Edits
    /\ \E f \in File \ {sfile} : src' = [src EXCEPT ![f] = Missing]
    /\ edits' = edits + 1
    /\ UNCHANGED <<net, opts, senderVars, verify, receiverVars, dst>>

\* Both processes have ended.
Terminated == open = {} /\ UNCHANGED vars

Next ==
    \/ SenderNext
    \/ ReceiverNext
    \/ NetReset
    \/ CrashSender \/ CrashReceiver
    \/ EditSource \/ RemoveSource
    \/ Terminated

Spec == Init /\ [][Next]_vars

\* Each process is one thread the operating system keeps scheduling; nothing
\* is promised about the environment.
Fairness == WF_vars(SenderNext) /\ WF_vars(ReceiverNext)

FairSpec == Spec /\ Fairness

-----------------------------------------------------------------------------
(* Properties. *)

\* Type correctness of every variable, and that a process has ended exactly
\* when its socket is closed (RAII of the Socket in RunSend and RunReceive).
TypeOK ==
    /\ WireTypeOK
    /\ SenderTypeOK
    /\ ReceiverTypeOK
    /\ edits \in 0..MaxEdits
    /\ verify = opts.verify_crc
    /\ "sender" \in open <=> spc \notin SenderEnded
    /\ "receiver" \in open <=> rpc \notin ReceiverEnded

\* The caller's manifest gives no payload to a record without a path, and no
\* path to two records.  CollectFiles makes only such manifests (it leaves out
\* empty paths and erases duplicates); a caller of SendFiles may make others.
WellFormed ==
    opts.api = "SendFiles" =>
        \A k \in DOMAIN opts.manifest :
            opts.manifest[k].path = EmptyPath => opts.manifest[k].size = 0
DistinctPaths ==
    opts.api = "SendFiles" =>
        \A j, k \in DOMAIN opts.manifest :
            opts.manifest[j].path = opts.manifest[k].path => j = k

\* What may stand on the wire behind the last byte of entry i.
StartsNext(i, item) ==
    IF i = Len(manifest)
    THEN item = DoneMark
    ELSE item = Rec(i + 1, manifest[i + 1])

\* What may stand on the wire directly behind item a.
Follows(a, b) ==
    CASE a.kind = "HDR" -> b = Rec(1, manifest[1])
      [] a.kind = "FILE" ->
           IF a.entry.size = 0
           THEN StartsNext(a.at, b)
           ELSE b.kind = "DATA" /\ b.at = a.at /\ b.blk = 1
      [] a.kind = "DATA" ->
           IF a.blk = manifest[a.at].size
           THEN StartsNext(a.at, b)
           ELSE b.kind = "DATA" /\ b.at = a.at /\ b.blk = a.blk + 1
      [] OTHER -> FALSE

\* The sender only ever pushes a prefix of the stream its manifest describes
\* - header, then per entry one record and exactly entry.size blocks, then
\* DONE - whatever happens to the source files, and it reports success on a
\* non-empty stream only when all of it is pushed.
WireGrammar ==
    /\ wire # <<>> => wire[1] = Hdr(Len(manifest))
    /\ \A k \in 1..(Len(wire) - 1) : Follows(wire[k], wire[k + 1])
    /\ spc = "ok" /\ wire # <<>> => wire[Len(wire)] = DoneMark

\* The receiver never loses its place in the byte stream: what it asks for
\* next is what comes next.  No byte on the wire says so; the property
\* depends on both sides counting the same sizes.
InStep ==
    Arrived =>
        CASE rpc = "hello" -> Incoming = Hdr(Len(manifest))
          [] rpc = "record" -> Incoming = Rec(ri + 1, manifest[ri + 1])
          [] rpc = "payload" /\ Len(rgot) < rentry.size ->
                /\ Incoming.kind = "DATA"
                /\ Incoming.at = ri + 1
                /\ Incoming.blk = Len(rgot) + 1
          [] rpc = "trailer" -> Incoming = DoneMark
          [] OTHER -> TRUE
Framing == WellFormed => InStep

\* The sender pushes file records only after its header was validated on the
\* other side and the Ack came back.
AckGate == Len(wire) > 1 => rd >= 1 /\ ack = "read"

\* A counted file is on disk with the size its record declared, and if it was
\* verified and its record carries a checksum, with that checksum, for as long
\* as the process lives and after.  A second record of the same path would
\* undo this; that there is none is CollectFiles' sort and unique.
Integrity ==
    DistinctPaths => \A k \in DOMAIN summary :
        LET e == summary[k] IN
        /\ Len(dst[e.path]) = e.size
        /\ verify /\ e.crc # 0 => Crc(dst[e.path]) = e.crc

\* The entries up to n that have a path; what is counted are these, each once
\* and in order.
WithPath(n) == {k \in 1..n : manifest[k].path # EmptyPath}
SummaryCovers(n) ==
    /\ Len(summary) = Cardinality(WithPath(n))
    /\ \A k \in WithPath(n) : summary[Cardinality(WithPath(k))] = manifest[k]

\* The receiver reports success only after it has counted every entry of the
\* sender's manifest that has a path, in the sender's order.
SuccessIsComplete == rpc = "ok" => SummaryCovers(Len(manifest))

\* Once a file has been counted, no step of the session changes it again.
CountedFilesStay ==
    [][DistinctPaths => \A k \in DOMAIN summary : dst'[summary[k].path] = dst[summary[k].path]]_vars

\* Whatever fails, both processes end, each by itself or with the other, and
\* none waits for ever; but for a sender on macOS whose file became shorter,
\* which spins in SendFromFd, and the receiver that waits for it.
Termination == <>[](open = {} \/ Spins)

\* Nothing disturbs the session, and the call asks for nothing it must refuse.
Undisturbed ==
    /\ ~reset /\ edits = 0 /\ spc # "killed" /\ rpc # "killed"
    /\ \A k \in DOMAIN manifest : manifest[k].path \notin Unsafe \cup TooLong

\* When both processes have ended, nothing disturbed them and no disk failed,
\* both report success, and every file of the sender's manifest is in the
\* output directory as it is on the sender's disk.
Delivery ==
    open = {} /\ Undisturbed =>
        /\ spc = "ok" /\ rpc = "ok"
        /\ \A k \in DOMAIN manifest :
              manifest[k].path # EmptyPath =>
                 dst[manifest[k].path] = src[ResolveOnDisk(manifest[k])]

-----------------------------------------------------------------------------
(* Where both sides are in the stream: the inductive invariant behind      *)
(* WireGrammar, AckGate and Framing.                                       *)

\* Behind `item`, the record of entry i and n blocks of its payload are passed.
Passed(i, n, item) ==
    IF n = 0
    THEN item = Rec(i, manifest[i])
    ELSE item.kind = "DATA" /\ item.at = i /\ item.blk = n

\* Behind `item`, everything in front of entry i is passed.
Before(i, item) ==
    IF i = 1
    THEN item = Hdr(Len(manifest))
    ELSE Passed(i - 1, manifest[i - 1].size, item)

\* The stream so far is well formed.
Stream ==
    /\ wire # <<>> => manifest # <<>> /\ wire[1] = Hdr(Len(manifest))
    /\ \A k \in 1..(Len(wire) - 1) : Follows(wire[k], wire[k + 1])

\* The last item pushed tells where the sender is.
SenderPlace ==
    /\ spc \in {"collect", "hash", "hashing", "hello"} => wire = <<>>
    /\ spc \in {"await_ack", "record", "open", "payload", "done"} => wire # <<>>
    /\ spc = "await_ack" => Len(wire) = 1
    /\ spc = "record" => Before(si, wire[Len(wire)])
    /\ spc = "open" => Passed(si, 0, wire[Len(wire)])
    /\ spc = "payload" => soff <= manifest[si].size /\ Passed(si, soff, wire[Len(wire)])
    /\ spc = "done" => Before(Len(manifest) + 1, wire[Len(wire)])
    /\ spc = "ok" /\ wire # <<>> => wire[Len(wire)] = DoneMark

\* Header, Ack and records happen in that order.
AckOrder ==
    /\ rpc \notin {"hello"} \cup ReceiverEnded => rd >= 1
    /\ ack # "none" => rd >= 1 /\ rpc \notin {"hello", "ack"}
    /\ spc \in {"record", "open", "payload", "done"} \/ Len(wire) > 1 => ack = "read"

\* The last item taken tells where the receiver is.
ReceiverPlace ==
    /\ rpc = "hello" => rd = 0
    /\ rpc \in {"ack", "outdir"} => rd = 1
    /\ rpc \notin {"hello"} \cup ReceiverEnded => total = Len(manifest)
    /\ rpc \in {"create", "payload"} => rentry = manifest[ri + 1]
    /\ rpc \in {"record", "trailer"} => Before(ri + 1, wire[rd])
    /\ rpc = "trailer" => ri = total
    /\ rpc = "create" => Passed(ri + 1, 0, wire[rd])
    /\ rpc = "payload" => Len(rgot) <= rentry.size /\ Passed(ri + 1, Len(rgot), wire[rd])

\* No entry without a path has a payload.
PathlessIsEmpty == \A k \in DOMAIN manifest : manifest[k].path = EmptyPath => manifest[k].size = 0

\* Each side's control state and counters agree with the place in the stream
\* of the item it last pushed or took.
InPlace ==
    /\ Stream
    /\ SenderPlace
    /\ AckOrder
    /\ WellFormed => PathlessIsEmpty /\ ReceiverPlace

-----------------------------------------------------------------------------
(* What an undisturbed session has done so far: the inductive invariant    *)
(* behind Delivery.                                                        *)

\* Nothing has disturbed the session.
Calm == ~reset /\ edits = 0 /\ spc # "killed" /\ rpc # "killed"

\* Entry e can be sent: the file it is looked up as exists and is what e says.
Matches(e) ==
    LET f == ResolveOnDisk(e) IN
    /\ Exists(f)
    /\ e.path \notin Unsafe \cup TooLong
    /\ e.path # EmptyPath =>
          /\ Len(src[f]) = e.size
          /\ verify /\ e.crc # 0 => e.crc = Crc(src[f])

\* The call asks for something, and for nothing that must be refused.
Sendable ==
    \/ /\ opts.api = "SendPaths"
       /\ \A k \in DOMAIN opts.files : Exists(opts.files[k])
       /\ Listed # {}
       /\ \A e \in Listed : e.path \notin Unsafe \cup TooLong
    \/ /\ opts.api = "SendFiles"
       /\ opts.manifest # <<>> /\ WellFormed /\ DistinctPaths
       /\ \A k \in DOMAIN opts.manifest : Matches(opts.manifest[k])

\* s is the beginning of the file that entry e is looked up as.
BeginningOf(s, e) == \A j \in DOMAIN s : s[j] = src[ResolveOnDisk(e)][j]

\* Neither side has failed, the sender reads the files that the manifest means,
\* each block on the wire is the block of that file, and what the receiver has
\* of a file is its beginning, or all of it once it is counted.
OnCourse ==
    /\ spc # "failed" /\ rpc # "failed"
    /\ spc = "ok" => wire # <<>>
    /\ rpc = "ok" => spc = "ok"
    /\ spc # "collect" => manifest # <<>>
    /\ \A k \in DOMAIN manifest : Matches(manifest[k])
    /\ spc \in {"hashing", "payload"} => sfile = ResolveOnDisk(manifest[si])
    /\ spc = "hashing" => Len(sread) <= manifest[si].size /\ BeginningOf(sread, manifest[si])
    /\ \A k \in DOMAIN wire : wire[k].kind = "DATA" =>
          /\ wire[k].at \in DOMAIN manifest
          /\ wire[k].data = src[ResolveOnDisk(manifest[wire[k].at])][wire[k].blk]
    /\ rpc = "payload" => BeginningOf(rgot, rentry)
    /\ \A k \in 1..ri : manifest[k].path # EmptyPath =>
          dst[manifest[k].path] = src[ResolveOnDisk(manifest[k])]

\* As long as nothing disturbs it, a call that asks for nothing to be refused
\* goes as it should, at every step and not only at the end.
Smooth == Calm /\ Sendable => OnCourse

-----------------------------------------------------------------------------
(* Claims of the repository's comments that the code does not keep.        *)

\* main.cpp, exit code 0 "success": every named file was put in the session.
ZeroMeansSent ==
    spc = "ok" =>
        \A k \in DOMAIN opts.files : \E j \in DOMAIN manifest : manifest[j].path = opts.files[k][2]

\* receiver.h:48, "Returns false on any error": what a successful call counts
\* is in its file, as it came in.
TrueMeansWritten ==
    rpc = "ok" => \A k \in DOMAIN summary : Len(dst[summary[k].path]) = summary[k].size

-----------------------------------------------------------------------------
(* What a session promises, see Transfer.  The plan is announced by the    *)
(* session header; the receiver's outcome is the session's.                *)

Outcome == IF rpc = "ok" THEN "ok" ELSE IF rpc \in ReceiverEnded THEN "failed" ELSE "running"

Promise == INSTANCE Transfer WITH
    Content <- Seq(Block),
    NoCheck <- 0,
    Rejected <- Unsafe,
    plan <- IF wire = <<>> THEN <<>> ELSE manifest,
    next <- ri,
    counted <- summary,
    store <- dst,
    outcome <- Outcome

\* A session on a well-formed manifest implements Transfer.
KeepsPromise == Promise!Spec
=============================================================================
