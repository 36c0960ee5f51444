# A TLA+ model of xfer

xfer sends files from one host to another over one TCP connection. A sender
(`xfer send`) and a receiver (`xfer recv`) are each one process with one thread;
either of them may be the one that dials. This directory models the program
from its source: the modules say what the code does, the TLC runs check it on
small instances, and the modules whose names end in `Proofs` prove theorems for
every instance.

## 1. Inventory of the system

| Component | State it keeps | Operations | Interacts with |
| --- | --- | --- | --- |
| `transfer/sender` | the manifest, the entry and offset it is at, an open source file | `CollectFiles`, `ResolveOnDisk`, `CrcOfFd`, `SendFileBytes`, `SendPaths`, `SendFiles` | reads source files, which others may edit; pushes items into the socket, waits for the Ack |
| `transfer/receiver` | the session header, the record and bytes it is at, the open output file, the summary | `ValidateAndJoin`, `ReceivePayloadToFile`, `ReceiveStream` | takes items from the socket, answers one Ack, writes the output directory |
| `transfer/protocol` | none | `Write*`/`Read*` of session header, Ack, file record, DONE; little-endian codecs | called by both sides |
| `net/socket` | one descriptor | `Connect`, `Bind`, `Listen`, `Accept`, `Send`, `Recv`, `SendAll`, `RecvAll`, `SendFromFd`, `Close`, moves | the kernel |
| `cli`, `main` | the options | `Parse`, `BindAndAccept`, `DialOut`, `RunSend`, `RunReceive` | owns the socket; turns results into exit codes 0, 2, 3 |
| `common/crc32` | a 32-bit register, a table | `Update`, `Final`, `Compute`, `Reset` | both sides, and the session header |
| `common/progress` | bytes done, total, flags | `Add`, `SetLabel`, `Finish`, `Render` | stderr only |
| `common/format`, `stopwatch`, `logging`, `utils` | a level, a start time | text and time | stderr only |

What is hard here:

* **Two processes, no acknowledgement but one.** After the Ack nothing comes
  back from the receiver; the sender's success says nothing about the receiver's.
* **Framing by counting.** The stream has no item boundaries. The receiver finds
  the next record only because it reads exactly as many payload bytes as the
  sender wrote, for every file, whatever happens to that file meanwhile.
* **The kernel cuts everything.** A send, a sendfile, a pread or a recv may move
  any part of what it was asked for, on three platforms by three different loops.
* **Source files are read three times**: their size (CollectFiles), their
  checksum (the CRC pass), their payload. Anyone may edit them in between.
* **Failures**: either process dies, the connection is reset, the peer closes
  with data unread, a send raises SIGPIPE, a file cannot be created or written,
  the last write is made by a destructor that swallows its error.
* **Names**: a record carries no path on disk; the sender finds its file again by
  rules of its own, and links, `..` and several sources get in their way. Two
  named files can have the same relative path; a caller of `SendFiles` may hand
  over any manifest.
* **Who is whose peer**: a listener accepts one connection and is closed, while
  the kernel queues others behind it; either role may dial.

What makes each component correct:

* sender: pushes a prefix of exactly the stream its manifest describes; reports
  success only when all of it is pushed; never two records of one path.
* receiver: never loses its place in the stream; counts a file only when its
  size and checksum are right; succeeds only with the whole manifest; touches
  no file but the one in transit.
* both: always return, whatever the other one does (a macOS sender does not, see section 6).
* names: what the walk records is found again, is sent once and lands on a file
  of its own below the output directory.
* socket: the loops lose and repeat no byte; every descriptor has one owner and
  is closed once; a session joins exactly two processes of the two roles.
* codec and CRC: decoding undoes encoding for every value a field can hold; a
  header or payload with a wrong byte is refused, nothing else is; the checksum
  is CRC-32C however the bytes are cut.
* command line: options mean the same wherever they stand.
* console: the bar counts what was moved, and the next message has its own line.

`PROJECT.json` lists the components with their status, and every hazard at its
line with the properties that would catch it.

## 2. Modules

| Module | Models |
| --- | --- |
| `Wire` | the connection: the log of items the sender pushed, how far the receiver has taken them, the Ack, which ends are open, whether an RST destroyed it; `SendAll`, `RecvAll`, `Close` and the items of `protocol.cpp` |
| `Sender` | `SendPaths` and `SendFiles`, with `CollectFiles`, `ResolveOnDisk`, `CrcOfFd`, `SendFileBytes` |
| `Receiver` | `ReceiveStream` with `ReceivePayloadToFile` |
| `Session` | both processes and the environment; the specification and its properties |
| `Transfer` | the abstract specification: what one session promises |
| `Manifest` | from the paths named to the files created: the walk of `CollectFiles`, `MakeRelPath`, `ResolveOnDisk`, `ValidateAndJoin` |
| `ByteStream` | the byte loops of `socket.cpp`: `SendAll`, `SendFromFd` of three platforms, `RecvAll` |
| `ItemChannel` | the abstract specification of those loops: whole items, in order |
| `SocketLife` | the class `Socket`: which object holds which descriptor |
| `Connect` | `BindAndAccept` and `DialOut` of several processes, the handshake, exit codes |
| `Cli` | `Parse` and the dispatch of `main`; what a command line means, without a scan |
| `Crc32` | the register, the table and the loop of `crc32.cpp`, and CRC-32C by its definition |
| `Codec` | the layouts of `protocol.cpp` byte by byte, both checksums |
| `Console` | the progress bar and the log lines on stderr |
| `Terminal` | one process from its command line to its last line: `Cli`, and then `Console` with the options parsed |
| `MC...` | constants and calls for TLC, one module for each specification it runs |
| `SessionProofs` | TLAPS: types of a session; neither side loses its place in the stream; what is counted is complete, intact and final; `Session` implements `Transfer`; an undisturbed session delivers |
| `ManifestProofs`, `ByteProofs`, `SocketProofs`, `ConnectProofs` | TLAPS: about `Manifest`, `ByteStream`, `SocketLife` and `Connect` |
| `TerminalProofs` | TLAPS: about `Terminal`, the scan and the bar |
| `CodecProofs` | TLAPS: the checksum is CRC-32C and tells one wrong byte; a reader meets what a writer wrote |
| `Induction` | TLAPS: induction and recursion on the natural numbers, in a form the provers can apply |

`Sender` and `Receiver` EXTEND `Wire`; `Session` EXTENDS both and INSTANCEs
`Transfer`; `ByteStream` INSTANCEs `ItemChannel`; `Codec` EXTENDS `Crc32`; `Terminal`
EXTENDS `Cli` and `Console`, whose actions it interleaves with its own, `Launch`.
A module of proofs EXTENDS the module it is about, and every specification is called
`Spec`.

The layers meet in what they promise each other. `Session` moves whole items,
which `ByteStream` shows the loops of `socket.cpp` to deliver; it takes relative
paths as given, which `Manifest` makes and places; it takes an item as read as it
was written, which is `Codec`; it begins with two joined processes, which is
`Connect`, and ends by closing their sockets, which is `SocketLife`.

### Session: correspondence with the code

A control state (`spc`, `rpc`) is a place in the code where something else can
happen before the next statement that matters:

| `spc` | in `sender.cpp` | `rpc` | in `receiver.cpp` |
| --- | --- | --- | --- |
| `collect` | before line 255 (329) | `hello` | `ReadSessionHeader`, 107 |
| `hash`, `hashing` | the CRC pass 262-270 (333-343), between and inside files | `ack` | `WriteAck`, 111 |
| `hello` | `WriteSessionHeader`, 281 | `outdir` | 116-124 |
| `await_ack` | `ReadAck`, 283 | `record` | `ReadFileHeader`, 132-146 |
| `record` | `WriteFileHeader`, 295 | `create` | opening the output file, 65-72 |
| `open` | 297-300 | `payload` | the block loop 79-87, then 88-93 and 156-158 |
| `payload` | `SendFileBytes`, 301 | `trailer` | `ReadDone`, 164 |
| `done` | `WriteDone`, 309 | `ok`, `failed`, `killed` | returned true, false; killed |

The numbers in parentheses are `SendFiles`. Its loop is the same as that of
`SendPaths`; it takes its manifest from the caller and keeps a checksum that is
not 0. `ok` and `failed` are the return value and the exit codes 0 and 3;
`killed` is a process that SIGPIPE or something outside ended. The end of a
process and the close of its socket are one step (the Socket is a local of
`RunSend`/`RunReceive`).

### Session: abstractions

* Payload moves in blocks (`kBufSize`, 1 MiB) and sizes count blocks. A block, a
  record or a header that is only partly on the wire is one `RecvAll` cannot
  complete: it ends like a stream that lacks it, so items are atomic.
* `wire` is a log with a cursor. The fields `at` and `blk` of an item say which
  manifest entry it came from. They are for the properties only; the receiver's
  actions never read them.
* A relative path is a number, ordered like the strings. 0 is the empty path.
  `Unsafe` holds the paths `ValidateAndJoin` rejects, `TooLong` those of more
  than 0xFFFF bytes.
* The arguments of a call are one directory or a list of named files; a source
  file is a pair of directory and name. `std::sort` is not stable, so of several
  entries with one path any may survive `std::unique`.
* `Crc` is an operator on sequences of blocks. Nothing is assumed of it but that
  its values are numbers; 0 is possible, as it is in the code.
* A record read inside another file's payload fails its magic check. (Payload
  that imitates a record is left out.)
* ofstream passes full blocks on at once and may keep the last, smaller one
  until it is destroyed.
* The socket: a send blocks when `Cap` items are in flight; it may succeed, fail
  or raise SIGPIPE once the peer is gone. Data the closing process has not read
  turns the close into a reset. After a reset `recv` may return what had arrived
  or fail.
* `apple` is the platform the sender was built for. A zero-copy send of a file that
  became shorter fails everywhere but on macOS, where `SendFromFd` asks for ever
  (`Spins`): there is no step for it, until the connection is reset, or someone
  lets the file grow again.
* A call that fails is `failed`; what it leaves in `ec` is not modelled.
* Left out: the session header's version, flags and byte total (only the
  progress display uses it), logging, the progress display.

### Session: environment

`Faults` chooses among: `reset` (the connection is reset), `crash` (a process is
killed), `edit` (a source file is written, created or removed, at most
`MaxEdits` times), `disk` (an operation on the output directory fails and says
so), `flush` (the write made by `~ofstream` fails). Removing a file the sender
holds open is not an edit, since the sender goes on reading it.

### The other modules

**`Manifest`.** A path is its sequence of components, a tree maps canonical
places to files, directories and links. `collect` is the loop of `CollectFiles`
(`arg` is its variable, the four actions are its cases), `SortUnique` its last
lines; `hash` is the checksum pass, which opens what `ResolveOnDisk` returns;
`place` is the receiver, which validates, makes directories and opens one file
after another. `src` of an entry is the file it was made from, for the properties
only. The order of the walk is left open (everything after it is sorted, except
that unique may keep any of several entries with one name). A link may lead to
any file or directory, also to one that it is in: a walk that follows links goes
through them again and again until a path has `MaxLinks` of them, the limit of
the system (40 on Linux), beyond which a link leads nowhere. Links whose target
is itself a link, unreadable directories and changes during the walk are left
out.

**`ByteStream`.** One end runs the calls `Calls` in turn, `SendAll` or
`SendFromFd`, the other one asks for `Units`; `p`, `off`, `offset`, `remaining`,
`buf` are the variables of the loops, and every system call moves any number of
bytes it could. A byte is the number of its place. `platform` chooses among the
three `#if` branches of `SendFromFd`, `fsize` is what the file really holds. An
EINTR that moved nothing is a stutter. A read error of `sendfile` or `pread` can fail
any call (`ReadError`). On macOS, a file that ends too early makes the loop ask again
without moving anything (`AppleAsksAgain`). `ItemChannel` knows only how many whole
items were pushed and taken; the mapping counts the units that are complete.

**`SocketLife`.** `fd` is `fd_` of each object, `table` the descriptor table, in
which other code of the process opens and closes files. Constructors, moves,
`Close`, the destructor, `Bind`, `Listen` and `Accept` are one action each, in
any order the class allows; `Connect` is one action per address. `SetNoDelay`,
`PeerAddress` and the Windows start-up change nothing of this.

**`Connect`.** Processes with a role, an address and a direction; `pc` says where
in `BindAndAccept`, `DialOut` or the handshake each is, `queue` is the kernel's
backlog, `sent` the first thing a process wrote. A sender writes its header, also to a
listener that has not accepted it, and reads what comes back; a receiver reads a
header and writes its Ack. So two senders end with 3, each reading a header for an
Ack, and two receivers wait for each other. A sender with nothing to send (`Idle`)
ends with 0 as soon as it is connected. Behind the Ack the session is one step with
exit code 0 or 3; it, and the death of a process, are left to `Session`.

**`Cli`.** `pos` and `opts` are the variables of `Parse`. Arguments are tokens; a
number is the `long` that `strtol` gives, as high and low word, so that the cast to
int (`ToInt`) is what it is in the code. `Meaning` and `Faulty` say what a command line
means and what is wrong with it, without a scan, by what the comments promise: the
last option about color counts, `--color=auto` too; a port is the number that stands
there, and is in 1..65535; the first word is the subcommand. The scan departs from
this in three cases, which have names of their own: `CutPort`, a number that is no int
and was cut to one; `AutoIgnored`, `--color=auto` behind `--color=always`, which
takes nothing back; `Late`, a subcommand behind an option, which is rejected. The
properties state these exceptions, and section 6 lists them.

**`Terminal`.** `pc` is `main` until `RunSend` or `RunReceive` is entered; `Launch` does
so for command lines of at most `MaxRun` arguments, with a session that has the
role and the options parsed, and leaves open what is sent, whether stderr is a
terminal and where the session fails.

**`Crc32`, `Codec`.** A word is the set of its bits, and the table is made by the
eight steps the code makes it with. `Codec` writes and reads header, records with
their payloads, and trailer as bytes. The loop reads a payload by buffers while
the writer's checksum pass cut it elsewhere. A byte of a number has `Base` values,
so that the largest value of every width can occur. One byte of what a checksum
covers may be changed on the way; a payload whose checksum is 0 is not compared, and
may then be read wrong (`Unverified`). The checksum of a file is computed where its
record is written, though the code does so for all files first.

**`Console`.** The calls of `Progress` and of the log in the order in which
`SendPaths` and `ReceiveStream` make them, with the clock that throttles the
drawing. The texts are left out but for what matters here, whether they begin or
end a line; records without a path are left out.

## 3. Properties

### Session

| Property | Kind | Says |
| --- | --- | --- |
| `TypeOK` | invariant | types; a socket is open exactly while its process runs |
| `InPlace` | invariant | each side's control state and counters agree with the place in the stream of the item it last pushed or took; the inductive invariant of section 7 |
| `WireGrammar` | invariant | the stream is a prefix of what the manifest describes, and all of it when the sender reports success, even if files shrink, grow or vanish |
| `Framing` | invariant | what the receiver is about to ask for is what comes next, unless the caller's manifest gives a payload to an empty path |
| `AckGate` | invariant | records are pushed only after the receiver validated the header |
| `Integrity` | invariant | a counted file has, and keeps, the declared size and, if verified, the declared checksum |
| `SuccessIsComplete` | invariant | the receiver's success means that every entry with a path is counted, once and in order |
| `CountedFilesStay` | action property | no step changes a file that was counted |
| `KeepsPromise` | refinement | `Session` implements `Transfer` |
| `Termination` | liveness | both processes end, whatever fails, but for a macOS sender that asks for bytes behind the end of its file, and its receiver |
| `Smooth` | invariant | while nothing disturbs a call that asks for nothing to be refused, neither side has failed, the sender reads the files the manifest means, and every block on the wire and in the output directory is theirs |
| `Delivery` | invariant of end states | when nothing disturbed the session, both succeeded and every file has arrived with its content; with `Termination`, that it does arrive |

`Integrity` and `CountedFilesStay` are about manifests in which no path occurs
twice: `CollectFiles` makes no other, a caller of `SendFiles` may.

`Transfer` has a plan that is announced once, a cursor, the entries counted so
far, the store and an outcome. `Session` maps the session header to the
announcement, `ri` to the cursor, `summary` to what is counted, `dst` to the
store and the receiver's end to the outcome. The sender has no outcome there:
the protocol gives it none to rely on.

### The other modules

| Property | Says |
| --- | --- |
| `Manifest!OneSourceResolves` | with one source, every record is read from the file it was made from, whatever links there are |
| `Manifest!EachFileOnce` | every regular file below a directory is sent exactly once |
| `Manifest!ClosedSourceArrives` | a single source from which no link leads out is never rejected |
| `Manifest!NoOverwrite` | no two records of one call land on one file |
| `Manifest!BelowOutput` | the receiver makes files below its output directory only; for an output directory with no links in it |
| `ByteStream!NothingLostOrRepeated` | what is on the connection is the beginning of what was to be sent |
| `ByteStream!TrueMeansAll` | a call that returned true pushed everything, and no more |
| `ByteStream!BufferIsWhole` | a buffer that `RecvAll` returns holds the bytes asked for, in order |
| `ByteStream!OffsetTracks` | `offset_in_out` of a failed call is never ahead of what was pushed; with `sendfile64` it is exact |
| `ByteStream!CallReturns` | every call of `SendAll` and `SendFromFd` as a whole comes to its end, but for one on macOS that asks for bytes behind the end of its file |
| `ByteStream!ImplementsItems` | the loops implement `ItemChannel` |
| `SocketLife!OneOwner` | no two objects hold one descriptor |
| `SocketLife!NoLeak` | every open socket is held by an object, but for the one a `Connect` is trying |
| `SocketLife!NoStale` | no object holds a descriptor that was closed |
| `Connect!OnePeer` | a session joins exactly two processes, one that listened and one that dialled |
| `Connect!SuccessIsJoined` | exit code 0 needs a peer of the other role, with something to send; but for a sender with nothing to send, which ends with 0 alone |
| `Connect!Ends` | every process ends, but for a listener nobody dials and for two receivers |
| `Cli!ParseIsMeaning` | what the scan accepts has the meaning a definition without a scan gives it, but for a port that was cut (`CutPort`) and a color that was not taken back (`AutoIgnored`) |
| `Cli!RejectsExactlyFaults` | the scan rejects only command lines with a fault or a `Late` subcommand, and all of those but the ones with a `CutPort` |
| `Codec!ReadsWhatWasWritten` | every item read is the item written, field for field, but for a damaged payload whose checksum is 0 |
| `Codec!RefusesOnlyDamage` | the reader refuses a stream only for a byte that was changed |
| `Codec!SumIsCrc32c` | what both sides compute is the remainder that defines CRC-32C, in any parts |
| `Console!CountsToTotal` | the bar's count never passes the total, and is the total when finished |
| `Console!CleanAfterFinish` | after `Finish` the next message begins on a line of its own |

Every property of a passing run has a mutant in `PROJECT.json`: a definition
preceded by a `Mutant:` comment that changes one modelled operation the way a
slip in the code would, and with which the run fails.

## 4. Runs

| Run | Instance | Result |
| --- | --- | --- |
| `session_safety` | all safety properties of `Session`; thirteen calls, resets, crashes, disk errors, two edits, two items in flight | holds, 2.9 million states |
| `session_live` | `Termination`, `Delivery` and `Smooth`; eleven calls, resets, crashes, one edit, one item in flight, a path that is too long | holds, 227 thousand states |
| `manifest` | 27 calls in 18 trees, up to three links in a path | holds, 8.3 thousand states |
| `stream_bytes` | three platforms, a file of 2, 4 or 5 bytes where 4 are to be sent, read errors | holds, 4.1 thousand states |
| `socket_life` | three objects, four descriptors, up to two addresses | holds, 3.0 thousand states up to symmetry |
| `connect` | four processes, eight commands, two addresses, a backlog of 1 | holds, 1.1 million states |
| `terminal` | all command lines of up to four of fourteen arguments; the sessions of those of up to three, with four plans, in both roles | holds, 431 thousand states |
| `codec` | sessions of up to two records; the vectors of `tests/test_crc32.cpp`, an assumption of `MCCodec` | holds, 36 thousand states |
| `find_missing_file` | `ZeroMeansSent` | violated |
| `find_lost_flush` | `TrueMeansWritten` | violated |
| `find_multi_source` | `SourcesResolve` | violated |
| `find_port_cut` | `PortInRange` | violated |

Why the bounds are enough to be interesting:

* Session runs: two directories with files 1, 2 and 3 of at most two blocks from
  an alphabet of two, so that old and new content, and one checksum that is 0, can
  differ; an output directory that already holds file 1. Two edits let a file
  change between the size, the checksum and the payload, and change back; two
  blocks let an edit fall inside a file; two files let one fail after the other
  was counted; two directories make two files of one name. The calls include
  manifests with stale sizes, wrong checksums, empty, repeated and rejected paths; two of them run on macOS, where the
  edits and a stale size make the sender spin.
  `session_live` has the smallest window, in which each side blocks on the other
  most often, and no disk errors, which only end the receiver earlier; those and
  the second edit are in `session_safety`.
* `manifest`: files and directories of one name at two depths and in two sources;
  a link that leads to a file or a directory inside or outside the source, to the
  source itself or nowhere, and one to name the source by; plain paths, a trailing slash, `.`, `..`,
  an absolute path; several sources.
* `stream_bytes`: a header of 2 bytes, a payload of 4 received as 3 and 1, an empty
  payload, a trailer of 1; chunk, buffer and window of 3 are smaller than the
  payload, so every loop goes round, and cuts fall inside and across items.
* `socket_life`: the listener, the result of `Accept` and the caller's socket are
  all the objects that exist at once in the program; four descriptors leave one for
  a file. The objects are interchangeable, hence the symmetry.
* `connect`: with four processes a queue holds two while a third is refused, two
  listeners compete for one address, and two pairs can form; senders with and without
  anything to send, dialling and listening.
* `terminal`: four arguments are a subcommand, an option and its value, and one more;
  the fourteen have one of each kind, among them a number above 2^32. Three are enough
  for a session with any role and any of the two options that the display looks at;
  empty files and files of several blocks, a clock of two throttle intervals.
* `codec`: `Base` 2 makes the largest value of each field small enough to occur and
  one path too long by a byte; two records let a misread one put the next at a
  wrong place; three and four bytes of payload are received in two buffers, and the
  four have the checksum 0; the header with the largest version, flags and byte count
  announces no record.

Deadlock is checked in the session runs and `socket_life`. In the session runs the
only state without a step of a process or of the environment is the one in which both
processes have ended, where `Terminated` stutters; in `SocketLife` something can
always be done. The other configurations say `CHECK_DEADLOCK FALSE` because what
they model really ends: a call returns, all processes exit, a session is over.

## 5. Fairness

`Session!FairSpec` assumes weak fairness of `SenderNext` and of `ReceiverNext`, no
more: each is one thread, always at one statement, that the operating system keeps
scheduling while it is not blocked in the kernel. `ByteStream!FairSpec` assumes the
same of its two ends, and `Connect!FairSpec` of every process. Nothing is assumed of
the environment: no reset, crash, edit or read error has to happen. A macOS sender that asks for bytes
behind the end of its file is scheduled too, but its steps change nothing (`Spins`), and
no fairness ends them. A blocking call returns when
the kernel has a reason: data, room, a FIN or an RST. The case in which there never
is one, a peer that vanishes without a packet, is not modelled: xfer sets no timeout
and no keep-alive, and would wait for ever.

## 6. Findings

Four runs show where the program departs from what its comments say; the quoted
lines are in `PROJECT.json`.

1. `find_missing_file`: one missing path makes `SendPaths` send nothing and
   return true, exit code 0, although `CollectFiles` set `ec`.
2. `find_lost_flush`: an output file whose last write fails on close is counted
   and the call returns true.
3. `find_multi_source`: with several paths, files of a directory argument are looked
   for beside the directory, and `SendPaths` fails.
4. `find_port_cut`: `--port 4294977172` is accepted and runs on port 9876, since the number
   is cut to int before its range is tested (`cli.cpp:43`).

Further disagreements met while reading and modelling, for which no run is kept:

* The summary is filled in file by file and stays so on failure (`receiver.cpp:156`;
  line 98 says only on success).
* The sender can end with 0 while the receiver ends with 3, for instance after an
  edit between the checksum pass and the payload: nothing comes back after DONE
  (`sender.cpp:309`).
* A sender whose receiver closed early may be killed by SIGPIPE (`socket.cpp:196`)
  instead of ending with 3. Both are in `Session`.
* A record with an empty path is skipped without its payload (`receiver.cpp:136`), so
  the next record is looked for inside it. `Session` has the case; `Framing` excludes
  it, as `CollectFiles` makes no such entry.
* With `strip_prefix` set, relative paths no longer lead back to the files:
  `ResolveOnDisk` does not know the prefix (`sender.cpp:171`; `sender.h:12-14` says
  that the two are separate). No command sets it.
* A followed link out of the source gives a relative path with `..`
  (`sender.cpp:59`), which `protocol.h:23-24` forbids and the receiver rejects.
* `offset_in_out` leaves out the sent part of a buffer, or of a last macOS sendfile,
  when a call fails (`socket.cpp:325`; lines 244-245 say it tracks bytes pushed).
* On macOS, `SendFromFd` of a file that became shorter asks for ever
  (`socket.cpp:288-301`): sendfile reports the end as success with no bytes. Neither
  process ends then. It is in `Sender` and in `ByteStream` as `Spins`, the exception of
  `Termination` and `CallReturns`.
* The userspace loop of `SendFileBytes` fails without setting `ec` when the file
  became shorter (`sender.cpp:161`): the message then gives no error as its reason.
* A connection that is dropped from the queue of a closed listener ends with 3 and not
  with the 2 of a connection failure (`main.cpp:10`), as connect(2) had succeeded
  (`cli.cpp:213`).
* A sender with an empty manifest ends with 0 on any connection (`sender.cpp:256-259`),
  also to another sender or to a listener that never accepts it; it is the exception of
  `SuccessIsJoined`.
* The subcommand is the first token that does not begin with `-`, says `cli.cpp:4-6`; only
  the first token is tested (`cli.cpp:112`), and `xfer -v send f` is rejected. The exception
  of `RejectsExactlyFaults` (`Late`).
* `--color=auto` behind `--color=always` leaves the color forced (`cli.cpp:168`). An
  exception of `ParseIsMeaning` (`AutoIgnored`).
* `receiver.h:13-14` says that files are always written under the output directory.
  `BelowOutput` shows it of the path that is opened; a link below the output directory
  that leads out of it is followed, and `Manifest` has no such links.
* `--help` in front of a path makes the path an unknown option (`cli.cpp:182`).
* `--color` is parsed but `RunSend` and `RunReceive` set color on (`cli.cpp:229`).
* `Progress::Render` writes as many bytes as the line needs, although its buffer holds
  512 (`progress.cpp:94`): with a label of more than about 470 characters, which is the
  path, what follows the buffer is printed.
* A record's own header (path length, size, checksum) is covered by no checksum; only
  its magic is compared.
* A file whose CRC-32C happens to be 0 is sent with a checksum that means "not verified"
  (`receiver.cpp:89`), so damage to it goes unseen.

## 7. Proofs

Every theorem holds for all values of the constants that satisfy the named
assumptions of the modules it is about: `WireAssumption`, `SenderAssumption`,
`ReceiverAssumption` and `SessionAssumption` (any finite set of paths, any blocks,
any checksum, any set of calls, faults, source trees, output directories and edits,
any bounds); `ByteStreamAssumption` (any calls, units, file sizes, and positive chunk,
buffer and window); `SocketLifeAssumption` (any objects and descriptors);
`ConnectAssumption` (any processes, addresses, commands, backlog);
`CodecAssumption` (a byte with any number of values up to 256, any magics, headers and
paths, any payloads whose length 64 bits can hold, any buffer);
`ConsoleAssumption` (any plans of file sizes, positive block and throttle interval, any
clock); `CliAssumption` (any arguments: an option never counts as plain, a subcommand
always does; numbers are pairs of integers; any bound on the length of a command line);
`ManifestAssumption` (any names but `.`, `..`, `/` and the empty one, any trees in
which every place is in a directory, any calls without an empty path, any bound on
links). TLC evaluates them in every run of their module.

| Theorem | Shows |
| --- | --- |
| `SessionProofs!TypeCorrect` | `Spec => []TypeOK` |
| `SessionProofs!AlwaysInPlace` | `Spec => [](TypeOK /\ InPlace)` |
| `SessionProofs!StreamIsGrammatical` | `Spec => []WireGrammar` |
| `SessionProofs!RecordsAwaitAck` | `Spec => []AckGate` |
| `SessionProofs!ReceiverKeepsPlace` | `Spec => []Framing` |
| `SessionProofs!AlwaysCounted` | `Spec => [](TypeOK /\ InPlace /\ Counted)` |
| `SessionProofs!SuccessCoversManifest` | `Spec => [](WellFormed => SuccessIsComplete)` |
| `SessionProofs!CountedStays` | `WellFormed /\ Spec => CountedFilesStay` |
| `SessionProofs!CountedIsIntact` | `"flush" \notin Faults /\ WellFormed /\ Spec => []Integrity` |
| `SessionProofs!SessionImplementsTransfer` | `"flush" \notin Faults /\ WellFormed /\ Spec => KeepsPromise` |
| `SessionProofs!AlwaysOnCourse` | what is behind `Smooth` is inductive, unless the disk fails |
| `SessionProofs!SmoothUntilDisturbed` | the same hypotheses: `Spec => []Smooth` |
| `SessionProofs!UndisturbedArrives` | the same hypotheses: `Spec => [](Sendable => Delivery)` |
| `SessionProofs!FaultlessArrives` | `Faults = {} /\ Spec => [](Sendable => Undisturbed /\ Delivery)` |
| `ManifestProofs!TypeCorrect` | `Spec => []TypeOK` |
| `ManifestProofs!OneSourceIsResolved` | `Spec => []OneSourceResolves` |
| `ManifestProofs!EachFileSentOnce` | `Spec => []EachFileOnce` |
| `ManifestProofs!ClosedSourceIsAccepted` | `Spec => []ClosedSourceArrives`, if no file is called `\` |
| `ManifestProofs!NeverOverwritten` | `Spec => []NoOverwrite` |
| `ManifestProofs!StaysBelow` | `Spec => []BelowOutput` |
| `ByteProofs!TypeCorrect` | `Spec => []TypeOK` |
| `ByteProofs!AlwaysInOrder` | `Spec => []NothingLostOrRepeated` |
| `ByteProofs!TrueIsComplete` | `Spec => []TrueMeansAll` |
| `ByteProofs!OffsetNeverAhead` | `Spec => []OffsetTracks` |
| `ByteProofs!BufferAlwaysWhole` | `Spec => []BufferIsWhole` |
| `ByteProofs!BytesImplementItems` | `Spec => ImplementsItems` |
| `SocketProofs!UniqueOwner`, `NothingLeaks`, `NothingStale` | `Spec => []OneOwner`, `[]NoLeak`, `[]NoStale` |
| `ConnectProofs!TypeCorrect` | `Spec => []TypeOK` |
| `ConnectProofs!JoinedInPairs` | `Spec => []OnePeer` |
| `ConnectProofs!ZeroNeedsCounterpart` | `Spec => []SuccessIsJoined` |
| `CodecProofs!ComputeIsRemainder` | the table-driven checksum is the CRC-32C of all bytes |
| `CodecProofs!OneWrongByte` | messages that differ in one byte have different checksums |
| `CodecProofs!Invariance` | the inductive invariant `IInv` |
| `CodecProofs!ReadsTheWritten` | `Spec => []ReadsWhatWasWritten` |
| `CodecProofs!RefusedMeansDamaged` | `Spec => []RefusesOnlyDamage` |
| `CodecProofs!SumIsDivision` | `Spec => []SumIsCrc32c` |
| `TerminalProofs!BarIsTallied` | `Spec => []SessionInv`: what is behind the next two is inductive |
| `TerminalProofs!BarCountsToTotal` | `Spec => []CountsToTotal` |
| `TerminalProofs!FinishLeavesCleanLine` | `Spec => []CleanAfterFinish` |
| `TerminalProofs!ScanUnderstands` | `Spec => []CliInv`: what is behind the next two is inductive |
| `TerminalProofs!AcceptedIsUnderstood` | `Spec => []ParseIsMeaning` |
| `TerminalProofs!OnlyFaultsAreRejected` | `Spec => []RejectsExactlyFaults` |

### The stream

`TypeOK` is inductive as it stands. The proof splits it into what a sender step
and what a receiver step can disturb (`SenderPart`, `ReceiverPart`), with a lemma
for each pattern that several actions share: returning, opening a file, moving
to the next entry. It needs more than sets of values: the entry index stays in
the manifest, a file that is being read exists, a process has ended exactly when
its socket is closed.

`WireGrammar`, `AckGate` and `Framing` are not inductive: they speak of the items
on the wire, and say nothing of why the next item pushed or expected fits.
`InPlace` adds that:

* `Stream`: the log starts with the header and each item may follow the one
  before it.
* `SenderPlace`: the last item pushed is the one that `spc`, `si` and `soff` say it
  is. So whatever the sender pushes next may follow it (`BeforeFollows` at the
  boundary of an entry, `PassedFollows` inside one; `Push`).
* `AckOrder`: header, Ack and records happen in that order.
* `ReceiverPlace`: the last item taken is the one that `rpc`, `ri` and `rgot` say
  it is. `Stream` then fixes what comes next (`InPlaceInStep`), which is what the
  receiver is about to ask for. The receiver takes the entry from the record,
  never from the manifest; that they are equal is part of the invariant.
* `PathlessIsEmpty`: the receiver skips a record without a path, and stays in place
  only because no payload follows. `CollectFiles` lists no such entry; a
  caller's manifest is assumed to give it size 0 (`WellFormed`, an assumption of
  `Framing` alone).

A step of one side leaves the other's place alone: the sender only appends, and
no longer changes its manifest once something is on the wire (`SenderWrites`,
`ReceiverUndisturbed`); the receiver does not touch the sender's state
(`SenderUndisturbed`).

### What is counted

The second part of `SessionProofs` builds on `InPlace`. A receiver in place takes steps of five kinds
only (`Effect`, by `ReceiverEffect`): it leaves cursor, summary and store alone
(`Stay`), writes at the path of the entry at the cursor (`WriteFile`), passes over an
entry without a path (`PassOver`), counts the entry at the cursor (`CountFile`), or
returns true behind the last one (`Succeeds`). Everything else follows from the kinds,
without the receiver's control states:

* `Tally`: what is counted are the entries in front of the cursor that have a path, in
  order. `SuccessIsComplete` is `Tally` at `Succeeds`.
* `ManifestDistinct`: no path comes twice in the manifest, because of sort and unique,
  or because the caller's has none twice (`DistinctPaths`). So the entry at the cursor
  has another path than any entry counted, and a write to it disturbs none
  (`CountedStays`).
* `Integrity` holds of a file when it is counted, by the comparison of size and
  checksum, and stays because the file does. A write that `~ofstream` makes and that
  fails unseen breaks it, hence the condition on `Faults`; `find_lost_flush` shows that
  it is needed.
* `SessionImplementsTransfer`: every kind maps to one action of `Transfer` or to a
  stutter (`ReceiverPromise`), the header to `Announce`, all other steps of the sender
  and of the environment to stutters or to the session's end (`OthersPromise`). The
  mapping needs `Framing`, and so `WellFormed`.

### What arrives

The third part is about calls that nothing disturbs. `Delivery` says something of the end
only. `OnCourse` says what holds on the way:
neither side has failed, the sender hashes and sends the file that each entry is looked
up as, a DATA item holds the block its place says, and what the receiver has of a file
is its beginning, or all of it once counted. The proof carries the same facts, with the
lookup as a function of the entry (`FileOf`), as `Course`. It assumes that the session
is `Calm` (no reset, crash or edit yet) and the call `Sendable` (it asks for something,
and for nothing that must be refused). `Going` collects all of this.

* `SenderGoesOn`: no failing step of the sender is possible. What `CollectFiles` lists can
  be found again and has the size and the checksum noted, since no file changes (a
  caller's manifest is assumed to match); every read gets its block; the receiver has
  not ended as long as the sender has not (`ReceiverWaits`), so no send meets a closed
  peer.
* `ReceiverGoesOn`: nor of the receiver. The sender ends only behind DONE, which is the
  last item (`DoneIsLast`), so no receive meets the end in the middle (`ItemsArrive`); the
  Ack finds the sender waiting (`AckGoesOut`); the checksums compared are of equal
  contents.
* `StepOnCourse`: and neither side's close resets the connection, as nothing is unread by
  then. So a session is calm until the environment disturbs it, and was calm before if it
  is now (`CalmBefore`). Without faults it stays so: `FaultlessArrives`.

With `disk` or `flush` among the faults a call can fail for other reasons; they are
excluded from the theorems, and TLC's run with them is `session_safety`.

### Induction

The library's induction theorems take the property as an operator, which the provers
cannot instantiate. `Induction` states them with sets instead: a set that holds 0 and
with each number the next holds them all (`InductNat`, `InductUpTo`), from the
well-foundedness of `<`; and a function defined by recursion on an interval exists and
has its equations (`Recursion`). The sums of `ByteStream`, and the walks of `Manifest`,
are defined by such functions.

### Names and files

`ManifestProofs` is about `CollectFiles`, `ResolveOnDisk` and `ValidateAndJoin` together.
Its inductive invariant has four parts: `Typed`; `Gathered`, what is found comes from the
arguments seen so far and what is kept is one entry of each relative path; `Landed`,
everything the receiver made is an accepted record at its place; `Counted`, as many
places as records.

* A walk along a path and then along another is a walk along both; so a file's path as
  the iterator gives it ends where the relative path ends from the source, however the
  source is spelled and whatever links the walk follows. `MakeRelPath` and
  `lexically_relative` cut off the common beginning of two canonical places, and what is
  left leads from one to the other, with `..` where needed. Hence `OneSourceIsResolved`,
  and that different files have different names, hence `EachFileSentOnce`.
* A relative path from the walk consists of `..` and names; an accepted one has no `..`,
  so that joining it to the output directory gives a place strictly below, and a
  different one for every path
  (`StaysBelow`, `NeverOverwritten`).
* A source whose files are below it gives the relative paths of a tree, in which no file
  is the directory of another (`ClosedSourceIsAccepted`). The proof needs that no file is
  called `\`: the receiver takes that component for a separator and rejects the record.

### Bytes and checksums

`CodecProofs` has three layers.

* The checksum. `Step` is linear and injective, so a table entry is what eight steps make
  of its index (`TableTurns`) and `Update` absorbs a byte as eight steps of the register
  would (`AbsorbedTurns`); the register stands for the next 32 bits of the dividend
  (`Stands`), which gives `ComputeIsRemainder`. Because each step can be undone, registers
  that differ stay different while the same bytes follow: `OneWrongByte`. Parts do not
  matter (`UpdatedConcat`), neither the writer's (`CrcOfParts`) nor the reader's.
* The layouts. Decoding undoes encoding for every number that fits the width
  (`DecodeEncode`, `DecodeEncodeSum`), and each field lies at the offset where the Read
  functions look for it (`HeaderLayout`, `RecordLayout`).
* The stream. `IInv` says that there are a stream as it was written and the places where
  its items end (`Layout`), that the bytes that arrive are those but for at most one, in a
  checksummed part not yet read (`Transit`), that the items read are those written and the
  reader stands where the last one ends (`Taken`), or inside a payload, with the register
  of what it has of it (`Underway`). Neither the places nor the bytes sent are in the state
  of the code: they are what makes the invariant inductive. A record's own header has no
  checksum; the reader finds it whole because damage is only where checksums are
  (`Untouched`). A wrong byte in the session header makes its check fail
  (`HeaderRefused`), one in a payload the comparison, unless the checksum is 0
  (`PayloadArrives`).

### The command line

`ParseIsMeaning` compares the scan of `Parse` with a definition that looks at the whole
command line at once: an argument is a value if the one before it takes a value and is
none itself (`IsValue`, going back to the first argument), and a field has what the last
argument that sets it gives it. Both properties speak of the end of the scan; `CliInv`
says what is true on the way, in front of `pos`:

* `Place`: `pos` is never a value. After an option that takes a value the scan goes on
  behind it, so this stays so (`Advance`), and the arguments that are no values in front
  of the new place are those in front of the old one and the argument just looked at.
* `Understood`: each field has what the last of the arguments that set it, in front of
  `pos`, gives it. The actions differ in the field, the arguments and the value only;
  `Setting` and `Given` name these for every field, `Moves` shows that each action does
  what they say, and one argument (`UnderstoodMore`) covers them all. The paths are
  numbered by their places; one more place behind the others gets the next number and
  changes none (`NextPlace`).
* `Clean`: no word and no value in front of `pos` is a fault. So a rejection at `pos` is a
  fault that the definition sees too, or a late subcommand (`CliRejects`), and at the end only what the options
  mean together is left to test (`CliScanned`). The mode that `Parse` has when it meets a
  path is the one that `ModeAt` gives for that place (`ModeSoFar`).

At the end everything is in front of `pos`, and two options that understand the same
arguments are equal (`SameUnderstanding`). What all arguments make understood is `Read`,
`Meaning` with the cast of the port and without `--color=auto` (`ReadUnderstood`); the two
differ in the fields of `Misread` only (`ReadIsMeaning`), and what `Read` makes of the checks
behind the scan differs from what `Meaning` makes of them only for a port that was cut
(`UselessIsRead`).

### The progress bar

The sum of a plan is a recursive function; that it has its equations and grows with the
files is by induction (`BytesRec`, `BytesGrow`). `Tallied` says that what was counted is
the bytes of the files done and of the one underway without what is left of it, which
gives `CountsToTotal` where all files are done. `Drawn` says that the cursor is behind a
bar only if that bar can be drawn and is not finished; `Finish` then draws it once more,
with the newline, and `CleanAfterFinish` is what is left. Before `Launch` nothing has been
written (`AtRest`); `SessionInv` joins the two.

### The other modules

* `ByteProofs`: `Inv` says where a call stands by the number of bytes pushed: in
  `SendAll` its buffer begins where the call began, or, inside the loop of the fallback,
  at `offset`; in `SendFromFd`, `off` or `offset` and `remaining` add up to the length.
  Whatever part the kernel takes then begins at the right byte (`PushInOrder`). The same
  facts give what a call pushed when it returned true and the offset when it failed.
  For the receiver, the unit it reads begins behind the sum of the units before it and
  `ItemChannel`'s counters are the units whose bytes are all pushed, or taken; that the
  sums grow with the units, and so tell where one ends, is by induction (`Induction`).
* `SocketProofs`: one owner, no leak and nothing stale are one fact, that open sockets
  and objects with a descriptor correspond one to one; none is inductive without the
  others. `Dialling` adds that a `Connect` that still tries holds nothing. Each
  operation is one of a few changes of that correspondence (`Replace`, `Take`, `Move`,
  `NothingFreed`, `FilesOnly`).
* `ConnectProofs`: `Queued` says that whoever waits dialled the very listener it waits
  at, waits nowhere else and has no peer, `Listening` that who listens has no peer yet.
  So `Accept` joins two that were free. `Handshake` says who wrote what: a header comes from
  a sender with something to send, an Ack from a receiver that read a header, and both
  have passed (`Shaken`) between two that go on to the session. Whoever ends with 0 is
  `Shaken` or had nothing to send, which is `SuccessIsJoined`.

### What is only model-checked

Liveness under fairness (`Termination`, `Ends`, `CallReturns`) is beyond the proof
system: that an undisturbed session does end, and so delivers, rests on TLC's
`Termination`. All invariants and action properties of the runs that hold, and both
refinements, are proved, under the hypotheses in the table. The published vectors of the checksum are evaluated.
`IInv` of `CodecProofs` speaks of some stream and some places, among infinitely many, so
TLC checks its three consequences, not `IInv`. The findings are counterexamples.

## 8. Not modelled, and what is left

* Text: `common/format`, `stopwatch`, `utils`, version and help texts, the text of the
  bar, colours. Nothing depends on them.
* The build files, scripts and tests; the tests were read for what is intended.
* `SetNoDelay`, `PeerAddress`, the start-up of Windows sockets.
* A peer whose host vanishes without a packet, and a peer that is not xfer: `Session`
  joins our sender and our receiver. `ReceiveStream` against any sequence of well-made
  items (other record counts, repeated paths) would be a module beside it.
* Payload that imitates a record, in the one case where the receiver can lose its place.
* Directories that cannot be read and links to links in `Manifest`.

Left to do: that module. That the items of `Wire` are delivered as `ItemChannel` says is by
construction of `Wire`, and described in section 2.
