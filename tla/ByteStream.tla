------------------------------ MODULE ByteStream ------------------------------
(***************************************************************************)
(* The byte loops of net/socket.cpp: SendAll and SendFromFd on one end,    *)
(* RecvAll on the other, over a kernel that moves any part of what it is   *)
(* asked to.  A byte is the number of its place in all the sender means to *)
(* send, so a byte lost, repeated or misplaced shows.                      *)
(***************************************************************************)
EXTENDS Integers, Sequences, FiniteSets

CONSTANTS
    Platforms,  \* of "linux", "apple" and "other", those SendFromFd is built for
    Calls,      \* the send calls in turn: [via : {"all", "fd"}, len : Nat]
    Units,      \* the lengths the receiver asks RecvAll for in turn
    Files,      \* sizes the file of an "fd" call can really have
    Chunk,      \* the most one sendfile asks for (1 GiB)
    Buf,        \* the buffer of the pread loop (4 MiB)
    Cap         \* BOUND: bytes in flight before a send blocks

ASSUME ByteStreamAssumption ==
    /\ Platforms \subseteq {"linux", "apple", "other"}
    /\ Calls \in Seq([via : {"all", "fd"}, len : Nat])
    /\ Units \in Seq(Nat \ {0}) /\ Units # <<>>
    /\ Files \subseteq Nat
    /\ {Chunk, Buf, Cap} \subseteq Nat \ {0}

VARIABLES
    platform, fsize,       \* what this behaviour runs on
    stream, taken, conn,   \* bytes pushed, how many were taken, "up" or "broken"
    pc, call, base,        \* sender: phase, current call, bytes pushed before it
    from, p, len,          \* SendAll: first byte of its buffer, progress, length
    off, offset, remaining,\* SendFromFd: off, offset_in_out, remaining
    rpc, unit, buf, rp     \* receiver: phase, current RecvAll, its buffer and p

network == <<platform, fsize, conn>>
sendAll == <<from, p, len>>
sendFd == <<off, offset, remaining>>
receiver == <<rpc, unit, buf, rp, taken>>
vars == <<network, stream, pc, call, base, sendAll, sendFd, receiver>>

Least(a, b) == IF a < b THEN a ELSE b
Bytes(first, n) == [k \in 1..n |-> first + k]
Room == Cap - (Len(stream) - taken)

-----------------------------------------------------------------------------
(* The calls of the transfer code. *)

Current == Calls[call]

StartSendAll ==
    /\ pc = "next" /\ call <= Len(Calls) /\ Current.via = "all"
    /\ pc' = "all"
    /\ from' = base /\ p' = 0 /\ len' = Current.len
    /\ UNCHANGED <<network, stream, call, base, sendFd, receiver>>

StartSendFromFd ==
    /\ pc = "next" /\ call <= Len(Calls) /\ Current.via = "fd"
    /\ pc' = "fd"
    /\ off' = 0 /\ offset' = 0 /\ remaining' = Current.len
    /\ UNCHANGED <<network, stream, call, base, sendAll, receiver>>

\* The call returned true.
NextCall == pc' = "next" /\ call' = call + 1 /\ base' = base + Current.len

\* Every call returned true; the socket is closed.
Finish ==
    /\ pc = "next" /\ call > Len(Calls)
    /\ pc' = "done"
    /\ UNCHANGED <<network, stream, call, base, sendAll, sendFd, receiver>>

Fail == pc' = "failed" /\ UNCHANGED <<network, call, base, sendAll, remaining, receiver>>

-----------------------------------------------------------------------------
(* SendAll. *)

\* Mutant: a short send is taken for a whole one.
TrustSend(n) ==
    /\ pc = "all" /\ n <= Least(len - p, Room)
    /\ stream' = stream \o Bytes(from + p, n)
    /\ p' = len
    /\ UNCHANGED <<network, pc, call, base, from, len, sendFd, receiver>>

\* One send(2) takes n bytes.
Send(n) ==
    /\ pc = "all" /\ n <= Least(len - p, Room)
    /\ stream' = stream \o Bytes(from + p, n)
    /\ p' = p + n
    /\ UNCHANGED <<network, pc, call, base, from, len, sendFd, receiver>>

SendFails == pc = "all" /\ p < len /\ conn = "broken" /\ Fail /\ UNCHANGED <<stream, off, offset>>

SendAllReturns ==
    /\ pc = "all" /\ p = len /\ Current.via = "all"
    /\ NextCall
    /\ UNCHANGED <<network, stream, sendAll, sendFd, receiver>>

-----------------------------------------------------------------------------
(* SendFromFd. *)

\* Mutant: the last part is not cut to what remains.
FullWant(most) == most

Want(most) == Least(remaining, most)
Native(n) == pc = "fd" /\ n <= Least(Want(Chunk), fsize - off)

\* sendfile moves n bytes; on macOS it may also say EINTR, to the same effect.
Sendfile(n) ==
    /\ platform \in {"linux", "apple"} /\ Native(n) /\ n <= Room
    /\ stream' = stream \o Bytes(base + off, n)
    /\ off' = off + n
    /\ remaining' = remaining - n
    /\ UNCHANGED <<network, pc, call, base, sendAll, offset, receiver>>

\* Mutants: the caller's offset is forgotten; the end of the file is not tested.
KeepOffset ==
    /\ platform = "linux" /\ pc = "fd" /\ remaining > 0
    /\ off >= fsize \/ conn = "broken"
    /\ Fail /\ UNCHANGED <<stream, off, offset>>
NoEofTest ==
    /\ platform = "linux" /\ pc = "fd" /\ remaining > 0
    /\ conn = "broken"
    /\ offset' = off
    /\ Fail /\ UNCHANGED <<stream, off>>

\* Linux: the file ended, or the connection broke.
LinuxFails ==
    /\ platform = "linux" /\ pc = "fd" /\ remaining > 0
    /\ off >= fsize \/ conn = "broken"
    /\ offset' = off
    /\ Fail /\ UNCHANGED <<stream, off>>

\* macOS: at the end of the file sendfile returns 0 with len 0, and the loop
\* asks again.
Spins == platform = "apple" /\ pc = "fd" /\ remaining > 0 /\ off >= fsize
AppleAsksAgain == Spins /\ conn = "up" /\ UNCHANGED vars

\* macOS: sendfile failed after it moved n bytes, which nothing adds to off.
AppleFails ==
    /\ platform = "apple" /\ pc = "fd" /\ remaining > 0
    /\ \E n \in 0..remaining : Native(n) /\ n <= Room /\ stream' = stream \o Bytes(base + off, n)
    /\ offset' = off
    /\ Fail /\ UNCHANGED off

SendfileReturns ==
    /\ platform \in {"linux", "apple"} /\ pc = "fd" /\ remaining = 0
    /\ offset' = off
    /\ NextCall
    /\ UNCHANGED <<network, stream, sendAll, off, remaining, receiver>>

\* Mutant: pread without its offset.
PreadAtStart(n) ==
    /\ platform = "other" /\ pc = "fd" /\ n <= Least(Want(Buf), fsize - offset)
    /\ pc' = "all"
    /\ from' = base /\ p' = 0 /\ len' = n
    /\ UNCHANGED <<network, stream, call, base, sendFd, receiver>>

\* Elsewhere: read a buffer, then SendAll it.
Pread(n) ==
    /\ platform = "other" /\ pc = "fd" /\ n <= Least(Want(Buf), fsize - offset)
    /\ pc' = "all"
    /\ from' = base + offset /\ p' = 0 /\ len' = n
    /\ UNCHANGED <<network, stream, call, base, sendFd, receiver>>

PreadFails ==
    /\ platform = "other" /\ pc = "fd" /\ remaining > 0 /\ offset >= fsize
    /\ Fail /\ UNCHANGED <<stream, off, offset>>

BufferSent ==
    /\ pc = "all" /\ p = len /\ Current.via = "fd"
    /\ pc' = "fd"
    /\ offset' = offset + len /\ remaining' = remaining - len
    /\ UNCHANGED <<network, stream, call, base, sendAll, off, receiver>>

\* sendfile or pread cannot read the file, whatever the connection does: it
\* may happen at any call, and nothing makes it happen.
ReadError ==
    \/ AppleFails
    \/ /\ platform # "apple" /\ pc = "fd" /\ remaining > 0
       /\ offset' = IF platform = "linux" THEN off ELSE offset
       /\ Fail /\ UNCHANGED <<stream, off>>

FallbackReturns ==
    /\ platform = "other" /\ pc = "fd" /\ remaining = 0
    /\ NextCall
    /\ UNCHANGED <<network, stream, sendAll, sendFd, receiver>>

SenderStep ==
    \/ StartSendAll \/ StartSendFromFd \/ Finish
    \/ SendFails \/ SendAllReturns
    \/ LinuxFails \/ AppleAsksAgain \/ (conn = "broken" /\ AppleFails) \/ SendfileReturns
    \/ PreadFails \/ BufferSent \/ FallbackReturns
    \/ \E n \in 1..Cap : Send(n) \/ Sendfile(n)
    \/ \E n \in 1..Buf : Pread(n)

-----------------------------------------------------------------------------
(* RecvAll. *)

\* Mutant: the buffer pointer is not advanced.
RecvAtStart(n) ==
    /\ rpc = "recv" /\ n <= Least(Units[unit] - rp, Len(stream) - taken)
    /\ buf' = [k \in DOMAIN buf |-> IF k \in 1..n THEN stream[taken + k] ELSE buf[k]]
    /\ rp' = rp + n /\ taken' = taken + n
    /\ UNCHANGED <<rpc, unit>>

\* One recv(2) returns n bytes.
Recv(n) ==
    /\ rpc = "recv" /\ n <= Least(Units[unit] - rp, Len(stream) - taken)
    /\ buf' = [k \in DOMAIN buf |-> IF k \in rp + 1 .. rp + n THEN stream[taken + k - rp] ELSE buf[k]]
    /\ rp' = rp + n /\ taken' = taken + n
    /\ UNCHANGED <<rpc, unit>>

\* The caller takes the buffer and asks for the next unit.
RecvAllReturns ==
    /\ rpc = "recv" /\ rp = Units[unit]
    /\ unit' = unit + 1
    /\ rpc' = IF unit = Len(Units) THEN "done" ELSE "recv"
    /\ rp' = 0
    /\ buf' = IF unit = Len(Units) THEN <<>> ELSE [k \in 1..Units[unit + 1] |-> 0]
    /\ UNCHANGED taken

\* Mutant: nothing to read yet is taken for the end.
NothingYet ==
    /\ rpc = "recv" /\ rp < Units[unit] /\ taken = Len(stream)
    /\ rpc' = "failed"
    /\ UNCHANGED <<unit, buf, rp, taken>>

\* recv(2) fails, or returns 0 after the peer closed.
RecvFails ==
    /\ rpc = "recv" /\ rp < Units[unit]
    /\ conn = "broken" \/ (pc \in {"done", "failed"} /\ taken = Len(stream))
    /\ rpc' = "failed"
    /\ UNCHANGED <<unit, buf, rp, taken>>

ReceiverStep ==
    /\ RecvAllReturns \/ RecvFails \/ (\E n \in 1..Cap : Recv(n))
    /\ UNCHANGED <<network, stream, pc, call, base, sendAll, sendFd>>

\* The connection is reset.
Break ==
    /\ conn = "up" /\ conn' = "broken"
    /\ UNCHANGED <<platform, fsize, stream, pc, call, base, sendAll, sendFd, receiver>>

Init ==
    /\ platform \in Platforms /\ fsize \in Files
    /\ stream = <<>> /\ taken = 0 /\ conn = "up"
    /\ pc = "next" /\ call = 1 /\ base = 0
    /\ from = 0 /\ p = 0 /\ len = 0
    /\ off = 0 /\ offset = 0 /\ remaining = 0
    /\ rpc = "recv" /\ unit = 1 /\ rp = 0
    /\ buf = [k \in 1..Units[1] |-> 0]

Next == SenderStep \/ ReadError \/ ReceiverStep \/ Break

Spec == Init /\ [][Next]_vars
FairSpec == Spec /\ WF_vars(SenderStep) /\ WF_vars(ReceiverStep)

-----------------------------------------------------------------------------
(* Properties. *)

TypeOK ==
    /\ platform \in Platforms /\ fsize \in Files /\ conn \in {"up", "broken"}
    /\ stream \in Seq(Nat) /\ taken \in 0..Len(stream)
    /\ pc \in {"next", "all", "fd", "done", "failed"}
    /\ call \in 1..Len(Calls) + 1 /\ base \in Nat
    /\ from \in Nat /\ len \in Nat /\ p \in 0..len
    /\ off \in 0..fsize /\ offset \in 0..fsize /\ remaining \in Nat
    /\ pc = "fd" => remaining <= Current.len
    /\ pc = "all" /\ Current.via = "fd" => len <= remaining
    /\ rpc \in {"recv", "done", "failed"} /\ unit \in 1..Len(Units) + 1

\* However the kernel cuts sends, sendfiles and preads, and wherever a call
\* fails, what is on the connection is the beginning of what was to be sent.
NothingLostOrRepeated == \A k \in 1..Len(stream) : stream[k] = k

\* A call that returned true pushed every byte it was asked to, no more.
TrueMeansAll == pc \in {"next", "done"} => Len(stream) = base

\* The bytes of the first u units.
UnitEnd[u \in 0..Len(Units)] == IF u = 0 THEN 0 ELSE UnitEnd[u - 1] + Units[u]

\* The units that are complete in the first n bytes.
Complete(n) == {u \in 1..Len(Units) : UnitEnd[u] <= n}

\* When RecvAll returns true, its buffer holds the bytes asked for, in order.
BufferIsWhole ==
    rpc = "recv" /\ rp = Units[unit] =>
        \A k \in 1..rp : buf[k] = UnitEnd[unit - 1] + k

\* What the loops promise together: items arrive whole and in order, and a
\* RecvAll fails only when the item it waits for will never be complete.
Items == INSTANCE ItemChannel WITH
    pushed <- Cardinality(Complete(Len(stream))),
    taken <- Cardinality(Complete(taken)),
    closed <- pc \in {"done", "failed"},
    broken <- conn = "broken",
    failed <- rpc = "failed"
ImplementsItems == Items!Spec

\* When SendFromFd fails, the offset it hands back is never ahead of what was
\* pushed, so a caller who resumes there loses nothing.  With sendfile64 it is
\* exact; elsewhere the part of a buffer, or of a last sendfile, is not in it.
OffsetTracks ==
    pc = "failed" /\ Current.via = "fd" =>
        /\ offset <= Len(stream) - base
        /\ platform = "linux" => offset = Len(stream) - base

\* Every call of SendAll and SendFromFd comes to its end: it returns true and
\* the next one begins, or it fails; the partial operations inside a call do not
\* count.  The exception is a call that cannot end, and Spins is just that: on
\* macOS SendFromFd asks for ever for bytes behind the end of the file.
CallReturns ==
    \A c \in DOMAIN Calls : (call = c) ~> (call > c \/ pc = "failed" \/ Spins)
=============================================================================
