----------------------------- MODULE ByteProofs -----------------------------
(***************************************************************************)
(* What SendAll and SendFromFd push is the beginning of what was to be     *)
(* sent, whatever the kernel does, and RecvAll cuts it into the units it   *)
(* was asked for: proofs about module ByteStream.                          *)
(***************************************************************************)
EXTENDS ByteStream, Induction, FiniteSetTheorems, SequenceTheorems, TLAPS

\* Where a call stands, told from the number of bytes pushed.
InSendAll ==
    /\ call \in 1..Len(Calls)
    /\ from + p = Len(stream)
    /\ Current.via = "all" => from = base /\ len = Current.len
    /\ Current.via = "fd" => /\ platform = "other"
                             /\ from = base + offset
                             /\ len <= remaining
                             /\ offset + len <= fsize
                             /\ offset + remaining = Current.len

InSendFromFd ==
    /\ call \in 1..Len(Calls)
    /\ Current.via = "fd"
    /\ platform = "other" => base + offset = Len(stream) /\ offset + remaining = Current.len
    /\ platform # "other" => base + off = Len(stream) /\ off + remaining = Current.len

\* The variables of the sender have their types.
SenderTypeOK ==
    /\ platform \in {"linux", "apple", "other"}
    /\ stream \in Seq(Nat) /\ taken \in Nat /\ fsize \in Nat
    /\ pc \in {"next", "all", "fd", "done", "failed"}
    /\ call \in 1..Len(Calls) + 1 /\ base \in Nat
    /\ from \in Nat /\ len \in Nat /\ p \in 0..len
    /\ off \in Nat /\ offset \in Nat /\ remaining \in Nat
    /\ off <= fsize /\ offset <= fsize

InOrder == \A k \in 1..Len(stream) : stream[k] = k

Inv ==
    /\ SenderTypeOK
    /\ InOrder
    /\ pc \in {"next", "done"} => Len(stream) = base
    /\ pc = "all" => InSendAll
    /\ pc = "fd" => InSendFromFd
    /\ pc = "failed" /\ Current.via = "fd" =>
          /\ offset <= Len(stream) - base
          /\ platform = "linux" => offset = Len(stream) - base

-----------------------------------------------------------------------------

\* Appending the n bytes that come next keeps a sequence of bytes in order.
LEMMA PushInOrder ==
    ASSUME NEW s \in Seq(Nat), NEW n \in Nat, \A k \in 1..Len(s) : s[k] = k
    PROVE  LET t == s \o Bytes(Len(s), n)
           IN t \in Seq(Nat) /\ Len(t) = Len(s) + n /\ \A k \in 1..Len(t) : t[k] = k
<1> DEFINE b == Bytes(Len(s), n)
<1>1. b \in Seq(Nat) /\ Len(b) = n
  BY DEF Bytes
<1>2. \A k \in 1..n : b[k] = Len(s) + k
  BY DEF Bytes
<1> HIDE DEF b
<1> DEFINE t == s \o b
<1>3. t \in Seq(Nat) /\ Len(t) = Len(s) + n
  BY <1>1, ConcatProperties
<1>4. ASSUME NEW k \in 1..Len(t) PROVE t[k] = k
  <2>1. CASE k <= Len(s)
    BY <1>1, <1>3, <2>1, ConcatProperties
  <2>2. CASE k > Len(s)
    <3>1. k - Len(s) \in 1..n /\ t[k] = b[k - Len(s)]
      BY <1>1, <1>3, <2>2, ConcatProperties
    <3> QED
      BY <1>2, <3>1
  <2> QED
    BY <2>1, <2>2, <1>3
<1> QED
  BY <1>3, <1>4 DEF b

\* The current call is one of Calls.
LEMMA CallType ==
    ASSUME call \in 1..Len(Calls)
    PROVE  Current.via \in {"all", "fd"} /\ Current.len \in Nat
<1>1. Calls[call] \in [via : {"all", "fd"}, len : Nat]
  BY ElementOfSeq, ByteStreamAssumption DEF ByteStreamAssumption
<1> QED
  BY <1>1 DEF Current

\* A part of what was asked for is no more than any of its limits.
LEMMA AtMostLeast ==
    ASSUME NEW n \in Int, NEW a \in Int, NEW b \in Int, n <= Least(a, b)
    PROVE  n <= a /\ n <= b
BY DEF Least

LEMMA Limits == Chunk \in Nat /\ Buf \in Nat /\ Cap \in Nat
BY ByteStreamAssumption DEF ByteStreamAssumption

LEMMA Wanted ==
    ASSUME SenderTypeOK, NEW n \in Int, NEW most \in Nat, NEW left \in Int,
           n <= Least(Want(most), left)
    PROVE  n <= remaining /\ n <= left
<1>1. Want(most) \in Int /\ Want(most) <= remaining
  BY DEF Want, Least, SenderTypeOK
<1>2. n <= Want(most) /\ n <= left
  BY <1>1, AtMostLeast
<1> QED
  BY <1>1, <1>2 DEF SenderTypeOK

LEMMA Initially == Init => Inv
<1> SUFFICES ASSUME Init PROVE Inv
  OBVIOUS
<1>1. SenderTypeOK
  BY ByteStreamAssumption DEF ByteStreamAssumption, Init, SenderTypeOK
<1> QED
  BY <1>1 DEF Init, Inv, InOrder

\* Neither the receiver nor the network touches what the sender relies on.
LEMMA OthersPreserve ==
    ASSUME Inv,
           UNCHANGED <<platform, fsize, stream, pc, call, base, sendAll, sendFd>>,
           taken' \in Nat
    PROVE  Inv'
<1> USE DEF sendAll, sendFd
<1>1. SenderTypeOK' /\ InOrder'
  BY DEF Inv, SenderTypeOK, InOrder
<1> QED
  BY <1>1 DEF Inv, InSendAll, InSendFromFd, Current

LEMMA StartsPreserve ==
    ASSUME Inv, StartSendAll \/ StartSendFromFd \/ Finish
    PROVE  Inv'
<1> USE DEF sendAll, sendFd, network, receiver
<1>1. CASE StartSendAll
  <2>1. call \in 1..Len(Calls) /\ Current.len \in Nat
    BY <1>1, CallType DEF StartSendAll, Inv, SenderTypeOK
  <2> QED
    BY <1>1, <2>1 DEF StartSendAll, Inv, SenderTypeOK, InOrder, InSendAll, InSendFromFd, Current
<1>2. CASE StartSendFromFd
  <2>1. call \in 1..Len(Calls) /\ Current.len \in Nat
    BY <1>2, CallType DEF StartSendFromFd, Inv, SenderTypeOK
  <2> QED
    BY <1>2, <2>1 DEF StartSendFromFd, Inv, SenderTypeOK, InOrder, InSendAll, InSendFromFd, Current
<1>3. CASE Finish
  BY <1>3 DEF Finish, Inv, SenderTypeOK, InOrder, InSendAll, InSendFromFd
<1> QED
  BY <1>1, <1>2, <1>3

\* A send or a sendfile of any part of what is asked for.
LEMMA MovesPreserve ==
    ASSUME Inv, NEW n \in Nat \ {0}, Send(n) \/ Sendfile(n)
    PROVE  Inv'
<1> USE DEF sendAll, sendFd, network, receiver
<1>1. CASE Send(n)
  <2>0. stream' = stream \o Bytes(from + p, n)
    BY <1>1 DEF Send
  <2>1. /\ pc = "all" /\ n <= len - p /\ pc' = pc
        /\ p' = p + n
        /\ UNCHANGED <<platform, fsize, taken, call, base, from, len, off, offset, remaining>>
    BY <1>1, ByteStreamAssumption DEF ByteStreamAssumption, Send, Least, Room, Inv, SenderTypeOK
  <2>2. InSendAll /\ from + p = Len(stream)
    BY <2>1 DEF Inv, InSendAll
  <2>3. stream' \in Seq(Nat) /\ InOrder' /\ Len(stream') = Len(stream) + n
    BY <2>0, <2>2, PushInOrder DEF Inv, InOrder, SenderTypeOK
  <2>4. SenderTypeOK'
    BY <2>1, <2>3 DEF Inv, SenderTypeOK
  <2>5. /\ base \in Nat /\ from \in Nat /\ p \in Nat /\ len \in Nat /\ off \in Nat
        /\ offset \in Nat /\ remaining \in Nat /\ Len(stream) \in Nat
    BY DEF Inv, SenderTypeOK
  <2>6. InSendAll'
    <3>1. from + (p + n) = Len(stream) + n
      BY <2>2, <2>5
    <3>2. from' + p' = Len(stream')
      BY <2>1, <2>3, <3>1
    <3> QED
      BY <2>1, <2>2, <3>2 DEF InSendAll, Current
  <2> QED
    BY <2>1, <2>3, <2>4, <2>6 DEF Inv
<1>2. CASE Sendfile(n)
  <2>0. stream' = stream \o Bytes(base + off, n)
    BY <1>2 DEF Sendfile
  <2>1. /\ pc = "fd" /\ n <= remaining /\ n <= fsize - off /\ pc' = pc /\ platform # "other"
        /\ off' = off + n /\ remaining' = remaining - n
        /\ UNCHANGED <<platform, fsize, taken, call, base, from, p, len, offset>>
    <3>1. n \in Int /\ fsize - off \in Int /\ n <= Least(Want(Chunk), fsize - off)
      BY <1>2 DEF Sendfile, Native, Inv, SenderTypeOK
    <3>2. n <= remaining /\ n <= fsize - off
      BY <3>1, Limits, Wanted DEF Inv
    <3> QED
      BY <1>2, <3>2 DEF Sendfile, Native
  <2>2. InSendFromFd /\ base + off = Len(stream)
    BY <2>1 DEF Inv, InSendFromFd
  <2>3. stream' \in Seq(Nat) /\ InOrder' /\ Len(stream') = Len(stream) + n
    BY <2>0, <2>2, PushInOrder DEF Inv, InOrder, SenderTypeOK
  <2>4. SenderTypeOK'
    <3>1. off + n <= fsize /\ off + n \in Nat /\ remaining - n \in Nat
      BY <2>1 DEF Inv, SenderTypeOK
    <3> QED
      BY <2>1, <2>3, <3>1 DEF Inv, SenderTypeOK
  <2>5. /\ base \in Nat /\ from \in Nat /\ p \in Nat /\ len \in Nat /\ off \in Nat
        /\ offset \in Nat /\ remaining \in Nat /\ Len(stream) \in Nat
    BY DEF Inv, SenderTypeOK
  <2>6. InSendFromFd'
    <3>1. base + (off + n) = Len(stream) + n /\ (off + n) + (remaining - n) = off + remaining
      BY <2>2, <2>5
    <3>2. base' + off' = Len(stream') /\ off' + remaining' = off + remaining
      BY <2>1, <2>3, <3>1
    <3> QED
      BY <2>1, <2>2, <3>2 DEF InSendFromFd, Current
  <2> QED
    BY <2>1, <2>3, <2>4, <2>6 DEF Inv
<1> QED
  BY <1>1, <1>2

LEMMA FailuresPreserve ==
    ASSUME Inv, SendFails \/ LinuxFails \/ PreadFails \/ ReadError \/ AppleFails
    PROVE  Inv'
<1> USE DEF sendAll, sendFd, network, receiver, Fail
<1>1. CASE SendFails
  <2>1. Current.via = "fd" => platform = "other" /\ offset <= Len(stream) - base
    BY <1>1 DEF SendFails, Inv, InSendAll, SenderTypeOK
  <2> QED
    BY <1>1 DEF SendFails, Inv, SenderTypeOK, InOrder, InSendAll, InSendFromFd, Current
<1>2. CASE LinuxFails
  <2>1. InSendFromFd /\ platform = "linux"
    BY <1>2 DEF LinuxFails, Inv
  <2> QED
    BY <1>2, <2>1 DEF LinuxFails, Inv, SenderTypeOK, InOrder, InSendAll, InSendFromFd, Current
<1>3. CASE PreadFails
  BY <1>3 DEF PreadFails, Inv, SenderTypeOK, InOrder, InSendAll, InSendFromFd, Current
<1>4. CASE AppleFails
  <2>1. PICK n \in 0..remaining : stream' = stream \o Bytes(base + off, n)
    BY <1>4 DEF AppleFails
  <2>2. InSendFromFd /\ base + off = Len(stream) /\ n \in Nat
    BY <1>4, <2>1 DEF AppleFails, Inv, InSendFromFd, SenderTypeOK
  <2>3. stream' \in Seq(Nat) /\ InOrder' /\ Len(stream') = Len(stream) + n
    BY <2>1, <2>2, PushInOrder DEF Inv, InOrder, SenderTypeOK
  <2>4. off <= Len(stream') - base
    BY <2>2, <2>3 DEF Inv, SenderTypeOK
  <2>5. pc' = "failed" /\ platform = "apple" /\ offset' = off
        /\ UNCHANGED <<platform, fsize, taken, call, base, from, p, len, off, remaining>>
    BY <1>4 DEF AppleFails
  <2>6. SenderTypeOK'
    BY <2>3, <2>5 DEF Inv, SenderTypeOK
  <2> QED
    BY <2>3, <2>4, <2>5, <2>6 DEF Inv, Current
<1>5. CASE ReadError /\ platform # "apple"
  <2>1. pc = "fd" /\ InSendFromFd
    BY <1>5 DEF ReadError, AppleFails, Inv
  <2>2. /\ offset' = IF platform = "linux" THEN off ELSE offset
        /\ pc' = "failed"
        /\ UNCHANGED <<platform, fsize, stream, taken, call, base, from, p, len, off, remaining>>
    BY <1>5 DEF ReadError, AppleFails
  <2>3. SenderTypeOK'
    BY <2>2 DEF Inv, SenderTypeOK
  <2>4. platform \in {"linux", "other"} /\ offset' = Len(stream) - base
    BY <1>5, <2>1, <2>2 DEF Inv, SenderTypeOK, InSendFromFd
  <2>5. Len(stream) - base \in Int
    BY DEF Inv, SenderTypeOK
  <2> QED
    BY <2>2, <2>3, <2>4, <2>5 DEF Inv, InOrder, Current
<1> QED
  BY <1>1, <1>2, <1>3, <1>4, <1>5 DEF ReadError

LEMMA ReturnsPreserve ==
    ASSUME Inv, SendAllReturns \/ SendfileReturns \/ FallbackReturns
    PROVE  Inv'
<1> USE DEF sendAll, sendFd, network, receiver, NextCall
<1>1. call \in 1..Len(Calls) /\ pc' = "next"
  BY DEF SendAllReturns, SendfileReturns, FallbackReturns, Inv, InSendAll, InSendFromFd
<1>a. Current.len \in Nat
  BY <1>1, CallType
<1>2. /\ stream' = stream /\ platform' = platform
      /\ call' = call + 1 /\ base' = base + Current.len
  BY DEF SendAllReturns, SendfileReturns, FallbackReturns
<1>3. Len(stream) = base + Current.len
  <2>1. CASE SendAllReturns
    BY <1>a, <2>1 DEF SendAllReturns, Inv, InSendAll, SenderTypeOK
  <2>2. CASE SendfileReturns
    BY <1>a, <2>2 DEF SendfileReturns, Inv, InSendFromFd, SenderTypeOK
  <2>3. CASE FallbackReturns
    BY <1>a, <2>3 DEF FallbackReturns, Inv, InSendFromFd, SenderTypeOK
  <2> QED
    BY <2>1, <2>2, <2>3
<1>4. /\ offset' \in Nat /\ offset' <= fsize
      /\ UNCHANGED <<fsize, taken, from, p, len, off, remaining>>
  BY DEF SendAllReturns, SendfileReturns, FallbackReturns, Inv, SenderTypeOK
<1>5. SenderTypeOK'
  BY <1>1, <1>a, <1>2, <1>4 DEF Inv, SenderTypeOK
<1> QED
  BY <1>1, <1>2, <1>3, <1>5 DEF Inv, InOrder

LEMMA FallbackPreserves ==
    ASSUME Inv, BufferSent \/ (\E n \in 1..Buf : Pread(n))
    PROVE  Inv'
<1> USE DEF sendAll, sendFd, network, receiver
<1>1. CASE BufferSent
  <2>1. InSendAll /\ p = len /\ Current.via = "fd"
    BY <1>1 DEF BufferSent, Inv
  <2>2. /\ pc' = "fd" /\ offset' = offset + len /\ remaining' = remaining - len
        /\ UNCHANGED <<platform, fsize, stream, taken, call, base, from, p, len, off>>
    BY <1>1 DEF BufferSent
  <2>3. SenderTypeOK /\ from + p = Len(stream) /\ from = base + offset /\ platform = "other"
        /\ len <= remaining /\ offset + remaining = Current.len /\ offset + len <= fsize
    BY <2>1 DEF Inv, InSendAll
  <2>4. SenderTypeOK'
    <3>1. offset + len \in Nat /\ remaining - len \in Nat
      BY <2>3 DEF SenderTypeOK
    <3> QED
      BY <2>2, <2>3, <3>1 DEF SenderTypeOK
  <2>5. InSendFromFd'
    <3>1. base + (offset + len) = Len(stream) /\ (offset + len) + (remaining - len) = Current.len
      BY <2>1, <2>3 DEF SenderTypeOK
    <3> QED
      BY <2>1, <2>2, <2>3, <3>1 DEF InSendFromFd, InSendAll, Current
  <2> QED
    BY <2>2, <2>4, <2>5 DEF Inv, InOrder
<1>2. ASSUME NEW n \in 1..Buf, Pread(n) PROVE Inv'
  <2>1. InSendFromFd /\ n \in Nat /\ n <= remaining /\ offset + n <= fsize
    <3>1. n \in Nat /\ fsize - offset \in Int /\ n <= Least(Want(Buf), fsize - offset)
      BY <1>2, Limits DEF Pread, Inv, SenderTypeOK
    <3>2. n <= remaining /\ n <= fsize - offset
      BY <3>1, Limits, Wanted DEF Inv
    <3>3. offset + n <= fsize
      BY <3>1, <3>2 DEF Inv, SenderTypeOK
    <3> QED
      BY <1>2, <3>1, <3>2, <3>3 DEF Pread, Inv
  <2> QED
    BY <1>2, <2>1 DEF Pread, Inv, SenderTypeOK, InOrder, InSendAll, InSendFromFd, Current
<1> QED
  BY <1>1, <1>2

LEMMA Preserved == Inv /\ [Next]_vars => Inv'
<1> SUFFICES ASSUME Inv, [Next]_vars PROVE Inv'
  OBVIOUS
<1>1. CASE UNCHANGED vars
  BY <1>1, OthersPreserve DEF vars, network, receiver, Inv, SenderTypeOK
<1>2. CASE SenderStep
  <2>1. CASE AppleAsksAgain
    BY <2>1, OthersPreserve DEF AppleAsksAgain, vars, network, receiver, Inv, SenderTypeOK
  <2>2. ASSUME NEW n \in 1..Cap, Send(n) \/ Sendfile(n) PROVE Inv'
    <3>1. n \in Nat \ {0}
      BY ByteStreamAssumption DEF ByteStreamAssumption
    <3> QED
      BY <2>2, <3>1, MovesPreserve
  <2> QED
    BY <1>2, <2>1, <2>2, StartsPreserve, FailuresPreserve, ReturnsPreserve, FallbackPreserves
       DEF SenderStep
<1>3. CASE ReceiverStep
  <2>0. taken \in Nat
    BY DEF Inv, SenderTypeOK
  <2>2. ASSUME NEW n \in 1..Cap, Recv(n) PROVE taken' \in Nat
    BY <2>0, <2>2, Limits DEF Recv
  <2>3. taken' \in Nat
    BY <1>3, <2>0, <2>2 DEF ReceiverStep, RecvAllReturns, RecvFails
  <2> QED
    BY <1>3, <2>3, OthersPreserve DEF ReceiverStep, network
<1>4. CASE Break
  BY <1>4, OthersPreserve DEF Break, receiver, Inv, SenderTypeOK
<1>5. CASE ReadError
  BY <1>5, FailuresPreserve
<1> QED
  BY <1>1, <1>2, <1>3, <1>4, <1>5 DEF Next

-----------------------------------------------------------------------------

\* Any number of calls of any lengths, cut and failing anywhere: the bytes on
\* the connection are the bytes to be sent, from the first one on, in order.
THEOREM AlwaysInOrder == Spec => []NothingLostOrRepeated
<1>1. Inv => NothingLostOrRepeated
  BY DEF Inv, InOrder, NothingLostOrRepeated
<1> QED
  BY <1>1, Initially, Preserved, PTL DEF Spec

\* A call that returns true has pushed what it was asked to, on every platform.
THEOREM TrueIsComplete == Spec => []TrueMeansAll
<1>1. Inv => TrueMeansAll
  BY DEF Inv, TrueMeansAll
<1> QED
  BY <1>1, Initially, Preserved, PTL DEF Spec

\* The offset a failed SendFromFd leaves is never ahead of the bytes it pushed,
\* and with sendfile64 it counts them exactly.
THEOREM OffsetNeverAhead == Spec => []OffsetTracks
<1>1. Inv => OffsetTracks
  BY DEF Inv, OffsetTracks
<1> QED
  BY <1>1, Initially, Preserved, PTL DEF Spec

-----------------------------------------------------------------------------
(* The receiver. *)

\* The ends of the units: a recursive definition, and what it says.
LEMMA UnitEndRec ==
    /\ DOMAIN UnitEnd = 0..Len(Units)
    /\ UnitEnd[0] = 0
    /\ \A u \in 1..Len(Units) : UnitEnd[u] = UnitEnd[u - 1] + Units[u]
    /\ \A u \in 0..Len(Units) : UnitEnd[u] \in Nat
<1> DEFINE step == [u \in 1..Len(Units) |-> [end \in Nat |-> end + Units[u]]]
<1>1. Len(Units) \in Nat /\ \A u \in 1..Len(Units) : Units[u] \in Nat
  BY ByteStreamAssumption DEF ByteStreamAssumption
<1>2. step \in [1..Len(Units) -> [Nat -> Nat]] /\ 0 \in Nat
  BY <1>1
<1>3. \A u \in 1..Len(Units), end \in Nat : step[u][end] = end + Units[u]
  OBVIOUS
<1> HIDE DEF step
<1>4. PICK f : Unfolds(f, Len(Units), 0, step)
  BY <1>1, <1>2, Recursion
<1>5. \A u \in 0..Len(Units) : f[u] \in Nat
  BY <1>1, <1>2, <1>4, RecursionType
<1>6. \A u \in 1..Len(Units) : f[u] = f[u - 1] + Units[u]
  <2> SUFFICES ASSUME NEW u \in 1..Len(Units) PROVE f[u] = f[u - 1] + Units[u]
    OBVIOUS
  <2>1. u - 1 \in 0..Len(Units)
    BY <1>1
  <2> QED
    BY <2>1, <1>3, <1>4, <1>5 DEF Unfolds
<1>7. f = [u \in 0..Len(Units) |-> IF u = 0 THEN 0 ELSE f[u - 1] + Units[u]]
  <2>1. f = [u \in 0..Len(Units) |-> f[u]]
    BY <1>4 DEF Unfolds
  <2>2. f[0] = 0
    BY <1>4 DEF Unfolds
  <2>3. \A u \in 0..Len(Units) : f[u] = IF u = 0 THEN 0 ELSE f[u - 1] + Units[u]
    BY <1>1, <1>6, <2>2
  <2> QED
    BY <2>1, <2>3
<1>8. UnitEnd = [u \in 0..Len(Units) |-> IF u = 0 THEN 0 ELSE UnitEnd[u - 1] + Units[u]]
  BY <1>7 DEF UnitEnd
<1>9. /\ DOMAIN UnitEnd = 0..Len(Units)
      /\ UnitEnd[0] = 0
      /\ \A u \in 1..Len(Units) : UnitEnd[u] = UnitEnd[u - 1] + Units[u]
  BY <1>1, <1>8
<1> DEFINE S == {u \in 0..Len(Units) : UnitEnd[u] \in Nat}
<1>10. 0 \in S
  BY <1>1, <1>9
<1>11. ASSUME NEW u \in 1..Len(Units), u - 1 \in S PROVE u \in S
  BY <1>1, <1>9, <1>11
<1> HIDE DEF S
<1>12. 0..Len(Units) \subseteq S
  BY <1>1, <1>10, <1>11, InductUpTo
<1> QED
  BY <1>9, <1>12 DEF S

\* Where the receiver stands, told from the number of bytes taken.
RecvInv ==
    /\ rpc \in {"recv", "done", "failed"} /\ unit \in 1..Len(Units) + 1
    /\ rpc # "done" => /\ unit <= Len(Units)
                       /\ rp \in 0..Units[unit]
                       /\ DOMAIN buf = 1..Units[unit]
                       /\ \A k \in 1..rp : buf[k] = UnitEnd[unit - 1] + k
    /\ rp \in Nat
    /\ taken = UnitEnd[unit - 1] + rp /\ taken <= Len(stream)
    /\ conn \in {"up", "broken"} /\ platform \in Platforms /\ fsize \in Files

LEMMA UnitType ==
    ASSUME NEW u \in 1..Len(Units)
    PROVE  /\ Units[u] \in Nat \ {0} /\ u - 1 \in 0..Len(Units)
           /\ UnitEnd[u - 1] \in Nat /\ UnitEnd[u] \in Nat
           /\ UnitEnd[u] = UnitEnd[u - 1] + Units[u]
<1>1. Units[u] \in Nat \ {0} /\ Len(Units) \in Nat
  BY ByteStreamAssumption DEF ByteStreamAssumption
<1> QED
  BY <1>1, UnitEndRec

LEMMA RecvInitially == Init => RecvInv
<1> SUFFICES ASSUME Init PROVE RecvInv
  OBVIOUS
<1>1. 1 \in 1..Len(Units)
  BY ByteStreamAssumption DEF ByteStreamAssumption
<1>2. Len(stream) = 0 /\ UnitEnd[1 - 1] = 0
  BY UnitEndRec DEF Init
<1> QED
  BY <1>1, <1>2, UnitType DEF Init, RecvInv

\* One recv fills the next part of the buffer with the bytes that come next.
LEMMA RecvPreserves ==
    ASSUME Inv, RecvInv, NEW n \in Nat \ {0}, Recv(n),
           UNCHANGED <<platform, fsize, conn, stream>>
    PROVE  RecvInv'
<1>1. rpc = "recv" /\ unit \in 1..Len(Units)
  BY DEF Recv, RecvInv
<1>2. /\ Units[unit] \in Nat /\ UnitEnd[unit - 1] \in Nat /\ Len(stream) \in Nat
      /\ taken \in Nat /\ rp \in Nat /\ taken = UnitEnd[unit - 1] + rp
  BY <1>1, UnitType DEF RecvInv, Inv, SenderTypeOK
<1>3. n <= Units[unit] - rp /\ n <= Len(stream) - taken
  BY <1>2, AtMostLeast, SMTT(30) DEF Recv
<1>4. rp' = rp + n /\ taken' = taken + n /\ unit' = unit /\ rpc' = rpc /\ stream' = stream
  BY DEF Recv
<1>5. DOMAIN buf' = 1..Units[unit]
  BY <1>1 DEF Recv, RecvInv
<1>a. DOMAIN buf = 1..Units[unit] /\ \A k \in 1..rp : buf[k] = UnitEnd[unit - 1] + k
  BY <1>1 DEF RecvInv
<1>6. ASSUME NEW k \in 1..rp + n PROVE buf'[k] = UnitEnd[unit - 1] + k
  <2>0. k \in 1..Units[unit]
    BY <1>2, <1>3
  <2>1. k \in DOMAIN buf
    BY <2>0, <1>a
  <2>2. buf'[k] = IF k \in rp + 1 .. rp + n THEN stream[taken + k - rp] ELSE buf[k]
    BY <2>1 DEF Recv
  <2>3. CASE k <= rp
    BY <1>2, <1>a, <2>2, <2>3
  <2>4. CASE k > rp
    <3>1. k \in rp + 1 .. rp + n /\ taken + k - rp \in 1..Len(stream)
      BY <1>2, <1>3, <2>4, SMTT(30)
    <3>2. stream[taken + k - rp] = taken + k - rp
      BY <3>1 DEF Inv, InOrder
    <3> QED
      BY <3>1, <3>2, <2>2, <1>2
  <2> QED
    BY <1>2, <2>3, <2>4
<1>7. rp' \in 0..Units[unit] /\ taken' = UnitEnd[unit - 1] + rp' /\ taken' <= Len(stream)
  <2>1. rp + n \in 0..Units[unit] /\ taken + n <= Len(stream)
    BY <1>2, <1>3, SMTT(30)
  <2>2. taken + n = UnitEnd[unit - 1] + (rp + n)
    BY <1>2
  <2> QED
    BY <1>4, <2>1, <2>2
<1>8. /\ rpc' = "recv" /\ unit' \in 1..Len(Units) + 1 /\ unit' <= Len(Units)
      /\ conn' \in {"up", "broken"} /\ platform' \in Platforms /\ fsize' \in Files
  <2>1. unit \in 1..Len(Units) + 1 /\ unit <= Len(Units)
    BY <1>1 DEF RecvInv
  <2> QED
    BY <1>1, <1>4, <2>1 DEF RecvInv
<1>9. /\ taken' = UnitEnd[unit' - 1] + rp' /\ taken' <= Len(stream') /\ rp' \in Nat
      /\ rp' \in 0..Units[unit'] /\ DOMAIN buf' = 1..Units[unit']
      /\ \A k \in 1..rp' : buf'[k] = UnitEnd[unit' - 1] + k
  <2>1. rp' \in Nat
    BY <1>2, <1>7
  <2> QED
    BY <2>1, <1>4, <1>5, <1>6, <1>7
<1> QED
  BY <1>8, <1>9 DEF RecvInv

\* The whole buffer taken, the next one starts where it ended.
LEMMA UnitPreserves ==
    ASSUME Inv, RecvInv, RecvAllReturns, UNCHANGED <<platform, fsize, conn, stream>>
    PROVE  RecvInv'
<1>1. rpc = "recv" /\ unit \in 1..Len(Units) /\ rp = Units[unit] /\ Len(Units) \in Nat
  BY ByteStreamAssumption DEF ByteStreamAssumption, RecvAllReturns, RecvInv
<1>2. unit' = unit + 1 /\ rp' = 0 /\ taken' = taken /\ unit' - 1 = unit
  BY <1>1 DEF RecvAllReturns
<1>3. taken' = UnitEnd[unit' - 1] + rp' /\ taken' <= Len(stream')
  BY <1>1, <1>2, UnitType DEF RecvInv
<1>4. CASE unit = Len(Units)
  BY <1>1, <1>2, <1>3, <1>4 DEF RecvAllReturns, RecvInv
<1>5. CASE unit # Len(Units)
  <2>1. unit + 1 \in 1..Len(Units) /\ rpc' = "recv" /\ buf' = [k \in 1..Units[unit + 1] |-> 0]
    BY <1>1, <1>5 DEF RecvAllReturns
  <2>2. Units[unit + 1] \in Nat
    BY <2>1, UnitType
  <2> QED
    BY <1>1, <1>2, <1>3, <2>1, <2>2 DEF RecvInv
<1> QED
  BY <1>4, <1>5

\* The sender only adds to what can be taken.
LEMMA StreamGrows ==
    ASSUME Inv, [Next]_vars
    PROVE  /\ Len(stream) \in Nat /\ Len(stream') \in Nat
           /\ Len(stream') >= Len(stream)
           /\ Len(stream') # Len(stream) => pc \in {"all", "fd"}
<1>1. stream \in Seq(Nat)
  BY DEF Inv, SenderTypeOK
<1>2. ASSUME NEW first \in Nat, NEW n \in Nat, stream' = stream \o Bytes(first, n)
      PROVE  Len(stream') = Len(stream) + n
  <2>1. Bytes(first, n) \in Seq(Nat) /\ Len(Bytes(first, n)) = n
    BY DEF Bytes
  <2> QED
    BY <1>1, <1>2, <2>1, ConcatProperties
<1>3. CASE UNCHANGED stream
  BY <1>1, <1>3
<1>4. ASSUME NEW n \in 1..Cap, Send(n) \/ Sendfile(n) PROVE Len(stream') = Len(stream) + n /\ n \in Nat
  <2>1. n \in Nat
    BY Limits
  <2>2. from + p \in Nat /\ base + off \in Nat
    BY DEF Inv, SenderTypeOK
  <2> QED
    BY <1>2, <1>4, <2>1, <2>2 DEF Send, Sendfile
<1>5. CASE AppleFails
  <2>1. PICK n \in 0..remaining : stream' = stream \o Bytes(base + off, n)
    BY <1>5 DEF AppleFails
  <2>2. n \in Nat /\ base + off \in Nat
    BY <2>1 DEF Inv, SenderTypeOK
  <2>3. Len(stream') = Len(stream) + n
    BY <1>2, <2>1, <2>2
  <2> QED
    BY <1>1, <1>5, <2>2, <2>3 DEF AppleFails
<1>6. \/ UNCHANGED stream
      \/ \E n \in 1..Cap : Send(n) \/ Sendfile(n)
      \/ AppleFails
  BY DEF Next, vars, SenderStep, ReadError, ReceiverStep, Break, StartSendAll, StartSendFromFd, Finish,
     SendFails, SendAllReturns, LinuxFails, AppleAsksAgain, SendfileReturns, PreadFails,
     BufferSent, FallbackReturns, Pread
<1>7. ASSUME NEW n \in 1..Cap, Send(n) \/ Sendfile(n) PROVE pc \in {"all", "fd"}
  BY <1>7 DEF Send, Sendfile, Native
<1> QED
  BY <1>1, <1>3, <1>4, <1>5, <1>6, <1>7

LEMMA RecvPreserved == Inv /\ RecvInv /\ [Next]_vars => RecvInv'
<1> SUFFICES ASSUME Inv, RecvInv, [Next]_vars PROVE RecvInv'
  OBVIOUS
<1>1. Len(stream) \in Nat /\ Len(stream') \in Nat /\ Len(stream') >= Len(stream)
  BY StreamGrows
<1>2. CASE UNCHANGED <<platform, fsize, receiver>> /\ conn' \in {"up", "broken"}
  <2>1. taken \in Nat /\ taken' = taken /\ taken' <= Len(stream')
    BY <1>1, <1>2 DEF RecvInv, Inv, SenderTypeOK, receiver
  <2> QED
    BY <1>2, <2>1 DEF RecvInv, receiver
<1>3. CASE SenderStep \/ ReadError
  BY <1>2, <1>3 DEF SenderStep, ReadError, StartSendAll, StartSendFromFd, Finish, SendFails, SendAllReturns,
     LinuxFails, AppleAsksAgain, AppleFails, SendfileReturns, PreadFails, BufferSent,
     FallbackReturns, Send, Sendfile, Pread, Fail, network, vars, RecvInv
<1>4. CASE ReceiverStep
  <2>1. UNCHANGED <<platform, fsize, conn, stream>>
    BY <1>4 DEF ReceiverStep, network
  <2>2. ASSUME NEW n \in 1..Cap, Recv(n) PROVE RecvInv'
    <3>1. n \in Nat \ {0}
      BY Limits
    <3> QED
      BY <2>1, <2>2, <3>1, RecvPreserves
  <2>3. CASE RecvFails
    BY <2>1, <2>3 DEF RecvFails, RecvInv
  <2> QED
    BY <1>4, <2>1, <2>2, <2>3, UnitPreserves DEF ReceiverStep
<1> QED
  BY <1>2, <1>3, <1>4 DEF Next, Break, vars, network, RecvInv

\* The variables have their types: no request is for more than is left of its
\* call, no offset is behind the end of the file, and the receiver's buffer
\* pointer, the unit it reads and the bytes it took stay in range, however the
\* sender and the kernel cut the bytes.
THEOREM TypeCorrect == Spec => []TypeOK
<1>1. Inv /\ RecvInv => TypeOK
  <2> SUFFICES ASSUME Inv, RecvInv PROVE TypeOK
    OBVIOUS
  <2>1. taken \in 0..Len(stream) /\ off \in 0..fsize /\ offset \in 0..fsize
    BY DEF Inv, SenderTypeOK, RecvInv
  <2>2. pc = "fd" => remaining <= Current.len
    BY CallType DEF Inv, InSendFromFd, SenderTypeOK
  <2>3. pc = "all" /\ Current.via = "fd" => len <= remaining
    BY DEF Inv, InSendAll
  <2> QED
    BY <2>1, <2>2, <2>3 DEF Inv, SenderTypeOK, RecvInv, TypeOK
<1> QED
  BY <1>1, Initially, Preserved, RecvInitially, RecvPreserved, PTL DEF Spec

\* A RecvAll that returns true has filled its whole buffer with the bytes that
\* follow the units before it, in order, for any lengths and any cuts.
THEOREM BufferAlwaysWhole == Spec => []BufferIsWhole
<1>1. RecvInv => BufferIsWhole
  BY DEF RecvInv, BufferIsWhole
<1> QED
  BY <1>1, Initially, Preserved, RecvInitially, RecvPreserved, PTL DEF Spec

-----------------------------------------------------------------------------
(* Whole items: the refinement of ItemChannel. *)

LEMMA UnitEndGrows ==
    ASSUME NEW j \in 0..Len(Units), NEW i \in 0..j
    PROVE  UnitEnd[i] <= UnitEnd[j]
<1> DEFINE S == {u \in 0..Len(Units) : \A v \in 0..u : UnitEnd[v] <= UnitEnd[u]}
<1>0. Len(Units) \in Nat
  BY ByteStreamAssumption DEF ByteStreamAssumption
<1>1. 0 \in S
  BY <1>0, UnitEndRec
<1>2. ASSUME NEW u \in 1..Len(Units), u - 1 \in S PROVE u \in S
  <2>1. /\ UnitEnd[u] \in Nat /\ UnitEnd[u - 1] \in Nat
        /\ UnitEnd[u - 1] <= UnitEnd[u]
    BY UnitType
  <2>2. ASSUME NEW v \in 0..u PROVE UnitEnd[v] <= UnitEnd[u]
    <3>1. CASE v = u
      BY <2>1, <3>1
    <3>2. CASE v # u
      <4>1. v \in 0..u - 1 /\ v \in 0..Len(Units)
        BY <1>0, <3>2
      <4>2. UnitEnd[v] <= UnitEnd[u - 1] /\ UnitEnd[v] \in Nat
        BY <1>2, <4>1, UnitEndRec
      <4> QED
        BY <2>1, <4>2
    <3> QED
      BY <3>1, <3>2
  <2> QED
    BY <1>0, <2>2
<1> HIDE DEF S
<1>3. 0..Len(Units) \subseteq S
  BY <1>0, <1>1, <1>2, InductUpTo
<1> QED
  BY <1>3 DEF S

\* n bytes that end in unit j + 1 complete the units up to j.
LEMMA CompleteUpTo ==
    ASSUME NEW n \in Nat, NEW j \in 0..Len(Units), UnitEnd[j] <= n,
           j = Len(Units) \/ n < UnitEnd[j + 1]
    PROVE  Complete(n) = 1..j /\ Cardinality(Complete(n)) = j
<1>0. Len(Units) \in Nat /\ \A u \in 0..Len(Units) : UnitEnd[u] \in Nat
  BY ByteStreamAssumption, UnitEndRec DEF ByteStreamAssumption
<1>1. ASSUME NEW u \in 1..j PROVE u \in Complete(n)
  <2>1. u \in 0..j /\ u \in 1..Len(Units)
    BY <1>0
  <2>2. UnitEnd[u] <= UnitEnd[j] /\ UnitEnd[u] \in Nat /\ UnitEnd[j] \in Nat
    BY <1>0, <2>1, UnitEndGrows
  <2> QED
    BY <2>1, <2>2 DEF Complete
<1>2. ASSUME NEW u \in 1..Len(Units), UnitEnd[u] <= n PROVE u \in 1..j
  <2> SUFFICES ASSUME ~(u <= j) PROVE FALSE
    BY <1>0
  <2>1. j + 1 \in 0..u /\ j + 1 \in 0..Len(Units) /\ u \in 0..Len(Units) /\ n < UnitEnd[j + 1]
    BY <1>0
  <2>2. UnitEnd[j + 1] <= UnitEnd[u] /\ UnitEnd[u] \in Nat /\ UnitEnd[j + 1] \in Nat
    BY <1>0, <2>1, UnitEndGrows
  <2> QED
    BY <1>2, <2>1, <2>2
<1>3. Complete(n) = 1..j
  BY <1>1, <1>2 DEF Complete
<1>4. Cardinality(1..j) = j
  BY <1>0, FS_Interval
<1> QED
  BY <1>3, <1>4

LEMMA CompleteGrows ==
    ASSUME NEW m \in Nat, NEW n \in Nat, m <= n
    PROVE  /\ Cardinality(Complete(m)) \in Nat /\ Cardinality(Complete(n)) \in Nat
           /\ Cardinality(Complete(m)) <= Cardinality(Complete(n))
<1>1. IsFiniteSet(1..Len(Units))
  BY FS_Interval, ByteStreamAssumption DEF ByteStreamAssumption
<1>2. IsFiniteSet(Complete(n)) /\ IsFiniteSet(Complete(m))
  BY <1>1, FS_Subset DEF Complete
<1>3. Complete(m) \subseteq Complete(n)
  BY UnitEndRec DEF Complete
<1> QED
  BY <1>2, <1>3, FS_Subset, FS_CardinalityType

Pushed == Cardinality(Complete(Len(stream)))
Taken == Cardinality(Complete(taken))

\* One recv completes at most the unit it fills.
LEMMA RecvTakes ==
    ASSUME Inv, RecvInv, NEW n \in Nat \ {0}, Recv(n)
    PROVE  /\ Taken \in Nat /\ taken' <= Len(stream) /\ taken' \in Nat
           /\ Taken' = Taken \/ Taken' = Taken + 1
<1>1. rpc = "recv" /\ unit \in 1..Len(Units) /\ Len(Units) \in Nat
  BY ByteStreamAssumption DEF ByteStreamAssumption, Recv, RecvInv
<1>2. /\ Units[unit] \in Nat /\ UnitEnd[unit - 1] \in Nat /\ UnitEnd[unit] \in Nat
      /\ UnitEnd[unit] = UnitEnd[unit - 1] + Units[unit]
      /\ Len(stream) \in Nat /\ rp \in Nat /\ taken \in Nat /\ taken = UnitEnd[unit - 1] + rp
  BY <1>1, UnitType DEF RecvInv, Inv, SenderTypeOK
<1>3. n <= Units[unit] - rp /\ n <= Len(stream) - taken
  <2>1. n \in Int /\ Units[unit] - rp \in Int /\ Len(stream) - taken \in Int
    BY <1>2
  <2>2. n <= Least(Units[unit] - rp, Len(stream) - taken)
    BY DEF Recv
  <2> QED
    BY <2>1, <2>2, AtMostLeast
<1>4. taken' = taken + n
  BY DEF Recv
<1>5. /\ taken < UnitEnd[unit] /\ UnitEnd[unit - 1] <= taken
      /\ taken + n <= UnitEnd[unit] /\ UnitEnd[unit - 1] <= taken + n
      /\ taken + n <= Len(stream) /\ taken + n \in Nat
  <2>1. rp + n <= Units[unit] /\ rp < Units[unit]
    BY <1>2, <1>3
  <2>2. taken + n <= Len(stream) /\ taken + n \in Nat
    BY <1>2, <1>3, SMTT(30)
  <2> QED
    BY <1>2, <2>1, <2>2, SMTT(30)
<1>6. unit - 1 \in 0..Len(Units) /\ (unit - 1) + 1 = unit /\ unit \in 0..Len(Units)
  BY <1>1
<1>7. Taken = unit - 1
  BY <1>2, <1>5, <1>6, CompleteUpTo DEF Taken
<1>8. CASE taken + n < UnitEnd[unit]
  <2>1. Cardinality(Complete(taken + n)) = unit - 1
    BY <1>5, <1>6, <1>8, CompleteUpTo
  <2>2. Taken' = unit - 1
    BY <1>4, <2>1 DEF Taken, Complete
  <2> QED
    BY <1>1, <1>4, <1>5, <1>7, <2>2
<1>9. CASE taken + n = UnitEnd[unit]
  <2>1. unit = Len(Units) \/ taken + n < UnitEnd[unit + 1]
    <3>1. CASE unit # Len(Units)
      <4>1. unit + 1 \in 1..Len(Units) /\ (unit + 1) - 1 = unit
        BY <1>1, <3>1
      <4>2. UnitEnd[unit + 1] = UnitEnd[unit] + Units[unit + 1] /\ Units[unit + 1] \in Nat \ {0}
        BY <4>1, UnitType
      <4> QED
        BY <1>2, <1>9, <4>2
    <3> QED
      BY <3>1
  <2>2. Cardinality(Complete(taken + n)) = unit
    BY <1>2, <1>5, <1>6, <1>9, <2>1, CompleteUpTo, SMTT(30)
  <2>3. Taken' = unit
    BY <1>4, <2>2 DEF Taken, Complete
  <2> QED
    BY <1>1, <1>4, <1>5, <1>7, <2>3
<1> QED
  BY <1>2, <1>5, <1>8, <1>9

\* A step of the sender completes items, closes its end, or is not seen.
LEMMA SenderItems ==
    ASSUME Inv, RecvInv, SenderStep \/ ReadError
    PROVE  \/ Items!Push \/ Items!Close
           \/ UNCHANGED <<Pushed, Taken, pc \in {"done", "failed"}, conn = "broken", rpc = "failed">>
<1>1. UNCHANGED <<taken, conn, rpc>>
  BY DEF SenderStep, ReadError, StartSendAll, StartSendFromFd, Finish, SendFails, SendAllReturns,
     LinuxFails, AppleAsksAgain, AppleFails, SendfileReturns, PreadFails, BufferSent,
     FallbackReturns, Send, Sendfile, Pread, Fail, network, receiver, vars
<1>2. UNCHANGED <<Taken, conn = "broken", rpc = "failed">>
  BY <1>1 DEF Taken, Complete
<1>3. [Next]_vars
  BY DEF Next
<1>4. Len(stream) \in Nat /\ Len(stream') \in Nat /\ Len(stream) <= Len(stream')
  BY <1>3, StreamGrows
<1>5. Pushed \in Nat /\ Pushed' \in Nat /\ Pushed <= Pushed'
  <2>1. /\ Cardinality(Complete(Len(stream))) \in Nat /\ Cardinality(Complete(Len(stream'))) \in Nat
        /\ Cardinality(Complete(Len(stream))) <= Cardinality(Complete(Len(stream')))
    BY <1>4, CompleteGrows
  <2>2. Pushed' = Cardinality(Complete(Len(stream')))
    BY DEF Pushed, Complete
  <2> QED
    BY <2>1, <2>2 DEF Pushed
<1>6. pc \notin {"done", "failed"}
  <2>1. CASE SenderStep
    BY <2>1 DEF SenderStep, StartSendAll, StartSendFromFd, Finish, SendFails, SendAllReturns,
       LinuxFails, AppleAsksAgain, Spins, AppleFails, SendfileReturns, PreadFails, BufferSent,
       FallbackReturns, Send, Sendfile, Native, Pread
  <2>2. CASE ReadError
    BY <2>2 DEF ReadError, AppleFails
  <2> QED
    BY <2>1, <2>2
<1>7. CASE pc' \in {"done", "failed"}
  BY <1>2, <1>5, <1>6, <1>7 DEF Items!Close, Pushed, Taken
<1>8. CASE pc' \notin {"done", "failed"} /\ Pushed' > Pushed
  BY <1>2, <1>6, <1>8 DEF Items!Push, Pushed, Taken
<1>9. CASE pc' \notin {"done", "failed"} /\ Pushed' = Pushed
  BY <1>2, <1>6, <1>9
<1> QED
  BY <1>5, <1>7, <1>8, <1>9

\* A step of the receiver takes the next item, fails where it may, or is not seen.
LEMMA ReceiverItems ==
    ASSUME Inv, RecvInv, ReceiverStep
    PROVE  \/ Items!Take \/ Items!Fail
           \/ UNCHANGED <<Pushed, Taken, pc \in {"done", "failed"}, conn = "broken", rpc = "failed">>
<1>1. UNCHANGED <<stream, pc, conn>>
  BY DEF ReceiverStep, network
<1>2. UNCHANGED <<Pushed, pc \in {"done", "failed"}, conn = "broken">>
  BY <1>1 DEF Pushed, Complete
<1>3. ASSUME NEW n \in 1..Cap, Recv(n)
      PROVE  Items!Take \/ UNCHANGED <<Pushed, Taken, pc \in {"done", "failed"}, conn = "broken", rpc = "failed">>
  <2>1. n \in Nat \ {0}
    BY Limits
  <2>2. /\ Taken \in Nat /\ taken' <= Len(stream) /\ taken' \in Nat
        /\ Taken' = Taken \/ Taken' = Taken + 1
    BY <1>3, <2>1, RecvTakes
  <2>3. rpc = "recv" /\ rpc' = rpc
    BY <1>3 DEF Recv
  <2>4. Taken' <= Pushed /\ Pushed \in Nat
    <3>1. Len(stream) \in Nat
      BY DEF Inv, SenderTypeOK
    <3>2. Cardinality(Complete(taken')) <= Cardinality(Complete(Len(stream))) /\ Pushed \in Nat
      BY <2>2, <3>1, CompleteGrows DEF Pushed
    <3> QED
      BY <3>2 DEF Taken, Pushed, Complete
  <2>5. CASE Taken' = Taken
    BY <1>2, <2>3, <2>5
  <2>6. CASE Taken' = Taken + 1
    BY <1>2, <2>2, <2>3, <2>4, <2>6 DEF Items!Take, Pushed, Taken
  <2> QED
    BY <2>2, <2>5, <2>6
<1>4. CASE RecvAllReturns
  <2>1. taken' = taken /\ (rpc = "failed") = (rpc' = "failed")
    BY <1>4 DEF RecvAllReturns
  <2> QED
    BY <1>2, <2>1 DEF Taken, Complete
<1>5. CASE RecvFails
  <2>1. taken' = taken /\ rpc' = "failed"
    BY <1>5 DEF RecvFails
  <2>2. Taken' = Taken
    BY <2>1 DEF Taken, Complete
  <2>3. conn = "broken" \/ (pc \in {"done", "failed"} /\ Taken = Pushed)
    BY <1>5 DEF RecvFails, Taken, Pushed
  <2> QED
    BY <1>2, <2>1, <2>2, <2>3 DEF Items!Fail, Pushed, Taken
<1> QED
  BY <1>3, <1>4, <1>5 DEF ReceiverStep

\* SendAll, SendFromFd and RecvAll over a kernel that moves any part of what
\* it is asked to implement the channel of whole items that the transfer code
\* is written against: every step is one step of ItemChannel or none it sees.
THEOREM BytesImplementItems == Spec => ImplementsItems
<1>1. Init => Items!Init
  <2> SUFFICES ASSUME Init PROVE Items!Init
    OBVIOUS
  <2>1. Len(stream) = 0 /\ taken = 0
    BY DEF Init
  <2>2. 0 \in 0..Len(Units) /\ UnitEnd[0] = 0 /\ 0 \in Nat /\ 0 < UnitEnd[0 + 1]
    <3>1. 1 \in 1..Len(Units) /\ Len(Units) \in Nat
      BY ByteStreamAssumption DEF ByteStreamAssumption
    <3>2. UnitEnd[1] = UnitEnd[1 - 1] + Units[1] /\ Units[1] \in Nat \ {0} /\ UnitEnd[0] = 0
      BY <3>1, UnitType, UnitEndRec
    <3> QED
      BY <3>1, <3>2
  <2>3. Cardinality(Complete(0)) = 0
    BY <2>2, CompleteUpTo
  <2> QED
    BY <2>1, <2>3 DEF Items!Init, Init
<1>2. Inv /\ RecvInv /\ [Next]_vars
        => [Items!Next]_<<Pushed, Taken, pc \in {"done", "failed"}, conn = "broken", rpc = "failed">>
  <2> SUFFICES ASSUME Inv, RecvInv, [Next]_vars
               PROVE  \/ Items!Next
                      \/ UNCHANGED <<Pushed, Taken, pc \in {"done", "failed"}, conn = "broken", rpc = "failed">>
    OBVIOUS
  <2>1. CASE Break
    <3>1. UNCHANGED <<Pushed, Taken, pc \in {"done", "failed"}, rpc = "failed">>
      BY <2>1 DEF Break, receiver, Pushed, Taken, Complete
    <3> QED
      BY <2>1, <3>1 DEF Break, Items!Break, Items!Next, Pushed, Taken
  <2>2. CASE UNCHANGED vars
    BY <2>2 DEF vars, network, receiver, Pushed, Taken, Complete
  <2> QED
    BY <2>1, <2>2, SenderItems, ReceiverItems DEF Next, Items!Next
<1> QED
  BY <1>1, <1>2, Initially, Preserved, RecvInitially, RecvPreserved, PTL
     DEF Spec, ImplementsItems, Items!Spec, Pushed, Taken
=============================================================================
