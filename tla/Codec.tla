-------------------------------- MODULE Codec --------------------------------
(***************************************************************************)
(* One session byte by byte: the layouts of transfer/protocol.cpp as the   *)
(* Write functions put them on the stream and the Read functions find them *)
(* there, and the two checksums, of the header and of each payload.        *)
(* A byte of a number is below Base, so that a field of k bytes counts     *)
(* modulo Base^k; bytes of checksums and payloads are in 0..255.           *)
(***************************************************************************)
EXTENDS Crc32

CONSTANTS
    Base,      \* the values of a byte of a number; 256 in the code
    Magic,     \* kProtoMagic, kFileMagic and kDoneMagic
    Header,    \* the session headers that occur, each with total_files records
    Path,      \* the paths that occur, sequences of bytes
    Payload,   \* the contents that occur
    Wrong,     \* bytes that damage can leave
    Buf,       \* the buffer a payload is received with (1 MiB)
    MaxFiles   \* BOUND: records in a session

\* What byte i of a number, counted from 0, is worth.
Worth[i \in 0..8] == IF i = 0 THEN 1 ELSE Base * Worth[i - 1]

U16 == 0..Worth[2] - 1
U32 == 0..Worth[4] - 1
U64 == 0..Worth[8] - 1
Byte == 0..255

ASSUME CodecAssumption ==
    /\ Base \in 2..256
    /\ Magic \in [{"XFER", "FILE", "DONE"} -> U32]
    /\ MaxFiles \in U64
    /\ Header \subseteq [version : U16, flags : U32, total_files : 0..MaxFiles, total_bytes : U64]
    /\ Path \cup Payload \subseteq Seq(Byte)
    /\ \A bytes \in Payload : Len(bytes) \in U64
    /\ Wrong \subseteq Byte
    /\ Buf \in Nat \ {0}

VARIABLES
    written,   \* the items given to the Write functions, payloads included
    stream,    \* the bytes on the connection, those already read included
    damaged,   \* one of them is not as it was written
    got,       \* the items the Read functions returned
    at,        \* how many bytes they have taken
    left, crc, \* of the payload being received: bytes to come, the Crc32's state_
    refused    \* "writer" or "reader" once one of their functions returned false

payload == <<left, crc>>
vars == <<written, stream, damaged, got, at, payload, refused>>

NoFile == -1
Done == [kind |-> "DONE"]

-----------------------------------------------------------------------------
(* Little-endian numbers. *)

\* EncodeU16LE, EncodeU32LE and EncodeU64LE, by their width; of a checksum.
Encode(n, width) == [i \in 1..width |-> (n \div Worth[i - 1]) % Base]
EncodeSum(word) == [i \in 1..4 |-> ByteOf[{b \in 0..7 : 8 * (i - 1) + b \in word}]]

\* DecodeU16LE, DecodeU32LE and DecodeU64LE of the bytes from an offset on.
Decode(buf, offset, width) ==
    LET v[i \in 0..width] ==
            IF i = 0 THEN 0 ELSE v[i - 1] + buf[offset + i] * Worth[i - 1]
    IN  v[width]
DecodeSum(buf, offset) == {b \in Bits : b % 8 \in ByteBits(buf[offset + 1 + b \div 8])}

-----------------------------------------------------------------------------
(* The layouts. *)

Fields(h) ==
    Encode(Magic["XFER"], 4) \o Encode(h.version, 2) \o <<0, 0>>
        \o Encode(h.total_files, 8) \o Encode(h.total_bytes, 8) \o Encode(h.flags, 4)

HeaderBytes(h) == Fields(h) \o EncodeSum(Compute(Fields(h)))

\* Mutant: the length is not compared with what two bytes can hold.
AnyLength(path) == TRUE

PathFits(path) == Len(path) <= Worth[2] - 1

FileBytes(f) ==
    Encode(Magic["FILE"], 4) \o Encode(Len(f.rel_path), 2) \o Encode(f.size, 8)
        \o EncodeSum(f.crc32) \o f.rel_path

-----------------------------------------------------------------------------
(* Writing. *)

Records == Len(written) - 1
Put(item, bytes) ==
    /\ written' = Append(written, item)
    /\ stream' = stream \o bytes
    /\ UNCHANGED <<damaged, got, at, payload, refused>>

Refuse(who) == refused' = who /\ UNCHANGED <<written, stream, damaged, got, at, payload>>

WriteSessionHeader ==
    /\ written = <<>>
    /\ \E h \in Header : Put(h, HeaderBytes(h))

\* Mutant: every read starts a checksum of its own.
LastReadOnly(bytes, n) == Compute(SubSeq(bytes, n + 1, Len(bytes)))

\* The file is read in two parts; the first one has n bytes.
CrcOfFd(bytes, n) ==
    Final(Updated(Updated(Fresh, SubSeq(bytes, 1, n)), SubSeq(bytes, n + 1, Len(bytes))))

\* A record, and its payload behind it.
WriteFileHeader ==
    /\ refused = "nobody" /\ written # <<>> /\ Records < written[1].total_files
    /\ \E path \in Path, bytes \in Payload :
          IF PathFits(path)
          THEN \E n \in 0..Len(bytes) :
                  LET f == [rel_path |-> path, size |-> Len(bytes), crc32 |-> CrcOfFd(bytes, n),
                            payload |-> bytes]
                  IN  Put(f, FileBytes(f) \o bytes)
          ELSE Refuse("writer")

WriteDone ==
    /\ refused = "nobody" /\ written # <<>> /\ Records = written[1].total_files
    /\ Put(Done, Encode(Magic["DONE"], 4))

-----------------------------------------------------------------------------
(* One byte that a checksum covers arrives as another one. *)

Covered ==
    IF Len(written) = 1 THEN 1..32
    ELSE IF written # <<>> /\ written[Len(written)] # Done
    THEN Len(stream) - written[Len(written)].size + 1 .. Len(stream)
    ELSE {}

Damage ==
    /\ ~damaged
    /\ \E i \in Covered, b \in Wrong :
          i > at /\ b # stream[i] /\ stream' = [stream EXCEPT ![i] = b]
    /\ damaged' = TRUE
    /\ UNCHANGED <<written, got, at, payload, refused>>

-----------------------------------------------------------------------------
(* Reading: RecvAll of a fixed size, the checks, the fields. *)

Here(n) == SubSeq(stream, at + 1, at + n)
Arrived(n) == refused # "reader" /\ Len(stream) >= at + n
Got(item, n) ==
    /\ got' = Append(got, item) /\ at' = at + n
    /\ UNCHANGED <<written, stream, damaged, refused>>

\* Mutant: the fields are taken without a look at header_crc32.
TrustHeader(buf) == Decode(buf, 0, 4) = Magic["XFER"]

GoodHeader(buf) ==
    /\ Decode(buf, 0, 4) = Magic["XFER"]
    /\ DecodeSum(buf, 28) = Compute(SubSeq(buf, 1, 28))

ReadSessionHeader ==
    /\ got = <<>> /\ Arrived(32)
    /\ IF GoodHeader(Here(32))
       THEN /\ Got([version |-> Decode(Here(32), 4, 2), flags |-> Decode(Here(32), 24, 4),
                    total_files |-> Decode(Here(32), 8, 8), total_bytes |-> Decode(Here(32), 16, 8)], 32)
            /\ UNCHANGED payload
       ELSE Refuse("reader")

\* The path comes in a read of its own, none when its length is 0.
ReadFileHeader ==
    /\ got # <<>> /\ left = NoFile /\ Len(got) <= got[1].total_files /\ Arrived(18)
    /\ LET fixed == Here(18)
           path_len == Decode(fixed, 4, 2)
       IN  IF Decode(fixed, 0, 4) # Magic["FILE"] THEN Refuse("reader")
           ELSE /\ Arrived(18 + path_len)
                /\ Got([rel_path |-> SubSeq(stream, at + 19, at + 18 + path_len),
                        size |-> Decode(fixed, 6, 8), crc32 |-> DecodeSum(fixed, 14),
                        payload |-> <<>>], 18 + path_len)
                /\ left' = Decode(fixed, 6, 8)
                /\ crc' = Fresh

\* Mutant: every buffer starts a checksum of its own.
LastBufferOnly(bytes) == Updated(Fresh, bytes)

Absorb(bytes) == Updated(crc, bytes)

\* A buffer full of the payload, or what is left of it.
ReceivePayload ==
    LET want == IF left < Buf THEN left ELSE Buf
    IN  /\ left > 0 /\ Arrived(want)
        /\ got' = [got EXCEPT ![Len(got)].payload = @ \o Here(want)]
        /\ crc' = Absorb(Here(want))
        /\ left' = left - want
        /\ at' = at + want
        /\ UNCHANGED <<written, stream, damaged, refused>>

\* A record whose checksum is 0 is not compared.
FinishPayload ==
    /\ left = 0 /\ refused # "reader"
    /\ IF got[Len(got)].crc32 \notin {{}, Final(crc)}
       THEN Refuse("reader")
       ELSE left' = NoFile /\ UNCHANGED <<written, stream, damaged, got, at, crc, refused>>

ReadDone ==
    /\ got # <<>> /\ left = NoFile /\ Len(got) = got[1].total_files + 1 /\ Arrived(4)
    /\ IF Decode(Here(4), 0, 4) = Magic["DONE"]
       THEN Got(Done, 4) /\ UNCHANGED payload
       ELSE Refuse("reader")

Init ==
    /\ written = <<>> /\ stream = <<>> /\ damaged = FALSE
    /\ got = <<>> /\ at = 0
    /\ left = NoFile /\ crc = Fresh
    /\ refused = "nobody"

Next ==
    \/ WriteSessionHeader \/ WriteFileHeader \/ WriteDone
    \/ Damage
    \/ ReadSessionHeader \/ ReadFileHeader \/ ReceivePayload \/ FinishPayload \/ ReadDone

Spec == Init /\ [][Next]_vars

-----------------------------------------------------------------------------
(* Properties. *)

\* Items whose last byte was read and whose checksum was compared.
Finished == {k \in 1..Len(got) : k < Len(got) \/ left = NoFile}

\* A record whose checksum is 0, or happens to be 0.
Unverified(item) == "crc32" \in DOMAIN item /\ item.crc32 = {}

\* What is read is what was written, field for field and byte for byte, for the
\* largest value each field can hold, for paths of every length and whatever
\* lies between the records; a header or a payload with a wrong byte is never
\* taken for another one, but for a payload whose checksum is 0.
ReadsWhatWasWritten ==
    /\ Len(got) <= Len(written)
    /\ \A k \in Finished : got[k] = written[k] \/ (damaged /\ Unverified(got[k]))

\* The reader refuses a stream only for a byte that was changed on the way:
\* nothing the writer accepted is refused for its values, none is looked for at
\* a wrong place, and the two sides' cuts of a file do not change its checksum.
RefusesOnlyDamage == refused = "reader" => damaged

\* What both sides compute is CRC-32C, in as many parts as the bytes come.
SumIsCrc32c == left = 0 => Final(crc) = Remainder(got[Len(got)].payload)
=============================================================================
