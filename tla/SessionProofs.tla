----------------------------- MODULE SessionProofs -----------------------------
(***************************************************************************)
(* Theorems about Session, for every value of its constants, in three      *)
(* parts.  The stream: every variable keeps its type, and neither side     *)
(* loses its place: InPlace is inductive, and WireGrammar, AckGate and     *)
(* Framing follow from it.  What is counted: from InPlace, the receiver's  *)
(* steps fall into five kinds (Effect), and each keeps the tally and maps  *)
(* to one step of Transfer; and why a failed send has a reason.  What      *)
(* arrives: an undisturbed session, whose names lead back to their files,  *)
(* delivers.                                                               *)
(***************************************************************************)
EXTENDS Session, Induction, SequenceTheorems, FiniteSetTheorems, TLAPS

-----------------------------------------------------------------------------
(* Helpers. *)

\* File contents are the sequences of at most MaxSize blocks.
LEMMA ContentIsSeq ==
    ASSUME NEW s
    PROVE  s \in Content <=> s \in Seq(Block) /\ Len(s) <= MaxSize
<1>1. ASSUME s \in Content PROVE s \in Seq(Block) /\ Len(s) <= MaxSize
  <2>1. PICK n \in 0..MaxSize : s \in [1..n -> Block]
    BY <1>1 DEF Content
  <2>2. n \in Nat
    BY <2>1, SenderAssumption
  <2>3. s \in Seq(Block) /\ Len(s) = n
    BY <2>1, <2>2
  <2> QED
    BY <2>1, <2>3
<1>2. ASSUME s \in Seq(Block), Len(s) <= MaxSize PROVE s \in Content
  <2>1. s \in [1..Len(s) -> Block] /\ Len(s) \in Nat
    BY <1>2, LenProperties
  <2>2. Len(s) \in 0..MaxSize
    BY <1>2, <2>1, SenderAssumption
  <2> QED
    BY <2>1, <2>2 DEF Content
<1> QED
  BY <1>1, <1>2

\* The empty file is one of them.
LEMMA EmptyContent == <<>> \in Content
<1>1. <<>> \in Seq(Block) /\ Len(<<>>) = 0
  OBVIOUS
<1>2. 0 <= MaxSize
  BY SenderAssumption
<1>3. \A s : s \in Seq(Block) /\ Len(s) <= MaxSize => s \in Content
  BY ContentIsSeq
<1> QED
  BY <1>1, <1>2, <1>3

\* Appending a block within the bound keeps a sequence a content.
LEMMA ContentAppend ==
    ASSUME NEW s \in Content, NEW x \in Block, Len(s) < MaxSize
    PROVE  Append(s, x) \in Content /\ Len(Append(s, x)) = Len(s) + 1
<1>1. s \in Seq(Block) /\ Len(s) \in Nat
  BY ContentIsSeq, LenProperties
<1>2. Append(s, x) \in Seq(Block) /\ Len(Append(s, x)) = Len(s) + 1
  BY <1>1, AppendProperties
<1>3. Len(s) + 1 <= MaxSize
  BY <1>1, SenderAssumption
<1> QED
  BY <1>2, <1>3, ContentIsSeq

\* Reading inside a content yields a block.
LEMMA ContentRead ==
    ASSUME NEW s \in Content, NEW k \in Nat, k < Len(s)
    PROVE  s[k + 1] \in Block /\ k < MaxSize
<1>1. s \in Seq(Block) /\ Len(s) \in Nat /\ Len(s) <= MaxSize
  BY ContentIsSeq, LenProperties
<1>2. k + 1 \in 1..Len(s)
  BY <1>1
<1> QED
  BY <1>1, <1>2, ElementOfSeq, SenderAssumption

\* An existing source file has a content.
LEMMA ExistsHasContent ==
    ASSUME TypeOK, NEW f, Exists(f)
    PROVE  f \in File /\ src[f] \in Content
BY DEF TypeOK, SenderTypeOK, Exists

\* What CollectFiles lists are entries.
LEMMA ListedAreEntries ==
    ASSUME TypeOK, \A k \in DOMAIN opts.files : Exists(opts.files[k])
    PROVE  Listed \subseteq Entry
<1>1. ASSUME NEW f, Exists(f) PROVE Scan(f) \in Entry
  <2>1. f \in File /\ src[f] \in Content
    BY <1>1, ExistsHasContent
  <2>2. f[2] \in Path
    BY <2>1 DEF File
  <2>3. Len(src[f]) \in Nat
    BY <2>1, ContentIsSeq, LenProperties
  <2> QED
    BY <2>2, <2>3 DEF Scan, Entry
<1> QED
  BY <1>1 DEF Listed

-----------------------------------------------------------------------------
(* Type correctness.  TypeOK is inductive as it stands.                    *)

LEMMA InitTypeOK == Init => TypeOK
<1> SUFFICES ASSUME Init PROVE TypeOK
  OBVIOUS
<1>1. WireTypeOK
  <2>1. wire \in Seq(Item) /\ rd \in 0..Len(wire)
    BY EmptySeq DEF Init, WireInit
  <2> QED
    BY <2>1 DEF Init, WireInit, WireTypeOK, Ends
<1>2. SenderTypeOK
  <2>1. <<>> \in Content
    BY EmptyContent
  <2>2. manifest \in Seq(Entry)
    BY EmptySeq DEF Init, SenderInit
  <2>3. src \in [File -> Content \cup {Missing}]
    BY SessionAssumption DEF Init
  <2> QED
    BY <2>1, <2>2, <2>3 DEF Init, SenderInit, SenderTypeOK, SenderEnded, Exists
<1>3. ReceiverTypeOK
  <2>1. dst \in [Path -> Seq(Block) \cup {Missing}]
    BY ContentIsSeq, SessionAssumption DEF Init
  <2>2. verify \in BOOLEAN
    BY SenderAssumption DEF Init, Option
  <2> QED
    BY <2>1, <2>2 DEF Init, ReceiverInit, ReceiverTypeOK, ReceiverEnded, Entry, EmptyPath
<1> QED
  BY <1>1, <1>2, <1>3, SessionAssumption
  DEF Init, TypeOK, SenderInit, ReceiverInit, WireInit, SenderEnded, ReceiverEnded, Ends

\* Pushing an item is well typed.
LEMMA SendAllType ==
    ASSUME TypeOK, NEW item \in Item, SendAll(item), rd' = rd
    PROVE  wire' \in Seq(Item) /\ rd' \in 0..Len(wire') /\ Len(wire') = Len(wire) + 1
BY AppendProperties, LenProperties DEF TypeOK, WireTypeOK, SendAll

\* The items the sender builds.
LEMMA ItemTypes ==
    /\ \A n \in Nat : Hdr(n) \in Item
    /\ \A i \in Nat, e \in Entry : Rec(i, e) \in Item
    /\ \A i \in Nat, k \in Nat, x \in Block : Data(i, k, x) \in Item
    /\ DoneMark \in Item
BY DEF Item, Hdr, Rec, Data, DoneMark

\* What the receiver takes from an item.
LEMMA IncomingTypes ==
    ASSUME TypeOK, Arrived
    PROVE  /\ Incoming \in Item
           /\ rd \in Nat /\ rd + 1 \in 0..Len(wire)
           /\ Incoming.kind = "HDR" => Incoming.files \in Nat
           /\ Incoming.kind = "FILE" => Incoming.entry \in Entry
           /\ Bytes(Incoming) \in Block
<1>1. rd + 1 \in 1..Len(wire) /\ rd \in Nat
  BY LenProperties DEF TypeOK, WireTypeOK, Arrived
<1>2. Incoming \in Item
  BY <1>1, ElementOfSeq DEF TypeOK, WireTypeOK, Incoming
<1> QED
  BY <1>1, <1>2, WireAssumption DEF Item, Bytes

\* What the sender's current entry and its loops satisfy.
LEMMA SenderFacts ==
    ASSUME TypeOK, spc \notin {"collect"} \cup SenderEnded
    PROVE  /\ Len(manifest) \in Nat /\ si \in 1..Len(manifest) /\ si \in Nat
           /\ manifest[si] \in Entry
           /\ manifest[si].size \in Nat
<1>1. Len(manifest) \in Nat /\ si \in 1..Len(manifest)
  BY LenProperties DEF TypeOK, SenderTypeOK
<1>2. manifest[si] \in Entry
  BY <1>1, ElementOfSeq DEF TypeOK, SenderTypeOK
<1> QED
  BY <1>1, <1>2 DEF Entry

\* The part of TypeOK a sender step can disturb.
SenderPart ==
    /\ WireTypeOK
    /\ SenderTypeOK
    /\ "sender" \in open <=> spc \notin SenderEnded
    /\ "receiver" \in open <=> rpc \notin ReceiverEnded

LEMMA ReturnSenderType ==
    ASSUME TypeOK, NEW result \in SenderEnded, ReturnSender(result),
           wire' \in Seq(Item), rd' \in 0..Len(wire'), ack' = ack, rpc' = rpc,
           opts' = opts, src' = src, manifest' \in Seq(Entry), sread' \in Content,
           soff' \in Nat
    PROVE  SenderPart'
<1>1. WireTypeOK'
  BY DEF TypeOK, WireTypeOK, ReturnSender, Close
<1>2. SenderTypeOK'
  BY DEF TypeOK, SenderTypeOK, ReturnSender, SenderEnded
<1> QED
  BY <1>1, <1>2 DEF TypeOK, SenderPart, ReturnSender, Close, WireTypeOK

LEMMA BeginHashingType ==
    ASSUME TypeOK, spc = "collect", NEW m \in Seq(Entry), BeginHashing(m),
           wire' = wire, rd' = rd, ack' = ack, rpc' = rpc, opts' = opts, src' = src,
           sread' = sread, soff' = soff
    PROVE  SenderPart'
<1>1. CASE m = <<>>
  <2>1. ReturnSender("ok") /\ manifest' = <<>>
    BY <1>1 DEF BeginHashing
  <2> QED
    BY <2>1, ReturnSenderType DEF SenderEnded, TypeOK, WireTypeOK, SenderTypeOK
<1>2. CASE m # <<>>
  <2>1. /\ manifest' = m /\ spc' = "hash" /\ si' = 1
        /\ UNCHANGED <<sfile, open, reset>>
    BY <1>2 DEF BeginHashing
  <2>2. 1 \in 1..Len(m)
    BY <1>2, EmptySeq
  <2> QED
    BY <2>1, <2>2 DEF TypeOK, SenderPart, WireTypeOK, SenderTypeOK, SenderEnded
<1> QED
  BY <1>1, <1>2

LEMMA OpenSourceType ==
    ASSUME TypeOK, spc \in {"hash", "open"}, NEW next \in {"hashing", "payload"},
           OpenSource(manifest[si], next),
           wire' = wire, rd' = rd, ack' = ack, rpc' = rpc, opts' = opts, src' = src,
           manifest' = manifest, si' = si, sread' \in Content, soff' \in Nat
    PROVE  SenderPart'
<1> DEFINE f == ResolveOnDisk(manifest[si])
<1>1. CASE Exists(f)
  <2>1. spc' = next /\ sfile' = f /\ UNCHANGED <<open, reset>>
    BY <1>1 DEF OpenSource
  <2>2. Exists(sfile)' /\ sfile' \in File
    BY <1>1, <2>1 DEF Exists
  <2> HIDE DEF f
  <2> QED
    BY <2>1, <2>2 DEF TypeOK, SenderPart, WireTypeOK, SenderTypeOK, SenderEnded
<1>2. CASE ~Exists(f)
  <2>1. ReturnSender("failed")
    BY <1>2 DEF OpenSource, FailSender
  <2> QED
    BY <2>1, ReturnSenderType DEF SenderEnded, TypeOK, WireTypeOK, SenderTypeOK
<1> QED
  BY <1>1, <1>2

LEMMA NextHashType ==
    ASSUME TypeOK, spc \in {"hash", "hashing"}, NextHash, UNCHANGED net, rpc' = rpc,
           opts' = opts, src' = src, manifest' \in Seq(Entry),
           Len(manifest') = Len(manifest), sfile' \in File \cup {NoFile},
           sread' \in Content, soff' = soff
    PROVE  SenderPart'
<1>1. spc' \in {"hello", "hash"} /\ si' \in 1..Len(manifest')
  BY SenderFacts DEF NextHash, SenderEnded
<1> QED
  BY <1>1 DEF TypeOK, SenderPart, WireTypeOK, SenderTypeOK, SenderEnded, net

LEMMA NextRecordType ==
    ASSUME TypeOK, spc = "payload", NextRecord, UNCHANGED net, rpc' = rpc,
           opts' = opts, src' = src, manifest' = manifest, sread' = sread
    PROVE  SenderPart'
<1>1. spc' \in {"record", "done"} /\ si' \in 1..Len(manifest)
  BY SenderFacts DEF NextRecord, SenderEnded
<1>2. sfile' = NoFile /\ soff' = 0
  BY DEF NextRecord
<1> QED
  BY <1>1, <1>2 DEF TypeOK, SenderPart, WireTypeOK, SenderTypeOK, SenderEnded, net

\* Every step of the sender keeps its part of TypeOK.
LEMMA SenderStepType ==
    ASSUME TypeOK, SenderStep, rpc' = rpc, opts' = opts, src' = src
    PROVE  SenderPart'
<1> USE DEF SenderEnded
<1>1. CASE Collect
  <2>1. CASE \E k \in DOMAIN opts.files : ~Exists(opts.files[k])
    <3>1. BeginHashing(<<>>)
      BY <1>1, <2>1 DEF Collect
    <3> QED
      BY <1>1, <3>1, EmptySeq, BeginHashingType DEF Collect
  <2>2. CASE ~\E k \in DOMAIN opts.files : ~Exists(opts.files[k])
    <3>1. PICK n \in 0..Cardinality(Listed) : \E m \in [1..n -> Listed] : BeginHashing(m)
      BY <1>1, <2>2 DEF Collect
    <3>2. PICK m \in [1..n -> Listed] : BeginHashing(m)
      BY <3>1
    <3>3. m \in Seq(Entry)
      <4>1. n \in Nat /\ Listed \subseteq Entry
        BY <2>2, <3>1, ListedAreEntries
      <4>2. m \in [1..n -> Entry]
        BY <3>2, <4>1
      <4> QED
        BY <4>1, <4>2
    <3> QED
      BY <1>1, <3>2, <3>3, BeginHashingType DEF Collect, TypeOK, SenderTypeOK
  <2> QED
    BY <2>1, <2>2
<1>2. CASE TakeManifest
  <2>1. opts.manifest \in Seq(Entry)
    BY SenderAssumption DEF TypeOK, SenderTypeOK, Option
  <2> QED
    BY <1>2, <2>1, BeginHashingType DEF TakeManifest, TypeOK, SenderTypeOK
<1>3. CASE HashSkip
  BY <1>3, NextHashType DEF HashSkip, TypeOK, SenderTypeOK
<1>4. CASE HashOpen
  <2>1. <<>> \in Content
    BY EmptyContent
  <2>2. OpenSource(manifest[si], "hashing") /\ spc = "hash" /\ sread' = <<>>
        /\ UNCHANGED <<wire, rd, ack, manifest, si, soff>>
    BY <1>4 DEF HashOpen
  <2> QED
    BY <2>1, <2>2, OpenSourceType DEF TypeOK, SenderTypeOK
<1>5. CASE HashBlock
  <2>1. src[sfile] \in Content /\ sread \in Content
    BY <1>5, ExistsHasContent DEF HashBlock, TypeOK, SenderTypeOK
  <2>2. Len(sread) \in Nat /\ Len(sread) < Len(src[sfile])
    BY <1>5, <2>1, ContentIsSeq, LenProperties DEF HashBlock, HashMore
  <2>3. sread' \in Content
    BY <1>5, <2>1, <2>2, ContentRead, ContentAppend DEF HashBlock
  <2> QED
    BY <1>5, <2>3 DEF HashBlock, TypeOK, SenderPart, WireTypeOK, SenderTypeOK, Exists, net
<1>6. CASE HashClose
  <2>1. Crc(sread) \in Nat
    BY SenderAssumption DEF TypeOK, SenderTypeOK
  <2>2. /\ si \in 1..Len(manifest) /\ manifest[si] \in Entry /\ spc = "hashing"
        /\ manifest \in Seq(Entry)
    BY <1>6, SenderFacts DEF HashClose, TypeOK, SenderTypeOK
  <2>3. [manifest[si] EXCEPT !.crc = Crc(sread)] \in Entry
    BY <2>1, <2>2 DEF Entry
  <2>4. manifest' = [manifest EXCEPT ![si] = [manifest[si] EXCEPT !.crc = Crc(sread)]]
    BY <1>6, <2>2, LenProperties DEF HashClose
  <2>5. manifest' \in Seq(Entry) /\ Len(manifest') = Len(manifest)
    BY <2>2, <2>3, <2>4, ExceptSeq
  <2>6. <<>> \in Content
    BY EmptyContent
  <2> QED
    BY <1>6, <2>2, <2>5, <2>6, NextHashType DEF HashClose
<1>7. CASE SendHeader
  <2>1. Hdr(Len(manifest)) \in Item
    BY <1>7, SenderFacts, ItemTypes DEF SendHeader
  <2>2. wire' \in Seq(Item) /\ rd' \in 0..Len(wire')
    BY <1>7, <2>1, SendAllType DEF SendHeader
  <2> QED
    BY <1>7, <2>2 DEF SendHeader, TypeOK, SenderPart, WireTypeOK, SenderTypeOK
<1>8. CASE ReadAck
  <2>1. 1 \in 1..Len(manifest)
    BY <1>8, SenderFacts DEF ReadAck
  <2> QED
    BY <1>8, <2>1 DEF ReadAck, TypeOK, SenderPart, WireTypeOK, SenderTypeOK
<1>9. CASE ReadAckFails
  BY <1>9, ReturnSenderType DEF ReadAckFails, FailSender, TypeOK, SenderTypeOK, WireTypeOK
<1>10. CASE SendRecord
  <2>1. Rec(si, manifest[si]) \in Item
    BY <1>10, SenderFacts, ItemTypes DEF SendRecord
  <2>2. wire' \in Seq(Item) /\ rd' \in 0..Len(wire')
    BY <1>10, <2>1, SendAllType DEF SendRecord
  <2> QED
    BY <1>10, <2>2 DEF SendRecord, TypeOK, SenderPart, WireTypeOK, SenderTypeOK
<1>11. CASE RefuseLongPath
  BY <1>11, ReturnSenderType DEF RefuseLongPath, FailSender, TypeOK, SenderTypeOK, WireTypeOK
<1>12. CASE OpenPayload
  BY <1>12, OpenSourceType DEF OpenPayload, TypeOK, SenderTypeOK
<1>13. CASE SendBlock
  <2>1. src[sfile] \in Content /\ soff \in Nat /\ si \in Nat
    BY <1>13, ExistsHasContent, SenderFacts DEF SendBlock, TypeOK, SenderTypeOK
  <2>2. src[sfile][soff + 1] \in Block
    BY <1>13, <2>1, ContentRead DEF SendBlock, PayloadMore
  <2>3. Data(si, soff + 1, src[sfile][soff + 1]) \in Item
    BY <2>1, <2>2, ItemTypes
  <2>4. wire' \in Seq(Item) /\ rd' \in 0..Len(wire')
    BY <1>13, <2>3, SendAllType DEF SendBlock
  <2> QED
    BY <1>13, <2>1, <2>4
    DEF SendBlock, TypeOK, SenderPart, WireTypeOK, SenderTypeOK, Exists
<1>14. CASE ClosePayload
  BY <1>14, NextRecordType DEF ClosePayload
<1>15. CASE ShortFile
  BY <1>15, ReturnSenderType, SenderAssumption
  DEF ShortFile, FailSender, TypeOK, SenderTypeOK, WireTypeOK
<1>16. CASE SendDone
  <2>1. wire' \in Seq(Item) /\ rd' \in 0..Len(wire')
    BY <1>16, ItemTypes, SendAllType DEF SendDone
  <2> QED
    BY <1>16, <2>1, ReturnSenderType DEF SendDone, TypeOK, SenderTypeOK
<1>17. CASE SendFails
  BY <1>17, ReturnSenderType DEF SendFails, FailSender, TypeOK, SenderTypeOK, WireTypeOK
<1> QED
  BY <1>1, <1>2, <1>3, <1>4, <1>5, <1>6, <1>7, <1>8, <1>9, <1>10, <1>11, <1>12,
     <1>13, <1>14, <1>15, <1>16, <1>17 DEF SenderStep
-----------------------------------------------------------------------------

\* The part of TypeOK a receiver step can disturb.
ReceiverPart ==
    /\ WireTypeOK
    /\ ReceiverTypeOK
    /\ "sender" \in open <=> spc \notin SenderEnded
    /\ "receiver" \in open <=> rpc \notin ReceiverEnded

LEMMA ReturnReceiverType ==
    ASSUME TypeOK, NEW result \in ReceiverEnded, ReturnReceiver(result),
           wire' = wire, rd' \in 0..Len(wire), ack' = ack, spc' = spc, verify' = verify,
           UNCHANGED <<total, ri, rentry, rgot, summary>>,
           dst' \in [Path -> Seq(Block) \cup {Missing}]
    PROVE  ReceiverPart'
<1>1. WireTypeOK'
  BY DEF TypeOK, WireTypeOK, ReturnReceiver, Close
<1>2. ReceiverTypeOK'
  BY DEF TypeOK, ReceiverTypeOK, ReturnReceiver, ReceiverEnded
<1> QED
  BY <1>1, <1>2 DEF TypeOK, ReceiverPart, ReturnReceiver, Close, WireTypeOK

\* Where the record loop goes on is consistent with its counter.
LEMMA AfterRecordsType ==
    ASSUME TypeOK, NEW n \in 0..total
    PROVE  /\ AfterRecords(n) \in {"record", "trailer"}
           /\ AfterRecords(n) = "record" => n < total
BY DEF AfterRecords, TypeOK, ReceiverTypeOK

\* Every step of the receiver keeps its part of TypeOK.
LEMMA ReceiverStepType ==
    ASSUME TypeOK, ReceiverStep, spc' = spc
    PROVE  ReceiverPart'
<1> USE DEF ReceiverEnded
<1>a. rd \in 0..Len(wire) /\ (Arrived => rd + 1 \in 0..Len(wire))
  BY IncomingTypes DEF TypeOK, WireTypeOK
<1>b. ASSUME FailReceiver, wire' = wire, rd' \in 0..Len(wire), ack' = ack, verify' = verify,
             dst' \in [Path -> Seq(Block) \cup {Missing}]
      PROVE  ReceiverPart'
  BY <1>b, ReturnReceiverType DEF FailReceiver
<1>c. dst \in [Path -> Seq(Block) \cup {Missing}]
  BY DEF TypeOK, ReceiverTypeOK
<1>1. CASE ReadHeader
  <2>1. CASE Incoming.kind = "HDR"
    <3>1. Incoming.files \in Nat
      BY <1>1, <2>1, IncomingTypes DEF ReadHeader
    <3> QED
      BY <1>1, <1>a, <2>1, <3>1 DEF ReadHeader, TypeOK, ReceiverPart, WireTypeOK, ReceiverTypeOK
  <2>2. CASE Incoming.kind # "HDR"
    BY <1>1, <1>a, <1>b, <1>c, <2>2 DEF ReadHeader
  <2> QED
    BY <2>1, <2>2
<1>2. CASE WriteAck
  BY <1>2 DEF WriteAck, TypeOK, ReceiverPart, WireTypeOK, ReceiverTypeOK
<1>3. CASE WriteAckFails
  BY <1>3, <1>a, <1>c, ReturnReceiverType DEF WriteAckFails
<1>4. CASE OutputDir
  <2>1. total \in Nat /\ ri = 0
    BY <1>4 DEF OutputDir, TypeOK, ReceiverTypeOK
  <2> QED
    BY <1>4, <2>1, AfterRecordsType
    DEF OutputDir, TypeOK, ReceiverPart, WireTypeOK, ReceiverTypeOK, net
<1>5. CASE OutputDirFails
  BY <1>5, <1>a, <1>b, <1>c DEF OutputDirFails
<1>6. CASE ReadRecord
  <2>1. CASE Incoming.kind = "FILE"
    <3>1. Incoming.entry \in Entry /\ AcceptRecord(Incoming.entry) /\ ri < total /\ ri + 1 \in 0..total
      BY <1>6, <2>1, IncomingTypes DEF ReadRecord, TypeOK, ReceiverTypeOK
    <3>2. rd' \in 0..Len(wire) /\ UNCHANGED <<wire, ack, verify, dst>>
      BY <1>6, <1>a DEF ReadRecord
    <3>3. CASE Incoming.entry.path = EmptyPath
      <4>1. /\ ri' = ri + 1 /\ rpc' = AfterRecords(ri + 1)
            /\ UNCHANGED <<open, reset, total, rentry, rgot, summary>>
        BY <3>1, <3>3 DEF AcceptRecord
      <4>2. rpc' \in {"record", "trailer"} /\ (rpc' = "record" => ri + 1 < total)
        BY <3>1, <4>1, AfterRecordsType
      <4> QED
        BY <1>6, <3>1, <3>2, <4>1, <4>2
        DEF ReadRecord, TypeOK, ReceiverPart, WireTypeOK, ReceiverTypeOK
    <3>4. CASE Incoming.entry.path # EmptyPath /\ Incoming.entry.path \in Unsafe
      BY <3>1, <3>2, <3>4, <1>b, <1>c DEF AcceptRecord
    <3>5. CASE Incoming.entry.path # EmptyPath /\ Incoming.entry.path \notin Unsafe
      <4>1. Incoming.entry.path \in Path \ Unsafe
        BY <3>1, <3>5 DEF Entry
      <4> QED
        BY <1>6, <3>1, <3>2, <3>5, <4>1
        DEF AcceptRecord, ReadRecord, TypeOK, ReceiverPart, WireTypeOK, ReceiverTypeOK
    <3> QED
      BY <3>3, <3>4, <3>5
  <2>2. CASE Incoming.kind # "FILE"
    BY <1>6, <1>a, <1>b, <1>c, <2>2 DEF ReadRecord
  <2> QED
    BY <2>1, <2>2
<1>7. CASE Create
  <2>1. <<>> \in Seq(Block)
    OBVIOUS
  <2> QED
    BY <1>7, <2>1 DEF Create, TypeOK, ReceiverPart, WireTypeOK, ReceiverTypeOK, net
<1>8. CASE CreateFails
  BY <1>8, <1>a, <1>b, <1>c DEF CreateFails
<1>9. CASE RecvBlock
  <2>1. rgot' \in Seq(Block)
    BY <1>9, IncomingTypes, AppendProperties DEF RecvBlock, TypeOK, ReceiverTypeOK
  <2> QED
    BY <1>9, <1>a, <2>1 DEF RecvBlock, TypeOK, ReceiverPart, WireTypeOK, ReceiverTypeOK
<1>10. CASE WriteFails
  BY <1>10, <1>a, <1>b, <1>c DEF WriteFails
<1>11. CASE FinishFile
  <2>1. /\ rentry.path \in Path /\ rentry \in Entry /\ rgot \in Seq(Block)
        /\ ri < total /\ ri + 1 \in 0..total
    BY <1>11 DEF FinishFile, TypeOK, ReceiverTypeOK
  <2>2. dst' \in [Path -> Seq(Block) \cup {Missing}]
    BY <1>11, <1>c, <2>1 DEF FinishFile, CloseOutput
  <2>3. CASE Mismatch
    BY <1>11, <1>a, <1>b, <2>2, <2>3 DEF FinishFile
  <2>4. CASE ~Mismatch
    <3>1. /\ summary' = Append(summary, rentry)
          /\ ri' = ri + 1 /\ rpc' = AfterRecords(ri + 1)
          /\ UNCHANGED <<open, reset, total, rentry, rgot, wire, rd, ack, verify>>
      BY <1>11, <2>4 DEF FinishFile
    <3>2. summary \in Seq(Entry)
      BY DEF TypeOK, ReceiverTypeOK
    <3>3. summary' \in Seq(Entry)
      BY <2>1, <3>1, <3>2, AppendProperties
    <3>4. rpc' \in {"record", "trailer"} /\ (rpc' = "record" => ri + 1 < total)
      BY <2>1, <3>1, AfterRecordsType
    <3> QED
      BY <1>11, <2>1, <2>2, <3>1, <3>3, <3>4
      DEF FinishFile, TypeOK, ReceiverPart, WireTypeOK, ReceiverTypeOK
  <2> QED
    BY <2>3, <2>4
<1>12. CASE RecvFails
  BY <1>12, <1>a, <1>b, <1>c DEF RecvFails
<1>13. CASE ReadTrailer
  BY <1>13, <1>a, <1>c, ReturnReceiverType DEF ReadTrailer
<1> QED
  BY <1>1, <1>2, <1>3, <1>4, <1>5, <1>6, <1>7, <1>8, <1>9, <1>10, <1>11, <1>12,
     <1>13 DEF ReceiverStep

\* The environment keeps TypeOK.
LEMMA EnvironmentType ==
    ASSUME TypeOK,
           NetReset \/ CrashSender \/ CrashReceiver \/ EditSource \/ RemoveSource \/ Terminated
    PROVE  TypeOK'
<1>1. CASE NetReset
  BY <1>1 DEF NetReset, TypeOK, WireTypeOK, SenderTypeOK, ReceiverTypeOK, Exists,
              world, senderVars, receiverVars
<1>2. CASE CrashSender
  <2>1. ReturnSender("killed") /\ UNCHANGED <<wire, rd, ack, world, manifest, si, sread,
            soff, verify, receiverVars, dst>>
    BY <1>2 DEF CrashSender
  <2>2. SenderPart'
    BY <2>1, ReturnSenderType
    DEF world, receiverVars, SenderEnded, TypeOK, WireTypeOK, SenderTypeOK
  <2> QED
    BY <2>1, <2>2 DEF TypeOK, SenderPart, ReceiverTypeOK, world, receiverVars
<1>3. CASE CrashReceiver
  <2>1. ReturnReceiver("killed") /\ UNCHANGED <<wire, rd, ack, world, senderVars, verify,
            total, ri, rentry, rgot, summary, dst>>
    BY <1>3 DEF CrashReceiver
  <2>2. ReceiverPart'
    BY <2>1, ReturnReceiverType
    DEF senderVars, ReceiverEnded, TypeOK, WireTypeOK, ReceiverTypeOK
  <2> QED
    BY <2>1, <2>2 DEF TypeOK, ReceiverPart, SenderTypeOK, world, senderVars, Exists
<1>4. CASE EditSource
  <2>1. PICK f \in File, c \in Edits \ {Missing} : src' = [src EXCEPT ![f] = c]
    BY <1>4 DEF EditSource
  <2>2. c \in Content
    BY <2>1, SessionAssumption
  <2>3. c # Missing
    BY <2>1
  <2>4. src' \in [File -> Content \cup {Missing}] /\ (Exists(sfile) => Exists(sfile)')
    BY <1>4, <2>1, <2>2, <2>3 DEF EditSource, TypeOK, SenderTypeOK, Exists, senderVars
  <2>5. edits' \in 0..MaxEdits
    BY <1>4, SessionAssumption DEF EditSource, TypeOK
  <2> QED
    BY <1>4, <2>4, <2>5 DEF EditSource, TypeOK, WireTypeOK, SenderTypeOK, ReceiverTypeOK,
              net, senderVars, receiverVars
<1>5. CASE RemoveSource
  <2>1. PICK f \in File \ {sfile} : src' = [src EXCEPT ![f] = Missing]
    BY <1>5 DEF RemoveSource
  <2>2. src' \in [File -> Content \cup {Missing}] /\ (Exists(sfile) => Exists(sfile)')
    BY <1>5, <2>1 DEF RemoveSource, TypeOK, SenderTypeOK, Exists, senderVars
  <2>3. edits' \in 0..MaxEdits
    BY <1>5, SessionAssumption DEF RemoveSource, TypeOK
  <2> QED
    BY <1>5, <2>2, <2>3 DEF RemoveSource, TypeOK, WireTypeOK, SenderTypeOK, ReceiverTypeOK,
              net, senderVars, receiverVars
<1>6. CASE Terminated
  BY <1>6 DEF Terminated, TypeOK, WireTypeOK, SenderTypeOK, ReceiverTypeOK, Exists,
              vars, net, world, senderVars, receiverVars
<1> QED
  BY <1>1, <1>2, <1>3, <1>4, <1>5, <1>6

LEMMA NextTypeOK == TypeOK /\ [Next]_vars => TypeOK'
<1> SUFFICES ASSUME TypeOK, [Next]_vars PROVE TypeOK'
  OBVIOUS
<1>1. CASE SenderNext
  <2>1. SenderStep /\ UNCHANGED <<world, verify, receiverVars, dst>>
    BY <1>1 DEF SenderNext
  <2>2. SenderPart'
    BY <2>1, SenderStepType DEF world, receiverVars
  <2> QED
    BY <2>1, <2>2 DEF TypeOK, SenderPart, ReceiverTypeOK, world, receiverVars
<1>2. CASE ReceiverNext
  <2>1. ReceiverStep /\ UNCHANGED <<world, senderVars>>
    BY <1>2 DEF ReceiverNext
  <2>2. ReceiverPart'
    BY <2>1, ReceiverStepType DEF senderVars
  <2>3. verify' = verify
    BY <2>1 DEF ReceiverStep, ReadHeader, WriteAck, WriteAckFails, OutputDir, OutputDirFails,
       ReadRecord, Create, CreateFails, RecvBlock, WriteFails, FinishFile, RecvFails, ReadTrailer
  <2> QED
    BY <2>1, <2>2, <2>3 DEF TypeOK, ReceiverPart, SenderTypeOK, world, senderVars, Exists
<1>3. CASE UNCHANGED vars
  BY <1>3 DEF TypeOK, WireTypeOK, SenderTypeOK, ReceiverTypeOK, Exists,
              vars, net, world, senderVars, receiverVars
<1> QED
  BY <1>1, <1>2, <1>3, EnvironmentType DEF Next

\* Type correctness: every variable keeps its type whatever the processes and
\* the environment do, and a socket is open exactly while its process runs.
THEOREM TypeCorrect == Spec => []TypeOK
BY InitTypeOK, NextTypeOK, PTL DEF Spec

-----------------------------------------------------------------------------
(* The grammar of the stream. *)

\* Behind the end of an entry only the next one, or DONE, may start.
LEMMA BeforeFollows ==
    ASSUME TypeOK, manifest # <<>>, NEW i \in 1..(Len(manifest) + 1), NEW a, Before(i, a), NEW b
    PROVE  Follows(a, b) <=> StartsNext(i - 1, b)
<1>1. Len(manifest) \in Nat /\ Len(manifest) # 0
  BY LenProperties, EmptySeq DEF TypeOK, SenderTypeOK
<1>2. CASE i = 1
  <2>1. a.kind = "HDR"
    BY <1>2 DEF Before, Hdr
  <2> QED
    BY <1>1, <1>2, <2>1 DEF Follows, StartsNext
<1>3. CASE i # 1
  <2>1. i - 1 \in 1..Len(manifest)
    BY <1>1, <1>3
  <2>2. Passed(i - 1, manifest[i - 1].size, a)
    BY <1>3 DEF Before
  <2>3. CASE manifest[i - 1].size = 0
    <3>1. a.kind = "FILE" /\ a.at = i - 1 /\ a.entry.size = 0
      BY <2>2, <2>3 DEF Passed, Rec
    <3> QED
      BY <3>1 DEF Follows
  <2>4. CASE manifest[i - 1].size # 0
    <3>1. a.kind = "DATA" /\ a.at = i - 1 /\ a.blk = manifest[i - 1].size
      BY <2>2, <2>4 DEF Passed
    <3> QED
      BY <3>1 DEF Follows
  <2> QED
    BY <2>3, <2>4
<1> QED
  BY <1>2, <1>3

LEMMA EntryDone ==
    ASSUME TypeOK, manifest # <<>>, NEW i \in 0..Len(manifest), NEW a, Before(i + 1, a), NEW b,
           Follows(a, b)
    PROVE  StartsNext(i, b)
<1>1. PICK j : j = i + 1
  OBVIOUS
<1>2. Len(manifest) \in Nat
  BY LenProperties DEF TypeOK, SenderTypeOK
<1>3. j \in 1..(Len(manifest) + 1) /\ j - 1 = i
  BY <1>1, <1>2
<1>4. Before(j, a)
  BY <1>1
<1>5. StartsNext(j - 1, b)
  BY <1>3, <1>4, BeforeFollows
<1> QED
  BY <1>3, <1>5

\* Inside an entry only its next block may follow.
LEMMA PassedFollows ==
    ASSUME NEW i, NEW n \in Nat, n < manifest[i].size, manifest[i].size \in Nat,
           NEW a, Passed(i, n, a), NEW b
    PROVE  Follows(a, b) <=> b.kind = "DATA" /\ b.at = i /\ b.blk = n + 1
<1>1. CASE n = 0
  <2>1. a.kind = "FILE" /\ a.at = i /\ a.entry.size # 0
    BY <1>1 DEF Passed, Rec
  <2> QED
    BY <1>1, <2>1 DEF Follows
<1>2. CASE n # 0
  <2>1. a.kind = "DATA" /\ a.at = i /\ a.blk = n /\ a.blk # manifest[i].size
    BY <1>2 DEF Passed
  <2> QED
    BY <2>1 DEF Follows
<1> QED
  BY <1>1, <1>2

\* An item that may follow the last one extends the stream.
LEMMA Push ==
    ASSUME TypeOK, Stream, NEW item \in Item, wire' = Append(wire, item), manifest' = manifest,
           wire = <<>> => manifest # <<>> /\ item = Hdr(Len(manifest)),
           wire # <<>> => Follows(wire[Len(wire)], item)
    PROVE  /\ Stream'
           /\ wire' # <<>>
           /\ wire'[Len(wire')] = item
           /\ Len(wire') = Len(wire) + 1
<1>1. wire \in Seq(Item) /\ Len(wire) \in Nat
  BY LenProperties DEF TypeOK, WireTypeOK
<1>2. /\ Len(wire') = Len(wire) + 1
      /\ \A k \in 1..Len(wire) : wire'[k] = wire[k]
      /\ wire'[Len(wire) + 1] = item
  BY <1>1, AppendProperties
<1>3. wire' # <<>> /\ (wire # <<>> => Len(wire) # 0)
  BY <1>1, <1>2, EmptySeq, AppendProperties
<1>4. manifest' # <<>> /\ wire'[1] = Hdr(Len(manifest))'
  <2>1. CASE wire = <<>>
    <3>1. Len(wire) = 0
      BY <2>1
    <3> QED
      BY <2>1, <3>1, <1>2 DEF Hdr
  <2>2. CASE wire # <<>>
    <3>1. 1 \in 1..Len(wire)
      BY <2>2, <1>1, <1>3
    <3> QED
      BY <2>2, <3>1, <1>2 DEF Stream, Hdr
  <2> QED
    BY <2>1, <2>2
<1>5. ASSUME NEW k \in 1..(Len(wire') - 1) PROVE Follows(wire[k], wire[k + 1])'
  <2>1. CASE k = Len(wire)
    <3>1. wire # <<>>
      BY <2>1
    <3>2. wire'[k] = wire[k] /\ wire'[k + 1] = item
      BY <2>1, <1>1, <1>2
    <3>3. Follows(wire[k], item)
      BY <2>1, <3>1
    <3> QED
      BY <3>2, <3>3 DEF Follows, StartsNext, Rec, DoneMark
  <2>2. CASE k # Len(wire)
    <3>1. k \in 1..(Len(wire) - 1) /\ wire'[k] = wire[k] /\ wire'[k + 1] = wire[k + 1]
      BY <2>2, <1>1, <1>2
    <3>2. Follows(wire[k], wire[k + 1])
      BY <3>1 DEF Stream
    <3> QED
      BY <3>1, <3>2 DEF Follows, StartsNext, Rec, DoneMark
  <2> QED
    BY <2>1, <2>2
<1> QED
  BY <1>2, <1>3, <1>4, <1>5 DEF Stream

\* So does a step that pushes nothing and leaves what was announced alone.
LEMMA NoPush ==
    ASSUME TypeOK, Stream, wire' = wire, wire # <<>> => manifest' = manifest
    PROVE  Stream'
<1>1. CASE wire = <<>>
  <2>1. Len(wire') = 0
    BY <1>1
  <2> QED
    BY <1>1, <2>1 DEF Stream
<1>2. CASE wire # <<>>
  <2>1. manifest' # <<>> /\ wire'[1] = Hdr(Len(manifest))'
    BY <1>2 DEF Stream, Hdr
  <2>2. ASSUME NEW k \in 1..(Len(wire') - 1) PROVE Follows(wire[k], wire[k + 1])'
    <3>1. wire'[k] = wire[k] /\ wire'[k + 1] = wire[k + 1] /\ Follows(wire[k], wire[k + 1])
      BY DEF Stream
    <3> QED
      BY <1>2, <3>1 DEF Follows, StartsNext, Rec, DoneMark
  <2> QED
    BY <2>1, <2>2 DEF Stream
<1> QED
  BY <1>1, <1>2
-----------------------------------------------------------------------------
(* The sender. *)

\* The part of InPlace that is about the sender and the Ack.
SenderInPlace == Stream /\ SenderPlace /\ AckOrder

\* The sender ends without pushing anything more.
LEMMA SenderLeaves ==
    ASSUME TypeOK, SenderInPlace, NEW result \in SenderEnded, ReturnSender(result),
           result = "ok" => wire = <<>>, wire' = wire, rd' = rd, ack' = ack, rpc' = rpc,
           wire # <<>> => manifest' = manifest
    PROVE  SenderInPlace'
<1>1. spc' = result
  BY DEF ReturnSender
<1>2. Stream'
  BY NoPush DEF SenderInPlace
<1>3. SenderPlace'
  BY <1>1 DEF SenderPlace, SenderEnded
<1>4. AckOrder'
  BY <1>1 DEF AckOrder, SenderInPlace, SenderEnded
<1> QED
  BY <1>2, <1>3, <1>4 DEF SenderInPlace

\* Up to the session header nothing is on the wire.
LEMMA SenderPrepares ==
    ASSUME TypeOK, SenderInPlace, spc \in {"collect", "hash", "hashing"},
           spc' \in {"hash", "hashing", "hello"}, UNCHANGED <<wire, rd, ack, rpc>>
    PROVE  SenderInPlace'
<1>1. wire = <<>>
  BY DEF SenderInPlace, SenderPlace
<1>2. Stream'
  BY <1>1, NoPush DEF SenderInPlace
<1>3. SenderPlace'
  BY <1>1 DEF SenderPlace
<1>4. AckOrder'
  BY DEF AckOrder, SenderInPlace
<1> QED
  BY <1>2, <1>3, <1>4 DEF SenderInPlace

\* A source file is opened, or the call fails.
LEMMA OpenInPlace ==
    ASSUME TypeOK, SenderInPlace, NEW e, NEW next, OpenSource(e, next),
           UNCHANGED <<wire, rd, ack, rpc, manifest>>, spc' = next => SenderInPlace'
    PROVE  SenderInPlace'
<1>1. CASE Exists(ResolveOnDisk(e))
  BY <1>1 DEF OpenSource
<1>2. CASE ~Exists(ResolveOnDisk(e))
  <2>1. ReturnSender("failed")
    BY <1>2 DEF OpenSource, FailSender
  <2> QED
    BY <2>1, SenderLeaves DEF SenderEnded
<1> QED
  BY <1>1, <1>2

LEMMA BeginInPlace ==
    ASSUME TypeOK, SenderInPlace, spc = "collect", NEW m, BeginHashing(m),
           UNCHANGED <<wire, rd, ack, rpc>>
    PROVE  SenderInPlace'
<1>1. wire = <<>>
  BY DEF SenderInPlace, SenderPlace
<1>2. CASE m = <<>>
  BY <1>1, <1>2, SenderLeaves DEF BeginHashing, SenderEnded
<1>3. CASE m # <<>>
  BY <1>3, SenderPrepares DEF BeginHashing
<1> QED
  BY <1>2, <1>3

\* An item goes out: the Ack is there unless it is the first.
LEMMA PushInPlace ==
    ASSUME TypeOK, SenderInPlace, NEW item \in Item, SendAll(item),
           UNCHANGED <<rd, ack, rpc, manifest>>,
           wire = <<>> => manifest # <<>> /\ item = Hdr(Len(manifest)),
           wire # <<>> => ack = "read" /\ Follows(wire[Len(wire)], item),
           spc' \in {"record", "open", "payload", "done"} => ack = "read"
    PROVE  /\ Stream' /\ AckOrder'
           /\ wire' # <<>>
           /\ wire'[Len(wire')] = item
           /\ wire = <<>> => Len(wire') = 1
<1>1. wire' = Append(wire, item)
  BY DEF SendAll
<1>2. Stream' /\ wire' # <<>> /\ wire'[Len(wire')] = item /\ Len(wire') = Len(wire) + 1
  BY <1>1, Push DEF SenderInPlace
<1>3. wire = <<>> => Len(wire') = 1
  BY <1>2
<1>4. AckOrder'
  BY <1>2, <1>3 DEF AckOrder, SenderInPlace
<1> QED
  BY <1>2, <1>3, <1>4

\* Every step of the sender pushes what comes next in the stream, or nothing.
LEMMA SenderStepInPlace ==
    ASSUME TypeOK, SenderInPlace, SenderStep, rpc' = rpc
    PROVE  SenderInPlace'
<1> USE DEF SenderEnded
<1>0. Stream /\ SenderPlace /\ AckOrder
  BY DEF SenderInPlace
<1>1. CASE Collect
  <2>1. PICK m : BeginHashing(m)
    BY <1>1 DEF Collect
  <2> QED
    BY <1>1, <2>1, BeginInPlace DEF Collect
<1>2. CASE TakeManifest
  BY <1>2, BeginInPlace DEF TakeManifest
<1>3. CASE HashSkip
  BY <1>3, SenderPrepares DEF HashSkip, NextHash, net
<1>4. CASE HashOpen
  <2>1. OpenSource(manifest[si], "hashing") /\ spc = "hash" /\ UNCHANGED <<wire, rd, ack, manifest>>
    BY <1>4 DEF HashOpen
  <2>2. spc' = "hashing" => SenderInPlace'
    BY <2>1, SenderPrepares
  <2> QED
    BY <2>1, <2>2, OpenInPlace
<1>5. CASE HashBlock
  BY <1>5, SenderPrepares DEF HashBlock, net
<1>6. CASE HashClose
  BY <1>6, SenderPrepares DEF HashClose, NextHash, net
<1>7. CASE SendHeader
  <2>1. manifest # <<>> /\ wire = <<>> /\ Hdr(Len(manifest)) \in Item
    BY <1>0, <1>7, SenderFacts, ItemTypes, EmptySeq DEF SendHeader, SenderPlace
  <2>2. Stream' /\ AckOrder' /\ wire' # <<>> /\ Len(wire') = 1
    BY <1>7, <2>1, PushInPlace DEF SendHeader
  <2>3. SenderPlace'
    BY <1>7, <2>2 DEF SendHeader, SenderPlace
  <2> QED
    BY <2>2, <2>3 DEF SenderInPlace
<1>8. CASE ReadAck
  <2>1. /\ spc = "await_ack" /\ spc' = "record" /\ si' = 1 /\ ack = "sent" /\ ack' = "read"
        /\ UNCHANGED <<wire, rd, manifest>>
    BY <1>8 DEF ReadAck
  <2>2. Stream'
    BY <1>0, <2>1, NoPush
  <2>3. wire # <<>> /\ Len(wire) = 1 /\ wire[1] = Hdr(Len(manifest))
    BY <1>0, <2>1 DEF SenderPlace, Stream
  <2>4. SenderPlace'
    BY <2>1, <2>3 DEF SenderPlace, Before, Hdr
  <2>5. AckOrder'
    BY <1>0, <2>1 DEF AckOrder
  <2> QED
    BY <2>2, <2>4, <2>5 DEF SenderInPlace
<1>9. CASE ReadAckFails
  <2>1. ReturnSender("failed") /\ UNCHANGED <<wire, rd, ack, manifest>>
    BY <1>9 DEF ReadAckFails, FailSender
  <2> QED
    BY <2>1, SenderLeaves DEF SenderEnded
<1>10. CASE SendRecord
  <2>1. /\ spc = "record" /\ spc' = "open" /\ SendAll(Rec(si, manifest[si]))
        /\ UNCHANGED <<rd, ack, manifest, si>>
    BY <1>10 DEF SendRecord
  <2>2. /\ wire # <<>> /\ manifest # <<>> /\ Before(si, wire[Len(wire)]) /\ ack = "read"
        /\ si \in 1..Len(manifest) /\ Len(manifest) \in Nat /\ manifest[si] \in Entry
    BY <1>0, <2>1, SenderFacts DEF SenderPlace, AckOrder, Stream
  <2>3. StartsNext(si - 1, Rec(si, manifest[si]))
    BY <2>2 DEF StartsNext
  <2>4. Follows(wire[Len(wire)], Rec(si, manifest[si]))
    BY <2>2, <2>3, BeforeFollows
  <2>5. Rec(si, manifest[si]) \in Item
    BY <2>2, ItemTypes
  <2>6. Stream' /\ AckOrder' /\ wire' # <<>> /\ wire'[Len(wire')] = Rec(si, manifest[si])
    BY <2>1, <2>2, <2>4, <2>5, PushInPlace
  <2>7. SenderPlace'
    BY <2>1, <2>6 DEF SenderPlace, Passed, Rec
  <2> QED
    BY <2>6, <2>7 DEF SenderInPlace
<1>11. CASE RefuseLongPath
  <2>1. ReturnSender("failed") /\ UNCHANGED <<wire, rd, ack, manifest>>
    BY <1>11 DEF RefuseLongPath, FailSender
  <2> QED
    BY <2>1, SenderLeaves DEF SenderEnded
<1>12. CASE OpenPayload
  <2>1. /\ OpenSource(manifest[si], "payload") /\ spc = "open" /\ soff' = 0
        /\ UNCHANGED <<wire, rd, ack, manifest, si>>
    BY <1>12 DEF OpenPayload
  <2>2. ASSUME spc' = "payload" PROVE SenderInPlace'
    <3>1. Stream' /\ AckOrder'
      BY <1>0, <2>1, <2>2, NoPush DEF AckOrder
    <3>2. wire # <<>> /\ Passed(si, 0, wire[Len(wire)]) /\ manifest[si].size \in Nat
      BY <1>0, <2>1, SenderFacts DEF SenderPlace
    <3>3. SenderPlace'
      BY <2>1, <2>2, <3>2 DEF SenderPlace, Passed, Rec
    <3> QED
      BY <3>1, <3>3 DEF SenderInPlace
  <2> QED
    BY <2>1, <2>2, OpenInPlace
<1>13. CASE SendBlock
  <2> DEFINE item == Data(si, soff + 1, src[sfile][soff + 1])
  <2>1. /\ spc = "payload" /\ spc' = spc /\ SendAll(item) /\ soff' = soff + 1
        /\ soff < manifest[si].size /\ soff < Len(src[sfile])
        /\ UNCHANGED <<rd, ack, manifest, si>>
    BY <1>13 DEF SendBlock, PayloadMore
  <2>2. /\ wire # <<>> /\ Passed(si, soff, wire[Len(wire)]) /\ ack = "read"
        /\ si \in Nat /\ soff \in Nat /\ manifest[si].size \in Nat
    BY <1>0, <2>1, SenderFacts DEF SenderPlace, AckOrder, TypeOK, SenderTypeOK
  <2>3. item \in Item
    <3>1. src[sfile] \in Content
      BY <2>1, ExistsHasContent DEF TypeOK, SenderTypeOK
    <3>2. src[sfile][soff + 1] \in Block
      BY <2>1, <2>2, <3>1, ContentRead
    <3>3. si \in Nat /\ soff + 1 \in Nat
      BY <2>2
    <3> QED
      BY <3>2, <3>3, ItemTypes
  <2>4. item.kind = "DATA" /\ item.at = si /\ item.blk = soff + 1
    BY DEF Data
  <2> HIDE DEF item
  <2>5. Follows(wire[Len(wire)], item)
    BY <2>1, <2>2, <2>4, PassedFollows
  <2>6. Stream' /\ AckOrder' /\ wire' # <<>> /\ wire'[Len(wire')] = item
    BY <2>1, <2>2, <2>3, <2>5, PushInPlace
  <2>7. SenderPlace'
    BY <2>1, <2>2, <2>4, <2>6 DEF SenderPlace, Passed
  <2> QED
    BY <2>6, <2>7 DEF SenderInPlace
<1>14. CASE ClosePayload
  <2>1. /\ spc = "payload" /\ soff = manifest[si].size /\ NextRecord
        /\ UNCHANGED <<wire, rd, ack, manifest>>
    BY <1>14 DEF ClosePayload, net
  <2>2. /\ wire # <<>> /\ Passed(si, manifest[si].size, wire[Len(wire)])
        /\ si \in 1..Len(manifest) /\ Len(manifest) \in Nat
    BY <1>0, <2>1, SenderFacts DEF SenderPlace
  <2>3. Before(si + 1, wire[Len(wire)])
    BY <2>2 DEF Before
  <2>4. \/ spc' = "done" /\ si = Len(manifest)
        \/ spc' = "record" /\ si' = si + 1
    BY <2>1 DEF NextRecord
  <2>5. SenderPlace'
    BY <2>1, <2>2, <2>3, <2>4 DEF SenderPlace, Before, Passed, Rec, Hdr
  <2>6. Stream' /\ AckOrder'
    BY <1>0, <2>1, <2>4, NoPush DEF AckOrder
  <2> QED
    BY <2>5, <2>6 DEF SenderInPlace
<1>15. CASE ShortFile
  <2>1. ReturnSender("failed") /\ UNCHANGED <<wire, rd, ack, manifest>>
    BY <1>15 DEF ShortFile, FailSender
  <2> QED
    BY <2>1, SenderLeaves DEF SenderEnded
<1>16. CASE SendDone
  <2>1. /\ spc = "done" /\ spc' = "ok" /\ SendAll(DoneMark) /\ UNCHANGED <<rd, ack, manifest>>
    BY <1>16 DEF SendDone, ReturnSender
  <2>2. /\ wire # <<>> /\ manifest # <<>> /\ Before(Len(manifest) + 1, wire[Len(wire)])
        /\ ack = "read" /\ Len(manifest) \in Nat
    BY <1>0, <2>1, SenderFacts DEF SenderPlace, AckOrder, Stream
  <2>3. StartsNext(Len(manifest) + 1 - 1, DoneMark)
    BY <2>2 DEF StartsNext
  <2>4. Follows(wire[Len(wire)], DoneMark)
    BY <2>2, <2>3, BeforeFollows
  <2>5. Stream' /\ AckOrder' /\ wire'[Len(wire')] = DoneMark
    BY <2>1, <2>2, <2>4, ItemTypes, PushInPlace
  <2>6. SenderPlace'
    BY <2>1, <2>5 DEF SenderPlace, DoneMark
  <2> QED
    BY <2>5, <2>6 DEF SenderInPlace
<1>17. CASE SendFails
  <2>1. PICK result \in {"failed", "killed"} : ReturnSender(result)
    BY <1>17 DEF SendFails, FailSender
  <2>2. UNCHANGED <<wire, rd, ack, manifest>>
    BY <1>17 DEF SendFails
  <2> QED
    BY <2>1, <2>2, SenderLeaves
<1> QED
  BY <1>1, <1>2, <1>3, <1>4, <1>5, <1>6, <1>7, <1>8, <1>9, <1>10, <1>11, <1>12,
     <1>13, <1>14, <1>15, <1>16, <1>17 DEF SenderStep
-----------------------------------------------------------------------------
(* The receiver. *)

\* What the receiver takes next follows what it took last.
LEMMA NextItem ==
    ASSUME TypeOK, Stream, Arrived
    PROVE  /\ rd \in Nat /\ wire # <<>> /\ manifest # <<>>
           /\ rd = 0 => Incoming = Hdr(Len(manifest))
           /\ rd >= 1 => Follows(wire[rd], Incoming)
<1>1. Len(wire) \in Nat /\ rd \in Nat /\ rd < Len(wire)
  BY LenProperties DEF TypeOK, WireTypeOK, Arrived
<1>2. wire # <<>>
  BY <1>1
<1>3. manifest # <<>> /\ wire[1] = Hdr(Len(manifest))
  BY <1>2 DEF Stream
<1>4. rd = 0 => Incoming = wire[1]
  BY DEF Incoming
<1>5. ASSUME rd >= 1 PROVE Follows(wire[rd], Incoming)
  <2>1. rd \in 1..(Len(wire) - 1)
    BY <1>1, <1>5
  <2> QED
    BY <2>1 DEF Stream, Incoming
<1> QED
  BY <1>1, <1>2, <1>3, <1>4, <1>5

\* In place means in step.
LEMMA InPlaceInStep ==
    ASSUME TypeOK, InPlace, WellFormed
    PROVE  InStep
<1> SUFFICES ASSUME Arrived PROVE InStep
  BY DEF InStep
<1>1. Stream /\ AckOrder /\ ReceiverPlace
  BY DEF InPlace
<1>2. /\ rd \in Nat /\ manifest # <<>>
      /\ rd = 0 => Incoming = Hdr(Len(manifest))
      /\ rd >= 1 => Follows(wire[rd], Incoming)
  BY <1>1, NextItem
<1>3. Len(manifest) \in Nat /\ ri \in 0..total /\ total \in Nat
  BY LenProperties DEF TypeOK, SenderTypeOK, ReceiverTypeOK
<1>4. CASE rpc = "hello"
  BY <1>1, <1>2, <1>4 DEF ReceiverPlace, InStep
<1>5. CASE rpc = "record"
  <2>1. rd >= 1 /\ total = Len(manifest) /\ Before(ri + 1, wire[rd]) /\ ri < total
    BY <1>1, <1>5 DEF AckOrder, ReceiverPlace, ReceiverEnded, TypeOK, ReceiverTypeOK
  <2>2. ri \in 0..Len(manifest)
    BY <1>3, <2>1
  <2>3. StartsNext(ri, Incoming)
    BY <1>2, <2>1, <2>2, EntryDone
  <2>4. Incoming = Rec(ri + 1, manifest[ri + 1])
    <3>1. ri # Len(manifest)
      BY <1>3, <2>1
    <3> QED
      BY <2>3, <3>1 DEF StartsNext
  <2> QED
    BY <1>5, <2>4 DEF InStep
<1>6. CASE rpc = "payload" /\ Len(rgot) < rentry.size
  <2>1. /\ rd >= 1 /\ total = Len(manifest) /\ rentry = manifest[ri + 1]
        /\ Passed(ri + 1, Len(rgot), wire[rd]) /\ rentry \in Entry /\ rgot \in Seq(Block)
    BY <1>1, <1>6 DEF AckOrder, ReceiverPlace, ReceiverEnded, TypeOK, ReceiverTypeOK
  <2>2. Len(rgot) \in Nat /\ manifest[ri + 1].size \in Nat /\ Len(rgot) < manifest[ri + 1].size
    BY <1>6, <2>1, LenProperties DEF Entry
  <2>3. Follows(wire[rd], Incoming)
    BY <1>2, <2>1
  <2>4. /\ Incoming.kind = "DATA" /\ Incoming.at = ri + 1
        /\ Incoming.blk = Len(rgot) + 1
    BY <2>1, <2>2, <2>3, PassedFollows
  <2> QED
    BY <1>6, <2>4 DEF InStep
<1>7. CASE rpc = "trailer"
  <2>1. rd >= 1 /\ total = Len(manifest) /\ Before(ri + 1, wire[rd]) /\ ri = total
    BY <1>1, <1>7 DEF AckOrder, ReceiverPlace, ReceiverEnded
  <2>2. ri \in 0..Len(manifest)
    BY <1>3, <2>1
  <2>3. StartsNext(ri, Incoming)
    BY <1>2, <2>1, <2>2, EntryDone
  <2>4. Incoming = DoneMark
    BY <2>1, <2>3 DEF StartsNext
  <2> QED
    BY <1>7, <2>4 DEF InStep
<1> QED
  BY <1>4, <1>5, <1>6, <1>7 DEF InStep

\* The sender's side is left alone by the receiver.
LEMMA SenderUndisturbed ==
    ASSUME TypeOK, InPlace, wire' = wire, UNCHANGED senderVars, opts' = opts, AckOrder',
           WellFormed => ReceiverPlace'
    PROVE  InPlace'
<1>1. manifest' = manifest /\ spc' = spc /\ si' = si /\ soff' = soff
  BY DEF senderVars
<1>2. Stream'
  BY <1>1, NoPush DEF InPlace
<1>3. SenderPlace'
  BY <1>1 DEF InPlace, SenderPlace, Before, Passed, Hdr, Rec, DoneMark
<1>4. WellFormed' => WellFormed
  BY DEF WellFormed, EmptyPath
<1>5. WellFormed => PathlessIsEmpty'
  BY <1>1 DEF InPlace, PathlessIsEmpty, EmptyPath
<1> QED
  BY <1>2, <1>3, <1>4, <1>5 DEF InPlace

\* The receiver ends.
LEMMA ReceiverLeaves ==
    ASSUME TypeOK, InPlace, NEW result \in ReceiverEnded, rpc' = result, rd' = rd \/ rd' = rd + 1,
           wire' = wire, ack' = ack, UNCHANGED senderVars, opts' = opts
    PROVE  InPlace'
<1>1. AckOrder'
  BY DEF InPlace, AckOrder, ReceiverEnded, TypeOK, WireTypeOK, senderVars
<1>2. ReceiverPlace'
  BY DEF ReceiverPlace, ReceiverEnded
<1> QED
  BY <1>1, <1>2, SenderUndisturbed

\* What the receiver knows inside the session.
LEMMA ReceiverFacts ==
    ASSUME TypeOK, InPlace, WellFormed
    PROVE  /\ ReceiverPlace /\ PathlessIsEmpty /\ InStep
           /\ ri \in Nat /\ total \in Nat /\ ri <= total
           /\ rd \in Nat /\ Len(manifest) \in Nat
           /\ rd >= 1 => Len(manifest) # 0 /\ wire[1] = Hdr(Len(manifest))
<1>1. ReceiverPlace /\ PathlessIsEmpty /\ InStep
  BY InPlaceInStep DEF InPlace
<1>2. ri \in Nat /\ total \in Nat /\ ri <= total
  BY DEF TypeOK, ReceiverTypeOK
<1>3. rd \in Nat /\ Len(manifest) \in Nat /\ Len(wire) \in Nat /\ rd <= Len(wire)
  BY LenProperties DEF TypeOK, WireTypeOK, SenderTypeOK
<1>4. ASSUME rd >= 1 PROVE Len(manifest) # 0 /\ wire[1] = Hdr(Len(manifest))
  <2>1. wire # <<>>
    BY <1>3, <1>4
  <2>2. manifest # <<>> /\ wire[1] = Hdr(Len(manifest))
    BY <2>1 DEF InPlace, Stream
  <2> QED
    BY <2>2, EmptySeq DEF TypeOK, SenderTypeOK
<1> QED
  BY <1>1, <1>2, <1>3, <1>4

\* The entry the receiver is at is passed: it goes on with the next one.
LEMMA EntryPassed ==
    ASSUME TypeOK, InPlace, WellFormed, rpc \in {"record", "payload"}, ri < total,
           NEW item, Passed(ri + 1, manifest[ri + 1].size, item),
           ri' = ri + 1, rpc' = AfterRecords(ri + 1), total' = total, manifest' = manifest,
           wire'[rd'] = item
    PROVE  ReceiverPlace'
<1>1. ri \in Nat /\ total \in Nat /\ total = Len(manifest)
  BY ReceiverFacts DEF ReceiverPlace, ReceiverEnded
<1>2. Before(ri + 2, item)
  <2>1. PICK j : j = ri + 2
    OBVIOUS
  <2>2. j # 1 /\ j - 1 = ri + 1
    BY <1>1, <2>1
  <2>3. Before(j, item)
    BY <2>2 DEF Before
  <2> QED
    BY <2>1, <2>3
<1>3. Before(ri + 1, wire[rd])'
  BY <1>1, <1>2 DEF Before, Passed, Rec, Hdr
<1>4. \/ rpc' = "record"
      \/ rpc' = "trailer" /\ ri' = total'
  BY DEF AfterRecords
<1> QED
  BY <1>1, <1>3, <1>4 DEF ReceiverPlace, ReceiverEnded

\* Every step of the receiver takes what it expects, or nothing.
LEMMA ReceiverStepInPlace ==
    ASSUME TypeOK, InPlace, ReceiverStep, UNCHANGED senderVars, opts' = opts
    PROVE  InPlace'
<1> USE DEF ReceiverEnded
<1>a. AckOrder /\ rd \in Nat
  BY DEF InPlace, TypeOK, WireTypeOK
<1>b. ASSUME FailReceiver, rd' = rd \/ rd' = rd + 1, wire' = wire, ack' = ack
      PROVE  InPlace'
  <2>1. rpc' = "failed"
    BY <1>b DEF FailReceiver, ReturnReceiver
  <2> QED
    BY <1>b, <2>1, ReceiverLeaves
<1>c. manifest' = manifest /\ spc' = spc /\ si' = si /\ soff' = soff
  BY DEF senderVars
<1>d. ASSUME wire' = wire, rd' = rd \/ rd' = rd + 1, ack' = ack,
             rpc \notin {"hello"} \cup ReceiverEnded, rpc' \notin {"hello", "ack"}
      PROVE  AckOrder'
  BY <1>a, <1>c, <1>d DEF AckOrder
<1>1. CASE ReadHeader
  <2>1. rpc = "hello" /\ Arrived /\ rd' = rd + 1 /\ UNCHANGED <<wire, ack>>
    BY <1>1 DEF ReadHeader
  <2>2. CASE Incoming.kind = "HDR"
    <3>1. rpc' = "ack" /\ total' = Incoming.files
      BY <1>1, <2>2 DEF ReadHeader
    <3>2. AckOrder'
      BY <1>a, <1>c, <2>1, <3>1 DEF AckOrder
    <3>3. ASSUME WellFormed PROVE ReceiverPlace'
      <4>1. rd = 0 /\ Incoming = Hdr(Len(manifest))
        BY <2>1, <3>3, ReceiverFacts DEF ReceiverPlace, InStep
      <4> QED
        BY <1>c, <2>1, <3>1, <4>1 DEF ReceiverPlace, Hdr
    <3> QED
      BY <2>1, <3>2, <3>3, SenderUndisturbed
  <2>3. CASE Incoming.kind # "HDR"
    <3>1. FailReceiver
      BY <1>1, <2>3 DEF ReadHeader
    <3> QED
      BY <1>b, <2>1, <3>1
  <2> QED
    BY <2>2, <2>3
<1>2. CASE WriteAck
  <2>1. /\ rpc = "ack" /\ ack' = "sent" /\ rpc' = "outdir"
        /\ UNCHANGED <<wire, rd, total>>
    BY <1>2 DEF WriteAck
  <2>2. AckOrder'
    BY <1>a, <1>c, <2>1 DEF AckOrder
  <2>3. WellFormed => ReceiverPlace'
    BY <1>c, <2>1, ReceiverFacts DEF ReceiverPlace
  <2> QED
    BY <2>1, <2>2, <2>3, SenderUndisturbed
<1>3. CASE WriteAckFails
  <2>1. PICK result \in {"failed", "killed"} : ReturnReceiver(result)
    BY <1>3 DEF WriteAckFails
  <2>2. rpc' = result /\ UNCHANGED <<wire, rd, ack>>
    BY <1>3, <2>1 DEF WriteAckFails, ReturnReceiver
  <2> QED
    BY <2>1, <2>2, ReceiverLeaves
<1>4. CASE OutputDir
  <2>1. /\ rpc = "outdir" /\ rpc' = AfterRecords(0)
        /\ UNCHANGED <<wire, rd, ack, total, ri>> /\ ri = 0
    BY <1>4 DEF OutputDir, net, TypeOK, ReceiverTypeOK
  <2>2. AckOrder'
    BY <1>d, <2>1 DEF AfterRecords
  <2>3. ASSUME WellFormed PROVE ReceiverPlace'
    <3>1. rd = 1 /\ total = Len(manifest) /\ total # 0 /\ wire[1] = Hdr(Len(manifest))
      BY <2>1, <2>3, ReceiverFacts DEF ReceiverPlace
    <3>2. rpc' = "record"
      BY <2>1, <3>1 DEF AfterRecords
    <3>3. Before(ri + 1, wire[rd])'
      BY <1>c, <2>1, <3>1 DEF Before, Hdr
    <3> QED
      BY <1>c, <2>1, <3>1, <3>2, <3>3 DEF ReceiverPlace
  <2> QED
    BY <2>1, <2>2, <2>3, SenderUndisturbed
<1>5. CASE OutputDirFails
  BY <1>5, <1>b DEF OutputDirFails
<1>6. CASE ReadRecord
  <2>1. /\ rpc = "record" /\ Arrived /\ rd' = rd + 1 /\ ri < total
        /\ UNCHANGED <<wire, ack>> /\ wire'[rd'] = Incoming
    BY <1>6 DEF ReadRecord, TypeOK, ReceiverTypeOK, Incoming
  <2>2. CASE FailReceiver
    BY <1>b, <2>1, <2>2
  <2>3. CASE Incoming.kind = "FILE" /\ Incoming.entry.path = EmptyPath
    <3>1. ri' = ri + 1 /\ rpc' = AfterRecords(ri + 1) /\ total' = total
      BY <1>6, <2>3 DEF ReadRecord, AcceptRecord
    <3>2. AckOrder'
      BY <1>d, <2>1, <3>1 DEF AfterRecords
    <3>3. ASSUME WellFormed PROVE ReceiverPlace'
      <4>1. /\ Incoming = Rec(ri + 1, manifest[ri + 1]) /\ PathlessIsEmpty
            /\ total = Len(manifest) /\ ri \in Nat /\ Len(manifest) \in Nat
        BY <2>1, <3>3, ReceiverFacts DEF InStep, ReceiverPlace
      <4>2. ri + 1 \in DOMAIN manifest
        BY <2>1, <4>1 DEF TypeOK, SenderTypeOK
      <4>3. manifest[ri + 1].size = 0
        BY <2>3, <4>1, <4>2 DEF PathlessIsEmpty, Rec
      <4>4. Passed(ri + 1, manifest[ri + 1].size, Incoming)
        BY <4>1, <4>3 DEF Passed
      <4> QED
        BY <1>c, <2>1, <3>1, <3>3, <4>4, EntryPassed
    <3> QED
      BY <2>1, <3>2, <3>3, SenderUndisturbed
  <2>4. CASE Incoming.kind = "FILE" /\ Incoming.entry.path # EmptyPath /\ ~FailReceiver
    <3>1. rentry' = Incoming.entry /\ rpc' = "create" /\ UNCHANGED <<total, ri>>
      BY <1>6, <2>4 DEF ReadRecord, AcceptRecord
    <3>2. AckOrder'
      BY <1>d, <2>1, <3>1
    <3>3. ASSUME WellFormed PROVE ReceiverPlace'
      <4>1. Incoming = Rec(ri + 1, manifest[ri + 1]) /\ total = Len(manifest)
        BY <2>1, <3>3, ReceiverFacts DEF InStep, ReceiverPlace
      <4>2. Incoming.entry = manifest[ri + 1]
        BY <4>1 DEF Rec
      <4>3. Passed(ri + 1, 0, wire[rd])'
        BY <1>c, <2>1, <3>1, <4>1 DEF Passed, Rec
      <4> QED
        BY <1>c, <3>1, <4>1, <4>2, <4>3 DEF ReceiverPlace
    <3> QED
      BY <2>1, <3>2, <3>3, SenderUndisturbed
  <2> QED
    BY <1>6, <2>2, <2>3, <2>4 DEF ReadRecord
<1>7. CASE Create
  <2>1. /\ rpc = "create" /\ rgot' = <<>> /\ rpc' = "payload"
        /\ UNCHANGED <<wire, rd, ack, total, ri, rentry>>
    BY <1>7 DEF Create, net
  <2>2. AckOrder'
    BY <1>d, <2>1
  <2>3. ASSUME WellFormed PROVE ReceiverPlace'
    <3>1. total = Len(manifest) /\ rentry = manifest[ri + 1] /\ Passed(ri + 1, 0, wire[rd])
      BY <2>1, <2>3, ReceiverFacts DEF ReceiverPlace
    <3>2. Len(rgot)' = 0 /\ rentry.size \in Nat
      BY <2>1 DEF TypeOK, ReceiverTypeOK, Entry
    <3>3. Passed(ri + 1, Len(rgot), wire[rd])'
      BY <1>c, <2>1, <3>1, <3>2 DEF Passed, Rec
    <3> QED
      BY <1>c, <2>1, <3>1, <3>2, <3>3 DEF ReceiverPlace
  <2> QED
    BY <2>1, <2>2, <2>3, SenderUndisturbed
<1>8. CASE CreateFails
  BY <1>8, <1>b DEF CreateFails
<1>9. CASE RecvBlock
  <2>1. /\ rpc = "payload" /\ rpc' = rpc /\ Len(rgot) < rentry.size /\ Arrived /\ rd' = rd + 1
        /\ rgot' = Append(rgot, Bytes(Incoming)) /\ wire'[rd'] = Incoming
        /\ UNCHANGED <<wire, ack, total, ri, rentry>>
    BY <1>9 DEF RecvBlock, Incoming
  <2>2. AckOrder'
    BY <1>d, <2>1
  <2>3. ASSUME WellFormed PROVE ReceiverPlace'
    <3>1. /\ total = Len(manifest) /\ rentry = manifest[ri + 1]
          /\ Incoming.kind = "DATA" /\ Incoming.at = ri + 1 /\ Incoming.blk = Len(rgot) + 1
      BY <2>1, <2>3, ReceiverFacts DEF ReceiverPlace, InStep
    <3>2. rgot \in Seq(Block) /\ rentry.size \in Nat /\ Bytes(Incoming) \in Block
      BY <2>1, IncomingTypes DEF TypeOK, ReceiverTypeOK, Entry
    <3>3. Len(rgot') = Len(rgot) + 1 /\ Len(rgot) \in Nat
      BY <2>1, <3>2, AppendProperties, LenProperties
    <3>4. Passed(ri + 1, Len(rgot), wire[rd])'
      BY <1>c, <2>1, <3>1, <3>3 DEF Passed
    <3> QED
      BY <1>c, <2>1, <3>1, <3>2, <3>3, <3>4 DEF ReceiverPlace
  <2> QED
    BY <2>1, <2>2, <2>3, SenderUndisturbed
<1>10. CASE WriteFails
  BY <1>10, <1>b DEF WriteFails
<1>11. CASE FinishFile
  <2>1. /\ rpc = "payload" /\ Len(rgot) = rentry.size /\ ri < total
        /\ UNCHANGED <<wire, rd, ack>>
    BY <1>11 DEF FinishFile, TypeOK, ReceiverTypeOK
  <2>2. CASE Mismatch
    <3>1. FailReceiver
      BY <1>11, <2>2 DEF FinishFile
    <3> QED
      BY <1>b, <2>1, <3>1
  <2>3. CASE ~Mismatch
    <3>1. ri' = ri + 1 /\ rpc' = AfterRecords(ri + 1) /\ total' = total
      BY <1>11, <2>3 DEF FinishFile
    <3>2. AckOrder'
      BY <1>d, <2>1, <3>1 DEF AfterRecords
    <3>3. ASSUME WellFormed PROVE ReceiverPlace'
      <4>1. rentry = manifest[ri + 1] /\ Passed(ri + 1, Len(rgot), wire[rd])
        BY <2>1, <3>3, ReceiverFacts DEF ReceiverPlace
      <4>2. Passed(ri + 1, manifest[ri + 1].size, wire[rd]) /\ wire'[rd'] = wire[rd]
        BY <2>1, <4>1
      <4> QED
        BY <1>c, <2>1, <3>1, <3>3, <4>2, EntryPassed
    <3> QED
      BY <2>1, <3>2, <3>3, SenderUndisturbed
  <2> QED
    BY <2>2, <2>3
<1>12. CASE RecvFails
  BY <1>12, <1>b DEF RecvFails
<1>13. CASE ReadTrailer
  <2>1. rpc' = "ok" /\ (rd' = rd \/ rd' = rd + 1) /\ UNCHANGED <<wire, ack>>
    BY <1>13 DEF ReadTrailer, ReturnReceiver
  <2> QED
    BY <2>1, ReceiverLeaves
<1> QED
  BY <1>1, <1>2, <1>3, <1>4, <1>5, <1>6, <1>7, <1>8, <1>9, <1>10, <1>11, <1>12,
     <1>13 DEF ReceiverStep
-----------------------------------------------------------------------------
(* The receiver's side under the steps of the others. *)

\* The sender appends at most one item, and its manifest is final from the
\* session header on.
LEMMA SenderWrites ==
    ASSUME TypeOK, SenderPlace, SenderStep
    PROVE  /\ rd' = rd
           /\ wire' = wire \/ \E item : wire' = Append(wire, item)
           /\ wire # <<>> => manifest' = manifest
<1>1. ASSUME NEW item, SendAll(item) PROVE \E x : wire' = Append(wire, x)
  BY <1>1 DEF SendAll
<1>2. CASE Collect \/ TakeManifest \/ HashSkip \/ HashOpen \/ HashBlock \/ HashClose
  BY <1>2 DEF Collect, TakeManifest, HashSkip, HashOpen, HashBlock, HashClose, SenderPlace, net
<1>3. CASE SendHeader \/ SendRecord \/ SendBlock \/ SendDone
  BY <1>1, <1>3 DEF SendHeader, SendRecord, SendBlock, SendDone
<1>4. CASE ReadAck \/ ReadAckFails \/ RefuseLongPath \/ OpenPayload
           \/ ClosePayload \/ ShortFile \/ SendFails
  BY <1>4 DEF ReadAck, ReadAckFails, RefuseLongPath, OpenPayload, ClosePayload,
              ShortFile, SendFails, net
<1> QED
  BY <1>2, <1>3, <1>4 DEF SenderStep

\* What was taken stays taken.
LEMMA ReceiverUndisturbed ==
    ASSUME TypeOK, AckOrder, ReceiverPlace, rd' = rd, UNCHANGED receiverVars,
           wire' = wire \/ \E item : wire' = Append(wire, item),
           wire # <<>> => manifest' = manifest
    PROVE  ReceiverPlace'
<1>1. wire \in Seq(Item) /\ Len(wire) \in Nat /\ rd \in 0..Len(wire)
  BY LenProperties DEF TypeOK, WireTypeOK
<1>2. CASE rpc \in {"hello"} \cup ReceiverEnded
  BY <1>2 DEF ReceiverPlace, receiverVars, ReceiverEnded
<1>3. CASE rpc \notin {"hello"} \cup ReceiverEnded
  <2>1. rd >= 1 /\ wire # <<>> /\ manifest' = manifest
    BY <1>1, <1>3 DEF AckOrder
  <2>2. rd \in 1..Len(wire)
    BY <1>1, <2>1
  <2>3. wire'[rd] = wire[rd]
    <3>1. ASSUME NEW item, wire' = Append(wire, item) PROVE wire'[rd] = wire[rd]
      BY <1>1, <2>2, <3>1
    <3> QED
      BY <3>1
  <2> QED
    BY <1>3, <2>1, <2>3 DEF ReceiverPlace, receiverVars, Before, Passed, Hdr, Rec, ReceiverEnded
<1> QED
  BY <1>2, <1>3

\* CollectFiles lists no empty path, and hashing changes neither path nor size.
LEMMA PathlessStaysEmpty ==
    ASSUME TypeOK, WellFormed, PathlessIsEmpty, SenderStep, opts' = opts
    PROVE  PathlessIsEmpty'
<1>1. CASE Collect
  <2>1. CASE \E k \in DOMAIN opts.files : ~Exists(opts.files[k])
    <3>1. manifest' = <<>>
      BY <1>1, <2>1 DEF Collect, BeginHashing
    <3> QED
      BY <3>1 DEF PathlessIsEmpty
  <2>2. CASE ~\E k \in DOMAIN opts.files : ~Exists(opts.files[k])
    <3>1. PICK n \in 0..Cardinality(Listed) : \E m \in [1..n -> Listed] : BeginHashing(m)
      BY <1>1, <2>2 DEF Collect
    <3>2. PICK m \in [1..n -> Listed] : BeginHashing(m)
      BY <3>1
    <3>3. ASSUME NEW f, Exists(f) PROVE Scan(f).path # EmptyPath
      <4>1. f[2] \in Path
        BY <3>3 DEF Exists, File
      <4> QED
        BY <4>1, WireAssumption DEF Scan, EmptyPath
    <3>4. \A e \in Listed : e.path # EmptyPath
      BY <2>2, <3>3 DEF Listed
    <3>5. \A k \in DOMAIN m : m[k].path # EmptyPath
      BY <3>2, <3>4
    <3>6. manifest' = m
      BY <3>2 DEF BeginHashing
    <3> QED
      BY <3>5, <3>6 DEF PathlessIsEmpty, EmptyPath
  <2> QED
    BY <2>1, <2>2
<1>2. CASE TakeManifest
  <2>1. manifest' = opts.manifest /\ opts.api = "SendFiles"
    BY <1>2 DEF TakeManifest, BeginHashing
  <2> QED
    BY <2>1 DEF WellFormed, PathlessIsEmpty, EmptyPath
<1>3. CASE HashClose
  <2>1. manifest' = [manifest EXCEPT ![si].crc = Crc(sread)]
    BY <1>3 DEF HashClose
  <2>2. manifest \in Seq(Entry)
    BY DEF TypeOK, SenderTypeOK
  <2>3. /\ DOMAIN manifest' = DOMAIN manifest
        /\ \A k \in DOMAIN manifest :
              manifest'[k].path = manifest[k].path /\ manifest'[k].size = manifest[k].size
    <3>1. DOMAIN manifest' = DOMAIN manifest
      BY <2>1
    <3>2. ASSUME NEW k \in DOMAIN manifest
          PROVE  manifest'[k].path = manifest[k].path /\ manifest'[k].size = manifest[k].size
      <4>1. manifest[k] \in Entry
        BY <2>2
      <4>2. CASE k # si
        BY <2>1, <4>2
      <4>3. CASE k = si
        <5>1. manifest'[k] = [manifest[k] EXCEPT !.crc = Crc(sread)]
          BY <2>1, <4>3
        <5> QED
          BY <4>1, <5>1 DEF Entry
      <4> QED
        BY <4>2, <4>3
    <3> QED
      BY <3>1, <3>2
  <2> QED
    BY <2>3 DEF PathlessIsEmpty, EmptyPath
<1>4. ASSUME ~Collect, ~TakeManifest, ~HashClose PROVE manifest' = manifest
  <2>1. CASE HashSkip \/ HashOpen \/ HashBlock
    BY <2>1 DEF HashSkip, HashOpen, HashBlock
  <2>2. CASE SendHeader \/ SendRecord \/ SendBlock \/ SendDone
    BY <2>2 DEF SendHeader, SendRecord, SendBlock, SendDone
  <2>3. CASE ReadAck \/ ReadAckFails \/ RefuseLongPath \/ OpenPayload
             \/ ClosePayload \/ ShortFile \/ SendFails
    BY <2>3 DEF ReadAck, ReadAckFails, RefuseLongPath, OpenPayload, ClosePayload, ShortFile, SendFails
  <2> QED
    BY <1>4, <2>1, <2>2, <2>3 DEF SenderStep
<1>5. CASE manifest' = manifest
  BY <1>5 DEF PathlessIsEmpty, EmptyPath
<1> QED
  BY <1>1, <1>2, <1>3, <1>4, <1>5

-----------------------------------------------------------------------------
(* InPlace is inductive. *)

LEMMA InitInPlace == Init => InPlace
<1> SUFFICES ASSUME Init PROVE InPlace
  OBVIOUS
<1>1. /\ wire = <<>> /\ rd = 0 /\ ack = "none"
      /\ spc = "collect" /\ manifest = <<>> /\ rpc = "hello"
  BY DEF Init, WireInit, SenderInit, ReceiverInit
<1>2. Len(wire) = 0 /\ DOMAIN manifest = {}
  BY <1>1
<1>3. Stream
  BY <1>1, <1>2 DEF Stream
<1>4. SenderPlace
  BY <1>1 DEF SenderPlace
<1>5. AckOrder
  BY <1>1, <1>2 DEF AckOrder, ReceiverEnded
<1>6. PathlessIsEmpty /\ ReceiverPlace
  BY <1>1, <1>2 DEF PathlessIsEmpty, ReceiverPlace, ReceiverEnded
<1> QED
  BY <1>3, <1>4, <1>5, <1>6 DEF InPlace

\* Nothing that InPlace speaks of changes.
LEMMA NothingMoves ==
    ASSUME TypeOK, InPlace, UNCHANGED <<wire, rd, ack>>, UNCHANGED senderVars,
           UNCHANGED receiverVars, opts' = opts
    PROVE  InPlace'
<1>1. InPlace /\ rpc' = rpc /\ spc' = spc
  BY DEF receiverVars, senderVars
<1>2. AckOrder'
  BY <1>1 DEF InPlace, AckOrder
<1>3. WellFormed => ReceiverPlace'
  BY ReceiverUndisturbed DEF InPlace, senderVars
<1> QED
  BY <1>2, <1>3, SenderUndisturbed

LEMMA NextInPlace == TypeOK /\ InPlace /\ [Next]_vars => InPlace'
<1> SUFFICES ASSUME TypeOK, InPlace, [Next]_vars PROVE InPlace'
  OBVIOUS
<1>a. SenderInPlace
  BY DEF InPlace, SenderInPlace
<1>b. ASSUME opts' = opts, WellFormed' PROVE WellFormed
  BY <1>b DEF WellFormed, EmptyPath
<1>1. CASE SenderNext
  <2>1. SenderStep /\ UNCHANGED receiverVars /\ opts' = opts /\ rpc' = rpc
    BY <1>1 DEF SenderNext, world, receiverVars
  <2>2. SenderInPlace'
    BY <1>a, <2>1, SenderStepInPlace
  <2>3. ASSUME WellFormed PROVE PathlessIsEmpty' /\ ReceiverPlace'
    <3>1. PathlessIsEmpty /\ ReceiverPlace /\ AckOrder /\ SenderPlace
      BY <2>3 DEF InPlace
    <3>2. PathlessIsEmpty'
      BY <2>1, <2>3, <3>1, PathlessStaysEmpty
    <3>3. ReceiverPlace'
      BY <2>1, <3>1, SenderWrites, ReceiverUndisturbed
    <3> QED
      BY <3>2, <3>3
  <2> QED
    BY <1>b, <2>1, <2>2, <2>3 DEF InPlace, SenderInPlace
<1>2. CASE ReceiverNext
  BY <1>2, ReceiverStepInPlace DEF ReceiverNext, world
<1>3. CASE CrashSender
  <2>1. ReturnSender("killed") /\ UNCHANGED <<wire, rd, ack, manifest, opts, receiverVars>>
    BY <1>3 DEF CrashSender, world
  <2>2. rpc' = rpc /\ UNCHANGED receiverVars
    BY <2>1 DEF receiverVars
  <2>3. SenderInPlace'
    BY <1>a, <2>1, <2>2, SenderLeaves DEF SenderEnded
  <2>4. WellFormed => PathlessIsEmpty' /\ ReceiverPlace'
    BY <2>1, <2>2, ReceiverUndisturbed DEF InPlace, PathlessIsEmpty, EmptyPath
  <2> QED
    BY <1>b, <2>1, <2>3, <2>4 DEF InPlace, SenderInPlace
<1>4. CASE CrashReceiver
  <2>1. rpc' = "killed" /\ UNCHANGED <<wire, rd, ack, opts, senderVars>>
    BY <1>4 DEF CrashReceiver, ReturnReceiver, world
  <2> QED
    BY <2>1, ReceiverLeaves DEF ReceiverEnded
<1>5. CASE NetReset \/ EditSource \/ RemoveSource \/ UNCHANGED vars
  <2>1. UNCHANGED <<wire, rd, ack>> /\ UNCHANGED senderVars /\ UNCHANGED receiverVars
        /\ opts' = opts
    BY <1>5 DEF NetReset, EditSource, RemoveSource, vars, net, world
  <2> QED
    BY <2>1, NothingMoves
<1> QED
  BY <1>1, <1>2, <1>3, <1>4, <1>5 DEF Next, Terminated

\* Each side's place in the stream agrees with its control state for ever.
THEOREM AlwaysInPlace == Spec => [](TypeOK /\ InPlace)
BY InitTypeOK, NextTypeOK, InitInPlace, NextInPlace, PTL DEF Spec

\* The sender only ever pushes a prefix of the stream its manifest describes,
\* and all of it when it reports success (SendPaths, SendFiles), whatever the
\* source files turn into and wherever it fails.
THEOREM StreamIsGrammatical == Spec => []WireGrammar
<1>1. InPlace => WireGrammar
  BY DEF InPlace, Stream, SenderPlace, WireGrammar
<1> QED
  BY <1>1, AlwaysInPlace, PTL

\* No record is pushed before the receiver took the header and its Ack was
\* read (WriteAck, ReadAck).
THEOREM RecordsAwaitAck == Spec => []AckGate
<1>1. InPlace => AckGate
  BY DEF InPlace, AckOrder, AckGate
<1> QED
  BY <1>1, AlwaysInPlace, PTL

\* The receiver never loses its place in the stream (ReceiveStream against
\* SendPaths and SendFiles on a well-formed manifest).
THEOREM ReceiverKeepsPlace == Spec => []Framing
<1>1. TypeOK /\ InPlace => Framing
  BY InPlaceInStep DEF Framing
<1> QED
  BY <1>1, AlwaysInPlace, PTL

-----------------------------------------------------------------------------
(* What is counted. *)


\* The receiver is at the file of the next entry.
AtFile ==
    /\ rpc \in {"create", "payload"}
    /\ wire # <<>> /\ ri < Len(manifest)
    /\ rentry = manifest[ri + 1]
    /\ rentry.path \in Path \ Unsafe

\* The output directory changes at most at one path.
OnlyAt(q) == \A p \in Path \ {q} : dst'[p] = dst[p]

\* What a counted file must be like.
Intact(e, c) == Len(c) = e.size /\ (verify /\ e.crc # 0 => Crc(c) = e.crc)

\* The five kinds of steps.
Stay == rpc' # "ok" /\ UNCHANGED <<ri, summary, dst>>

WriteFile ==
    /\ AtFile /\ OnlyAt(rentry.path)
    /\ rpc' \in {"payload", "failed"}
    /\ UNCHANGED <<ri, summary>>

PassOver ==
    /\ wire # <<>> /\ ri < Len(manifest) /\ manifest[ri + 1].path = EmptyPath
    /\ rpc' \in {"record", "trailer"} /\ ri' = ri + 1
    /\ UNCHANGED <<summary, dst>>

CountFile ==
    /\ AtFile /\ OnlyAt(rentry.path)
    /\ "flush" \notin Faults =>
          dst'[rentry.path] \in Seq(Block) /\ Intact(rentry, dst'[rentry.path])
    /\ rpc' \in {"record", "trailer"} /\ ri' = ri + 1
    /\ summary' = Append(summary, rentry)

Succeeds ==
    /\ wire # <<>> /\ ri = Len(manifest)
    /\ rpc' = "ok"
    /\ UNCHANGED <<ri, summary, dst>>

Effect ==
    /\ rpc \notin ReceiverEnded
    /\ Stay \/ WriteFile \/ PassOver \/ CountFile \/ Succeeds

\* In place, every step of the receiver is one of these.
LEMMA ReceiverEffect ==
    ASSUME TypeOK, InPlace, WellFormed, ReceiverStep
    PROVE  Effect /\ wire' = wire /\ verify' = verify
<1> USE DEF ReceiverEnded, Effect
<1>0. /\ ReceiverPlace /\ AckOrder /\ InStep /\ ri \in Nat /\ ri <= total
      /\ wire \in Seq(Item) /\ Len(wire) \in Nat /\ rd \in 0..Len(wire)
  BY ReceiverFacts, LenProperties DEF InPlace, TypeOK, WireTypeOK
<1>a. ASSUME rpc \notin {"hello"} \cup ReceiverEnded PROVE wire # <<>> /\ total = Len(manifest)
  BY <1>0, <1>a DEF AckOrder, ReceiverPlace
<1>b. ASSUME rpc \in {"create", "payload"} PROVE AtFile
  BY <1>0, <1>a, <1>b DEF AtFile, ReceiverPlace, TypeOK, ReceiverTypeOK
<1>c. ASSUME FailReceiver, dst' = dst PROVE Stay
  BY <1>c DEF Stay, FailReceiver, ReturnReceiver
<1>d. dst \in [Path -> Seq(Block) \cup {Missing}] /\ rgot \in Seq(Block)
  BY DEF TypeOK, ReceiverTypeOK
<1>e. ASSUME NEW c, dst' = [dst EXCEPT ![rentry.path] = c] PROVE OnlyAt(rentry.path)
  BY <1>d, <1>e DEF OnlyAt
<1>1. CASE ReadHeader
  BY <1>1, <1>c DEF ReadHeader, Stay
<1>2. CASE WriteAck \/ OutputDir
  BY <1>2 DEF WriteAck, OutputDir, Stay, AfterRecords, net
<1>3. CASE WriteAckFails
  BY <1>3 DEF WriteAckFails, ReturnReceiver, Stay
<1>4. CASE OutputDirFails \/ CreateFails \/ WriteFails \/ RecvFails
  BY <1>4, <1>c DEF OutputDirFails, CreateFails, WriteFails, RecvFails
<1>5. CASE ReadRecord
  <2>1. rpc = "record" /\ Arrived /\ UNCHANGED <<wire, verify, dst>>
    BY <1>5 DEF ReadRecord
  <2>2. Incoming = Rec(ri + 1, manifest[ri + 1])
    BY <1>0, <2>1 DEF InStep
  <2>3. Incoming.kind = "FILE" /\ Incoming.entry = manifest[ri + 1]
    BY <2>2 DEF Rec
  <2>4. AcceptRecord(manifest[ri + 1])
    BY <1>5, <2>3 DEF ReadRecord
  <2>5. CASE manifest[ri + 1].path = EmptyPath
    <3>1. ri < Len(manifest) /\ wire # <<>>
      BY <1>a, <2>1 DEF TypeOK, ReceiverTypeOK
    <3> QED
      BY <2>1, <2>4, <2>5, <3>1 DEF AcceptRecord, AfterRecords, PassOver
  <2>6. CASE manifest[ri + 1].path # EmptyPath
    BY <1>c, <2>1, <2>4, <2>6 DEF AcceptRecord, Stay
  <2> QED
    BY <2>5, <2>6
<1>6. CASE Create
  BY <1>6, <1>b, <1>e DEF Create, WriteFile, net
<1>7. CASE RecvBlock
  <2>1. OnlyAt(rentry.path)
    BY <1>7, <1>e DEF RecvBlock, OnlyAt
  <2> QED
    BY <1>7, <1>b, <2>1 DEF RecvBlock, WriteFile
<1>8. CASE FinishFile
  <2>1. /\ rpc = "payload" /\ Len(rgot) = rentry.size /\ UNCHANGED <<wire, verify>>
        /\ \/ dst' = [dst EXCEPT ![rentry.path] = rgot]
           \/ "flush" \in Faults /\ dst' = dst
    BY <1>8 DEF FinishFile, CloseOutput
  <2>2. AtFile /\ OnlyAt(rentry.path)
    BY <1>b, <1>e, <2>1 DEF OnlyAt
  <2>3. CASE Mismatch
    BY <1>8, <2>1, <2>2, <2>3 DEF FinishFile, FailReceiver, ReturnReceiver, WriteFile
  <2>4. CASE ~Mismatch
    <3>1. "flush" \notin Faults => dst'[rentry.path] = rgot
      BY <1>d, <2>1, <2>2 DEF AtFile
    <3>2. rgot \in Seq(Block) /\ Intact(rentry, rgot)
      BY <1>d, <2>1, <2>4 DEF Intact, Mismatch
    <3>3. /\ summary' = Append(summary, rentry) /\ ri' = ri + 1
          /\ rpc' \in {"record", "trailer"}
      BY <1>8, <2>4 DEF FinishFile, AfterRecords
    <3> QED
      BY <2>1, <2>2, <3>1, <3>2, <3>3 DEF CountFile
  <2> QED
    BY <2>3, <2>4
<1>9. CASE ReadTrailer
  <2>1. ri = Len(manifest) /\ wire # <<>>
    BY <1>0, <1>9, <1>a DEF ReadTrailer, ReceiverPlace
  <2> QED
    BY <1>9, <2>1 DEF ReadTrailer, ReturnReceiver, Succeeds
<1> QED
  BY <1>1, <1>2, <1>3, <1>4, <1>5, <1>6, <1>7, <1>8, <1>9 DEF ReceiverStep
-----------------------------------------------------------------------------
(* The tally. *)

\* What is counted are the entries with a path in front of the place reached.
Tally ==
    /\ ri <= Len(manifest)
    /\ SummaryCovers(ri)
    /\ \A k \in DOMAIN summary : \E j \in WithPath(ri) : summary[k] = manifest[j]
    /\ wire = <<>> => ri = 0 /\ rpc # "ok"
    /\ rpc = "ok" => ri = Len(manifest)

LEMMA WithPathFinite ==
    ASSUME NEW n \in Nat
    PROVE  IsFiniteSet(WithPath(n)) /\ Cardinality(WithPath(n)) \in Nat
<1>1. IsFiniteSet(1..n)
  BY FS_Interval
<1>2. WithPath(n) \in SUBSET (1..n)
  BY DEF WithPath
<1> QED
  BY <1>1, <1>2, FS_Subset, FS_CardinalityType

\* One entry more.
LEMMA WithPathStep ==
    ASSUME NEW n \in Nat
    PROVE  /\ manifest[n + 1].path = EmptyPath => WithPath(n + 1) = WithPath(n)
           /\ manifest[n + 1].path # EmptyPath =>
                 /\ WithPath(n + 1) = WithPath(n) \cup {n + 1}
                 /\ Cardinality(WithPath(n + 1)) = Cardinality(WithPath(n)) + 1
<1>1. 1..(n + 1) = (1..n) \cup {n + 1} /\ n + 1 \notin 1..n
  OBVIOUS
<1>2. ASSUME manifest[n + 1].path # EmptyPath
      PROVE  WithPath(n + 1) = WithPath(n) \cup {n + 1} /\ n + 1 \notin WithPath(n)
  BY <1>1, <1>2 DEF WithPath
<1>3. IsFiniteSet(WithPath(n))
  BY WithPathFinite
<1>4. ASSUME manifest[n + 1].path # EmptyPath
      PROVE  Cardinality(WithPath(n + 1)) = Cardinality(WithPath(n)) + 1
  BY <1>2, <1>3, <1>4, FS_AddElement
<1> QED
  BY <1>1, <1>2, <1>4 DEF WithPath

\* The place of an entry in the summary is inside it.
LEMMA PlaceInSummary ==
    ASSUME NEW n \in Nat, NEW k \in WithPath(n)
    PROVE  k \in Nat /\ Cardinality(WithPath(k)) \in 1..Cardinality(WithPath(n))
<1>1. k \in 1..n /\ manifest[k].path # EmptyPath
  BY DEF WithPath
<1>2. k \in Nat /\ WithPath(k) \in SUBSET WithPath(n) /\ k \in WithPath(k)
  BY <1>1 DEF WithPath
<1>3. Cardinality(WithPath(k)) <= Cardinality(WithPath(n))
  BY <1>2, WithPathFinite, FS_Subset
<1>4. Cardinality(WithPath(k)) # 0
  BY <1>2, WithPathFinite, FS_EmptySet
<1>5. Cardinality(WithPath(k)) \in Nat /\ Cardinality(WithPath(n)) \in Nat
  BY <1>2, WithPathFinite
<1> QED
  BY <1>2, <1>3, <1>4, <1>5

\* Counting the next entry, or passing over one without a path.
LEMMA CoversNext ==
    ASSUME TypeOK, SummaryCovers(ri), manifest' = manifest, ri' = ri + 1,
           manifest[ri + 1] \in Entry,
           \/ manifest[ri + 1].path = EmptyPath /\ summary' = summary
           \/ manifest[ri + 1].path # EmptyPath /\ summary' = Append(summary, manifest[ri + 1])
    PROVE  SummaryCovers(ri)'
<1>0. ri \in Nat /\ summary \in Seq(Entry) /\ Len(summary) \in Nat
  BY LenProperties DEF TypeOK, ReceiverTypeOK
<1>1. \A n : WithPath(n)' = WithPath(n)
  BY DEF WithPath, EmptyPath
<1>2. CASE manifest[ri + 1].path = EmptyPath /\ summary' = summary
  <2>1. WithPath(ri + 1) = WithPath(ri)
    BY <1>0, <1>2, WithPathStep
  <2>2. (WithPath(ri))' = WithPath(ri)
    BY <1>1, <2>1 DEF WithPath, EmptyPath
  <2> QED
    BY <1>1, <1>2, <2>2 DEF SummaryCovers, WithPath, EmptyPath
<1>3. CASE manifest[ri + 1].path # EmptyPath /\ summary' = Append(summary, manifest[ri + 1])
  <2>1. /\ WithPath(ri + 1) = WithPath(ri) \cup {ri + 1}
        /\ Cardinality(WithPath(ri + 1)) = Len(summary) + 1
    BY <1>0, <1>3, WithPathStep DEF SummaryCovers
  <2>2. /\ Len(summary') = Len(summary) + 1
        /\ summary'[Len(summary) + 1] = manifest[ri + 1]
        /\ \A k \in 1..Len(summary) : summary'[k] = summary[k]
    BY <1>0, <1>3, AppendProperties
  <2>3. ASSUME NEW k \in WithPath(ri + 1)
        PROVE  summary'[Cardinality(WithPath(k))] = manifest[k]
    <3>1. CASE k = ri + 1
      BY <2>1, <2>2, <3>1
    <3>2. CASE k \in WithPath(ri)
      <4>1. Cardinality(WithPath(k)) \in 1..Len(summary)
        BY <1>0, <3>2, PlaceInSummary DEF SummaryCovers
      <4>2. summary[Cardinality(WithPath(k))] = manifest[k]
        BY <3>2 DEF SummaryCovers
      <4> QED
        BY <2>2, <4>1, <4>2
    <3> QED
      BY <2>1, <3>1, <3>2
  <2>4. WithPath(ri)' = WithPath(ri + 1)
    BY DEF WithPath, EmptyPath
  <2>5. \A k : WithPath(k)' = WithPath(k)
    BY DEF WithPath, EmptyPath
  <2> QED
    BY <2>1, <2>2, <2>3, <2>4, <2>5 DEF SummaryCovers
<1> QED
  BY <1>2, <1>3
\* The receiver's steps keep the tally.
LEMMA EffectTallies ==
    ASSUME TypeOK, Tally, Effect, wire' = wire, manifest' = manifest
    PROVE  Tally'
<1>0. /\ ri \in Nat /\ summary \in Seq(Entry) /\ Len(summary) \in Nat
      /\ manifest \in Seq(Entry) /\ Len(manifest) \in Nat
  BY LenProperties DEF TypeOK, SenderTypeOK, ReceiverTypeOK
<1>1. CASE UNCHANGED <<ri, summary>> /\ (rpc' = "ok" => wire # <<>> /\ ri = Len(manifest))
  <2>1. SummaryCovers(ri)'
    BY <1>1 DEF Tally, SummaryCovers, WithPath, EmptyPath
  <2>2. WithPath(ri)' = WithPath(ri)
    BY <1>1 DEF WithPath, EmptyPath
  <2> QED
    BY <1>1, <2>1, <2>2 DEF Tally
<1>2. CASE PassOver \/ CountFile
  <2>1. /\ ri < Len(manifest) /\ ri' = ri + 1 /\ wire # <<>> /\ rpc' # "ok"
        /\ manifest[ri + 1] \in Entry
    BY <1>0, <1>2 DEF PassOver, CountFile, AtFile
  <2>2. \/ manifest[ri + 1].path = EmptyPath /\ summary' = summary
        \/ manifest[ri + 1].path # EmptyPath /\ summary' = Append(summary, manifest[ri + 1])
    BY <1>2, WireAssumption DEF PassOver, CountFile, AtFile, EmptyPath
  <2>3. SummaryCovers(ri)'
    BY <2>1, <2>2, CoversNext DEF Tally
  <2>4. \A k \in DOMAIN summary' : \E j \in WithPath(ri)' : summary'[k] = manifest'[j]
    <3>1. /\ \A j \in WithPath(ri) : j \in WithPath(ri)'
          /\ manifest[ri + 1].path # EmptyPath => ri + 1 \in WithPath(ri)'
      BY <1>0, <2>1 DEF WithPath, EmptyPath
    <3>2. CASE summary' = summary
      BY <3>1, <3>2 DEF Tally
    <3>3. CASE summary' = Append(summary, manifest[ri + 1]) /\ manifest[ri + 1].path # EmptyPath
      <4>1. /\ DOMAIN summary' = 1..Len(summary) + 1 /\ DOMAIN summary = 1..Len(summary)
            /\ summary'[Len(summary) + 1] = manifest[ri + 1]
            /\ \A k \in 1..Len(summary) : summary'[k] = summary[k]
        BY <1>0, <2>1, <3>3, AppendProperties
      <4>2. ASSUME NEW k \in DOMAIN summary'
            PROVE  \E j \in WithPath(ri)' : summary'[k] = manifest[j]
        <5>1. CASE k = Len(summary) + 1
          BY <3>1, <3>3, <4>1, <5>1
        <5>2. CASE k # Len(summary) + 1
          <6>1. k \in DOMAIN summary /\ summary'[k] = summary[k]
            BY <1>0, <4>1, <5>2
          <6> QED
            BY <3>1, <6>1 DEF Tally
        <5> QED
          BY <5>1, <5>2
      <4> QED
        BY <4>2
    <3> QED
      BY <2>2, <3>2, <3>3
  <2> QED
    BY <1>0, <2>1, <2>3, <2>4 DEF Tally
<1> QED
  BY <1>1, <1>2 DEF Effect, Stay, WriteFile, Succeeds

\* The others' steps leave it alone: the manifest is final once it is announced.
LEMMA TallyUndisturbed ==
    ASSUME TypeOK, Tally, UNCHANGED <<ri, summary>>, rpc' = rpc \/ rpc' # "ok",
           wire' = wire \/ \E item : wire' = Append(wire, item),
           wire # <<>> => manifest' = manifest, manifest' \in Seq(Entry)
    PROVE  Tally'
<1>1. CASE wire = <<>>
  <2>1. ri' = 0 /\ rpc' # "ok" /\ Len(manifest') \in Nat
    BY <1>1, LenProperties DEF Tally
  <2>2. SummaryCovers(ri)' /\ DOMAIN summary' = {}
    <3>1. WithPath(0) = {} /\ WithPath(0)' = {}
      BY DEF WithPath
    <3>2. Len(summary) = 0 /\ Cardinality({}) = 0
      BY <1>1, <3>1, FS_EmptySet DEF Tally, SummaryCovers
    <3>3. WithPath(ri)' = {}
      BY <2>1 DEF WithPath
    <3> QED
      BY <3>2, <3>3 DEF SummaryCovers, TypeOK, ReceiverTypeOK
  <2> QED
    BY <2>1, <2>2 DEF Tally
<1>2. CASE wire # <<>>
  <2>1. manifest' = manifest /\ wire' # <<>>
    <3>1. ASSUME NEW item, wire' = Append(wire, item) PROVE wire' # <<>>
      <4>1. wire \in Seq(Item)
        BY DEF TypeOK, WireTypeOK
      <4> QED
        BY <3>1, <4>1, AppendProperties
    <3> QED
      BY <1>2, <3>1
  <2>2. SummaryCovers(ri)'
    BY <2>1 DEF Tally, SummaryCovers, WithPath, EmptyPath
  <2>3. WithPath(ri)' = WithPath(ri)
    BY <2>1 DEF WithPath, EmptyPath
  <2> QED
    BY <2>1, <2>2, <2>3 DEF Tally
<1> QED
  BY <1>1, <1>2

-----------------------------------------------------------------------------
(* What is counted stays as it is. *)

\* No path twice.
ManifestDistinct ==
    \A j, k \in DOMAIN manifest : manifest[j].path = manifest[k].path => j = k

\* Only the steps that make the manifest change it.
LEMMA ManifestKept ==
    ASSUME SenderStep, ~(Collect \/ TakeManifest \/ HashClose)
    PROVE  manifest' = manifest
<1>1. CASE HashSkip \/ HashOpen \/ HashBlock
  BY <1>1 DEF HashSkip, HashOpen, HashBlock
<1>2. CASE SendHeader \/ SendRecord \/ SendBlock \/ SendDone
  BY <1>2 DEF SendHeader, SendRecord, SendBlock, SendDone
<1>3. CASE ReadAck \/ ReadAckFails \/ RefuseLongPath \/ OpenPayload
           \/ ClosePayload \/ ShortFile \/ SendFails
  BY <1>3 DEF ReadAck, ReadAckFails, RefuseLongPath, OpenPayload, ClosePayload, ShortFile, SendFails
<1> QED
  BY <1>1, <1>2, <1>3 DEF SenderStep

\* CollectFiles sorts and erases duplicates, a caller's manifest is taken as it
\* is, and hashing does not touch the paths.
LEMMA DistinctStays ==
    ASSUME TypeOK, DistinctPaths, ManifestDistinct, SenderStep
    PROVE  ManifestDistinct'
<1>1. CASE Collect
  <2>1. CASE \E k \in DOMAIN opts.files : ~Exists(opts.files[k])
    <3>1. manifest' = <<>>
      BY <1>1, <2>1 DEF Collect, BeginHashing
    <3> QED
      BY <3>1 DEF ManifestDistinct
  <2>2. CASE ~\E k \in DOMAIN opts.files : ~Exists(opts.files[k])
    <3>1. PICK n \in 0..Cardinality(Listed) :
              \E m \in [1..n -> Listed] : SortedUnique(m, Listed) /\ BeginHashing(m)
      BY <1>1, <2>2 DEF Collect
    <3>2. PICK m \in [1..n -> Listed] : SortedUnique(m, Listed) /\ BeginHashing(m)
      BY <3>1
    <3>3. manifest' = m
      BY <3>2 DEF BeginHashing
    <3>4. DOMAIN m = 1..n
      BY <3>2
    <3>5. ASSUME NEW k \in 1..n PROVE m[k].path \in Nat
      <4>1. m[k] \in Entry
        BY <2>2, <3>2, ListedAreEntries
      <4>2. m[k].path \in Path \cup {EmptyPath}
        BY <4>1 DEF Entry
      <4>3. Path \subseteq Nat /\ EmptyPath \in Nat
        BY WireAssumption DEF EmptyPath
      <4> QED
        BY <4>2, <4>3
    <3>6. ASSUME NEW j \in 1..n, NEW k \in 1..n, m[j].path = m[k].path PROVE j = k
      <4>1. /\ j < k => m[j].path < m[k].path
            /\ k < j => m[k].path < m[j].path
        BY <3>2, <3>4 DEF SortedUnique
      <4>2. j \in Nat /\ k \in Nat /\ m[j].path \in Nat
        BY <3>5
      <4> QED
        BY <3>6, <4>1, <4>2
    <3> QED
      BY <3>3, <3>4, <3>6 DEF ManifestDistinct
  <2> QED
    BY <2>1, <2>2
<1>2. CASE TakeManifest
  BY <1>2 DEF TakeManifest, BeginHashing, DistinctPaths, ManifestDistinct
<1>3. CASE HashClose
  <2>1. manifest' = [manifest EXCEPT ![si].crc = Crc(sread)] /\ manifest \in Seq(Entry)
    BY <1>3 DEF HashClose, TypeOK, SenderTypeOK
  <2>2. DOMAIN manifest' = DOMAIN manifest
    BY <2>1
  <2>3. ASSUME NEW k \in DOMAIN manifest PROVE manifest'[k].path = manifest[k].path
    <3>1. manifest[k] \in Entry
      BY <2>1
    <3>2. CASE k # si
      BY <2>1, <3>2
    <3>3. CASE k = si
      <4>1. manifest'[k] = [manifest[k] EXCEPT !.crc = Crc(sread)]
        BY <2>1, <3>3
      <4> QED
        BY <3>1, <4>1 DEF Entry
    <3> QED
      BY <3>2, <3>3
  <2> QED
    BY <2>2, <2>3 DEF ManifestDistinct
<1>4. CASE ~(Collect \/ TakeManifest \/ HashClose)
  <2>1. manifest' = manifest
    BY <1>4, ManifestKept
  <2> QED
    BY <2>1 DEF ManifestDistinct
<1> QED
  BY <1>1, <1>2, <1>3, <1>4

-----------------------------------------------------------------------------
(* The invariant. *)

Counted ==
    /\ WellFormed => Tally
    /\ DistinctPaths => ManifestDistinct

LEMMA InitCounted == Init => Counted
<1> SUFFICES ASSUME Init PROVE Counted
  OBVIOUS
<1>1. /\ wire = <<>> /\ manifest = <<>> /\ ri = 0 /\ summary = <<>> /\ rpc = "hello"
  BY DEF Init, WireInit, SenderInit, ReceiverInit
<1>2. Len(manifest) = 0 /\ DOMAIN manifest = {} /\ Len(summary) = 0 /\ DOMAIN summary = {}
  BY <1>1
<1>3. WithPath(0) = {} /\ Cardinality({}) = 0
  BY FS_EmptySet DEF WithPath
<1> QED
  BY <1>1, <1>2, <1>3 DEF Counted, Tally, SummaryCovers, ManifestDistinct

\* The call's arguments stay what they are.
LEMMA SameCall ==
    ASSUME [Next]_vars
    PROVE  opts' = opts /\ WellFormed' = WellFormed /\ DistinctPaths' = DistinctPaths
<1>1. opts' = opts
  BY DEF Next, SenderNext, ReceiverNext, NetReset, CrashSender, CrashReceiver, EditSource,
         RemoveSource, Terminated, vars, world
<1> QED
  BY <1>1 DEF WellFormed, DistinctPaths, EmptyPath

\* A step that is not the receiver's leaves what was received alone, and changes
\* the manifest only before it is announced.
LEMMA OthersStep ==
    ASSUME TypeOK, InPlace, [Next]_vars, ~ReceiverNext
    PROVE  /\ UNCHANGED <<ri, summary, dst, verify>>
           /\ rpc' = rpc \/ (rpc \notin ReceiverEnded /\ rpc' = "killed" /\ wire' = wire)
           /\ wire' = wire \/ \E item : wire' = Append(wire, item)
           /\ wire # <<>> => manifest' = manifest
           /\ manifest' = manifest \/ SenderStep
<1>1. CASE SenderNext
  <2>1. SenderStep /\ UNCHANGED <<verify, receiverVars, dst>> /\ SenderPlace
    BY <1>1 DEF SenderNext, InPlace
  <2> QED
    BY <2>1, SenderWrites DEF receiverVars
<1>2. CASE CrashSender
  BY <1>2 DEF CrashSender, receiverVars
<1>3. CASE CrashReceiver
  BY <1>3 DEF CrashReceiver, ReturnReceiver, senderVars, TypeOK
<1>4. CASE NetReset \/ EditSource \/ RemoveSource \/ UNCHANGED vars
  BY <1>4 DEF NetReset, EditSource, RemoveSource, vars, net, senderVars, receiverVars
<1> QED
  BY <1>1, <1>2, <1>3, <1>4 DEF Next, Terminated

LEMMA NextCounted == TypeOK /\ InPlace /\ Counted /\ [Next]_vars => Counted'
<1> SUFFICES ASSUME TypeOK, InPlace, Counted, [Next]_vars PROVE Counted'
  OBVIOUS
<1>1. WellFormed' = WellFormed /\ DistinctPaths' = DistinctPaths
  BY SameCall
<1>2. manifest' \in Seq(Entry)
  BY NextTypeOK DEF TypeOK, SenderTypeOK
<1>3. CASE ReceiverNext
  <2>1. ReceiverStep /\ manifest' = manifest
    BY <1>3 DEF ReceiverNext, senderVars
  <2>2. WellFormed => Tally'
    BY <2>1, ReceiverEffect, EffectTallies DEF Counted
  <2>3. DistinctPaths => ManifestDistinct'
    BY <2>1 DEF Counted, ManifestDistinct
  <2> QED
    BY <1>1, <2>2, <2>3 DEF Counted
<1>4. CASE ~ReceiverNext
  <2>1. WellFormed => Tally'
    BY <1>2, <1>4, OthersStep, TallyUndisturbed DEF Counted
  <2>2. DistinctPaths => ManifestDistinct'
    <3>1. CASE manifest' = manifest
      BY <3>1 DEF Counted, ManifestDistinct
    <3>2. CASE SenderStep
      BY <3>2, DistinctStays DEF Counted
    <3> QED
      BY <1>4, <3>1, <3>2, OthersStep
  <2> QED
    BY <1>1, <2>1, <2>2 DEF Counted
<1> QED
  BY <1>3, <1>4

\* What is counted agrees with the manifest for ever.
THEOREM AlwaysCounted == Spec => [](TypeOK /\ InPlace /\ Counted)
BY InitTypeOK, NextTypeOK, InitInPlace, NextInPlace, InitCounted, NextCounted, PTL DEF Spec

\* The receiver reports success only when it has counted every entry of the
\* manifest that has a path, in order (ReceiveStream's loop and its return).
THEOREM SuccessCoversManifest == Spec => [](WellFormed => SuccessIsComplete)
<1>1. Counted => (WellFormed => SuccessIsComplete)
  BY DEF Counted, Tally, SuccessIsComplete
<1> QED
  BY <1>1, AlwaysCounted, PTL

-----------------------------------------------------------------------------
(* What is counted is intact, and stays. *)

\* Where a counted entry is in the manifest.
LEMMA CountedAt ==
    ASSUME TypeOK, Tally, NEW k \in DOMAIN summary
    PROVE  /\ summary[k].path \in Path
           /\ ManifestDistinct /\ ri < Len(manifest) => summary[k].path # manifest[ri + 1].path
<1>1. PICK j \in WithPath(ri) : summary[k] = manifest[j]
  BY DEF Tally
<1>2. /\ j \in 1..ri /\ j \in 1..Len(manifest) /\ ri \in Nat
      /\ manifest \in Seq(Entry) /\ Len(manifest) \in Nat /\ manifest[j].path # EmptyPath
  BY <1>1, LenProperties DEF WithPath, Tally, TypeOK, SenderTypeOK, ReceiverTypeOK
<1>3. manifest[j] \in Entry
  BY <1>2
<1>4. ASSUME ri < Len(manifest) PROVE ri + 1 \in DOMAIN manifest /\ j \in DOMAIN manifest /\ j # ri + 1
  BY <1>2, <1>4
<1> QED
  BY <1>1, <1>2, <1>3, <1>4 DEF Entry, ManifestDistinct

\* No step of the receiver changes a file it has counted.
LEMMA CountedUntouched ==
    ASSUME TypeOK, Tally, ManifestDistinct, Effect, NEW k \in DOMAIN summary
    PROVE  dst'[summary[k].path] = dst[summary[k].path]
<1>1. CASE dst' = dst
  BY <1>1
<1>2. CASE AtFile /\ OnlyAt(rentry.path)
  <2>1. summary[k].path \in Path /\ summary[k].path # rentry.path
    BY <1>2, CountedAt DEF AtFile
  <2> QED
    BY <1>2, <2>1 DEF OnlyAt
<1> QED
  BY <1>1, <1>2 DEF Effect, Stay, WriteFile, PassOver, CountFile, Succeeds

\* No step of the session changes a counted file.
LEMMA StepKeepsCounted ==
    ASSUME TypeOK, InPlace, Counted, [Next]_vars, WellFormed, DistinctPaths,
           NEW k \in DOMAIN summary
    PROVE  dst'[summary[k].path] = dst[summary[k].path]
<1>1. CASE ReceiverNext
  BY <1>1, ReceiverEffect, CountedUntouched DEF ReceiverNext, Counted
<1>2. CASE ~ReceiverNext
  BY <1>2, OthersStep
<1> QED
  BY <1>1, <1>2

\* Once counted, a file keeps its content, whatever fails (ReceivePayloadToFile
\* writes only below the path of the current record, and no path comes twice).
THEOREM CountedStays == WellFormed /\ Spec => CountedFilesStay
<1> DEFINE Keeps == DistinctPaths =>
                       \A k \in DOMAIN summary : dst'[summary[k].path] = dst[summary[k].path]
<1>1. TypeOK /\ InPlace /\ Counted /\ WellFormed /\ [Next]_vars => [Keeps]_vars
  BY StepKeepsCounted
<1>2. WellFormed /\ [Next]_vars => WellFormed'
  BY SameCall
<1>3. CountedFilesStay <=> [][Keeps]_vars
  BY DEF CountedFilesStay
<1> HIDE DEF Keeps
<1> QED
  BY <1>1, <1>2, <1>3, AlwaysCounted, PTL DEF Spec

LEMMA InitIntact == Init => Integrity
<1> SUFFICES ASSUME Init PROVE Integrity
  OBVIOUS
<1>1. DOMAIN summary = {}
  BY DEF Init, ReceiverInit
<1> QED
  BY <1>1 DEF Integrity

\* The file of the k-th counted entry is intact.
IntactAt(k) == Intact(summary[k], dst[summary[k].path])

LEMMA NextIntact ==
    ASSUME "flush" \notin Faults, TypeOK, InPlace, Counted, WellFormed, Integrity, [Next]_vars
    PROVE  Integrity'
<1> SUFFICES ASSUME DistinctPaths, NEW k \in DOMAIN summary'
             PROVE  IntactAt(k)'
  BY SameCall DEF Integrity, IntactAt, Intact
<1>1. verify' = verify
  BY OthersStep, ReceiverEffect DEF ReceiverNext
<1>2. ASSUME k \in DOMAIN summary, summary'[k] = summary[k]
      PROVE  IntactAt(k)'
  <2>1. dst'[summary[k].path] = dst[summary[k].path]
    BY <1>2, StepKeepsCounted
  <2>2. IntactAt(k)
    BY <1>2 DEF Integrity, IntactAt, Intact
  <2> QED
    BY <1>1, <1>2, <2>1, <2>2 DEF IntactAt, Intact
<1>3. CASE summary' = summary
  BY <1>2, <1>3
<1>4. CASE ReceiverNext /\ CountFile
  <2>1. /\ summary \in Seq(Entry) /\ Len(summary) \in Nat /\ rentry \in Entry
        /\ summary' = Append(summary, rentry) /\ Intact(rentry, dst'[rentry.path])
    BY <1>4, LenProperties DEF CountFile, TypeOK, ReceiverTypeOK
  <2>2. /\ DOMAIN summary' = 1..Len(summary) + 1 /\ DOMAIN summary = 1..Len(summary)
        /\ summary'[Len(summary) + 1] = rentry
        /\ \A j \in 1..Len(summary) : summary'[j] = summary[j]
    BY <2>1, AppendProperties
  <2>3. CASE k = Len(summary) + 1
    BY <1>1, <2>1, <2>2, <2>3 DEF Intact, IntactAt
  <2>4. CASE k # Len(summary) + 1
    BY <1>2, <2>1, <2>2, <2>4
  <2> QED
    BY <2>3, <2>4
<1>5. summary' = summary \/ (ReceiverNext /\ CountFile)
  BY OthersStep, ReceiverEffect
     DEF ReceiverNext, Effect, Stay, WriteFile, PassOver, CountFile, Succeeds
<1> QED
  BY <1>3, <1>4, <1>5

\* A counted file has the size its record declared and, if it was verified, the
\* checksum, then and ever after - as long as no write that ~ofstream makes
\* fails unseen (see TrueMeansWritten).
THEOREM CountedIsIntact == "flush" \notin Faults /\ WellFormed /\ Spec => []Integrity
<1>1. "flush" \notin Faults /\ TypeOK /\ InPlace /\ Counted /\ WellFormed /\ Integrity /\ [Next]_vars
         => Integrity'
  BY NextIntact
<1>2. WellFormed /\ [Next]_vars => WellFormed'
  BY SameCall
<1>3. SUFFICES ASSUME "flush" \notin Faults PROVE WellFormed /\ Spec => []Integrity
  OBVIOUS
<1>4. TypeOK /\ InPlace /\ Counted /\ WellFormed /\ Integrity /\ [Next]_vars => Integrity'
  BY <1>1, <1>3
<1> QED
  BY <1>2, <1>4, InitIntact, AlwaysCounted, PTL DEF Spec

-----------------------------------------------------------------------------
(* A session implements Transfer. *)

\* The announced entries.
Plan == IF wire = <<>> THEN <<>> ELSE manifest

LEMMA InitPromise == Init => Promise!Init
<1> SUFFICES ASSUME Init PROVE Promise!Init
  OBVIOUS
<1>1. verify \in BOOLEAN /\ dst \in [Path -> Seq(Block) \cup {Missing}]
  BY InitTypeOK DEF TypeOK, ReceiverTypeOK
<1> QED
  BY <1>1 DEF Init, WireInit, ReceiverInit, Promise!Init, Outcome, ReceiverEnded

\* A step of the receiver is a step of Transfer, or none that it sees.
LEMMA ReceiverPromise ==
    ASSUME "flush" \notin Faults, TypeOK, InPlace, WellFormed, ReceiverNext
    PROVE  Promise!Next \/ UNCHANGED Promise!vars
<1> USE DEF ReceiverEnded
<1>1. /\ Effect /\ wire' = wire /\ manifest' = manifest /\ verify' = verify
      /\ Outcome = "running"
  BY ReceiverEffect DEF ReceiverNext, senderVars, Effect, Outcome
<1>2. Plan' = Plan /\ (wire # <<>> => Plan = manifest)
  BY <1>1 DEF Plan
<1>3. ASSUME AtFile
      PROVE  /\ Promise!Pending /\ Plan[ri + 1] = rentry
             /\ rentry.path \in Path /\ rentry.path \notin Unsafe \cup {EmptyPath}
  BY <1>1, <1>2, <1>3, WireAssumption DEF AtFile, Promise!Pending, Plan, EmptyPath
<1>4. CASE Stay
  <2>1. Outcome' = "running" \/ Outcome' = "failed"
    BY <1>4 DEF Stay, Outcome
  <2> QED
    BY <1>1, <1>2, <1>4, <2>1 DEF Stay, Plan, Promise!Next, Promise!Fail, Promise!vars
<1>5. CASE WriteFile
  <2>1. Outcome' \in {"running", "failed"}
    BY <1>5 DEF WriteFile, Outcome
  <2>2. \A p \in (Path \ {Plan[ri + 1].path}) \cup Unsafe : dst'[p] = dst[p]
    BY <1>3, <1>5, ReceiverAssumption DEF WriteFile, OnlyAt
  <2>3. Promise!Transit
    BY <1>1, <1>2, <1>3, <1>5, <2>1, <2>2 DEF WriteFile, Plan, Promise!Transit
  <2> QED
    BY <2>3 DEF Promise!Next
<1>6. CASE PassOver
  <2>1. Outcome' = Outcome
    BY <1>1, <1>6 DEF PassOver, Outcome
  <2>2. Promise!Skip
    BY <1>1, <1>2, <1>6, <2>1 DEF PassOver, Plan, Promise!Skip, Promise!Pending
  <2> QED
    BY <2>2 DEF Promise!Next
<1>7. CASE CountFile
  <2>1. Outcome' = Outcome
    BY <1>1, <1>7 DEF CountFile, Outcome
  <2>2. Promise!Faithful(rentry, dst'[rentry.path])
    BY <1>7 DEF CountFile, Promise!Faithful, Intact
  <2>3. Promise!Deliver
    BY <1>1, <1>2, <1>3, <1>7, <2>1, <2>2 DEF CountFile, OnlyAt, Plan, Promise!Deliver
  <2> QED
    BY <2>3 DEF Promise!Next
<1>8. CASE Succeeds
  <2>1. Outcome' = "ok" /\ manifest # <<>>
    BY <1>8 DEF Succeeds, Outcome, InPlace, Stream
  <2>2. Promise!Succeed
    BY <1>1, <1>2, <1>8, <2>1 DEF Succeeds, Plan, Promise!Succeed
  <2> QED
    BY <2>2 DEF Promise!Next
<1> QED
  BY <1>1, <1>4, <1>5, <1>6, <1>7, <1>8 DEF Effect

\* Of the other steps, Transfer sees the header go out and the receiver die.
LEMMA OthersPromise ==
    ASSUME TypeOK, InPlace, [Next]_vars, ~ReceiverNext
    PROVE  Promise!Next \/ UNCHANGED Promise!vars
<1>1. /\ UNCHANGED <<ri, summary, dst, verify>>
      /\ rpc' = rpc \/ (rpc \notin ReceiverEnded /\ rpc' = "killed" /\ wire' = wire)
      /\ wire' = wire \/ \E item : wire' = Append(wire, item)
      /\ wire # <<>> => manifest' = manifest
  BY OthersStep
<1>2. CASE wire = <<>> /\ wire' # <<>>
  <2>1. rpc' = rpc /\ Outcome' = Outcome
    BY <1>1, <1>2 DEF Outcome
  <2>2. manifest' \in Seq(Entry) \ {<<>>}
    BY <1>2, NextTypeOK, NextInPlace DEF TypeOK, SenderTypeOK, InPlace, Stream
  <2>3. Promise!Announce
    BY <1>1, <1>2, <2>1, <2>2 DEF Promise!Announce
  <2> QED
    BY <2>3 DEF Promise!Next
<1>3. CASE wire = <<>> => wire' = <<>>
  <2>1. wire # <<>> => wire' # <<>>
    <3>1. ASSUME NEW item, wire' = Append(wire, item) PROVE wire' # <<>>
      <4>1. wire \in Seq(Item)
        BY DEF TypeOK, WireTypeOK
      <4> QED
        BY <3>1, <4>1, AppendProperties
    <3> QED
      BY <1>1, <3>1
  <2>2. Plan' = Plan
    BY <1>1, <1>3, <2>1 DEF Plan
  <2>3. CASE rpc' = rpc
    BY <1>1, <2>2, <2>3 DEF Outcome, Plan, Promise!vars
  <2>4. CASE rpc \notin ReceiverEnded /\ rpc' = "killed"
    <3>1. Outcome = "running" /\ Outcome' = "failed"
      BY <2>4 DEF Outcome, ReceiverEnded
    <3>2. Promise!Fail
      BY <1>1, <2>2, <3>1 DEF Plan, Promise!Fail
    <3> QED
      BY <3>2 DEF Promise!Next
  <2> QED
    BY <1>1, <2>3, <2>4
<1> QED
  BY <1>2, <1>3

\* A session on a well-formed manifest implements Transfer, whatever fails, as
\* long as no write that ~ofstream makes fails unseen.
THEOREM SessionImplementsTransfer == "flush" \notin Faults /\ WellFormed /\ Spec => KeepsPromise
<1> SUFFICES ASSUME "flush" \notin Faults PROVE WellFormed /\ Spec => KeepsPromise
  OBVIOUS
<1>1. TypeOK /\ InPlace /\ WellFormed /\ [Next]_vars => [Promise!Next]_(Promise!vars)
  BY ReceiverPromise, OthersPromise
<1>2. WellFormed /\ [Next]_vars => WellFormed'
  BY SameCall
<1> QED
  BY <1>1, <1>2, InitPromise, AlwaysInPlace, PTL DEF Spec, KeepsPromise, Promise!Spec

-----------------------------------------------------------------------------
(* An undisturbed session delivers.  OnCourse is inductive; it is restated *)
(* with the file lookup as a function of the entry.                        *)

\* The file that each entry is looked up as, and what is in it.
FileOf == [e \in Entry |-> ResolveOnDisk(e)]
Text(e) == src[FileOf[e]]

\* The parts of OnCourse.
Outcomes ==
    /\ spc # "failed" /\ rpc # "failed"
    /\ spc = "ok" => wire # <<>>
    /\ rpc = "ok" => spc = "ok"

Sound(e) ==
    /\ Exists(FileOf[e])
    /\ e.path \notin Unsafe \cup TooLong
    /\ e.path # EmptyPath =>
          /\ Len(Text(e)) = e.size
          /\ verify /\ e.crc # 0 => e.crc = Crc(Text(e))

Planned ==
    /\ spc # "collect" => manifest # <<>>
    /\ \A k \in DOMAIN manifest : Sound(manifest[k])

Reading ==
    /\ spc \in {"hashing", "payload"} => sfile = FileOf[manifest[si]]
    /\ spc = "hashing" =>
          /\ Len(sread) <= manifest[si].size
          /\ \A j \in DOMAIN sread : sread[j] = Text(manifest[si])[j]

OnWire ==
    \A k \in DOMAIN wire : wire[k].kind = "DATA" =>
        /\ wire[k].at \in DOMAIN manifest
        /\ wire[k].data = Text(manifest[wire[k].at])[wire[k].blk]

Got == rpc = "payload" => \A j \in DOMAIN rgot : rgot[j] = Text(rentry)[j]

Stored ==
    \A k \in 1..ri : manifest[k].path # EmptyPath => dst[manifest[k].path] = Text(manifest[k])

Course == Outcomes /\ Planned /\ Reading /\ OnWire /\ Got /\ Stored

LEMMA MatchesIsSound ==
    ASSUME NEW e \in Entry
    PROVE  ResolveOnDisk(e) = FileOf[e] /\ (Matches(e) <=> Sound(e))
<1>1. ResolveOnDisk(e) = FileOf[e]
  BY DEF FileOf
<1> QED
  BY <1>1 DEF Matches, Sound, Text

LEMMA CourseIsOnCourse ==
    ASSUME TypeOK, Tally, Course
    PROVE  OnCourse
<1>1. manifest \in Seq(Entry) /\ Len(manifest) \in Nat /\ ri \in Nat /\ ri <= Len(manifest)
  BY LenProperties DEF TypeOK, SenderTypeOK, ReceiverTypeOK, Tally
<1>2. ASSUME NEW k \in DOMAIN manifest
      PROVE  /\ manifest[k] \in Entry
             /\ ResolveOnDisk(manifest[k]) = FileOf[manifest[k]]
             /\ Matches(manifest[k])
  <2>1. manifest[k] \in Entry
    BY <1>1
  <2> QED
    BY <2>1, MatchesIsSound DEF Course, Planned
<1>3. ASSUME spc \in {"hashing", "payload"} PROVE si \in DOMAIN manifest
  BY <1>1, <1>3, SenderFacts DEF SenderEnded
<1>4. rentry \in Entry /\ ResolveOnDisk(rentry) = FileOf[rentry]
  <2>1. rentry \in Entry
    BY DEF TypeOK, ReceiverTypeOK
  <2> QED
    BY <2>1, MatchesIsSound
<1>5. ASSUME NEW k \in 1..ri PROVE k \in DOMAIN manifest
  BY <1>1, <1>5
<1>6. \A k \in 1..ri : manifest[k].path # EmptyPath =>
          dst[manifest[k].path] = src[ResolveOnDisk(manifest[k])]
  BY <1>2, <1>5 DEF Course, Stored, Text
<1>7. /\ spc \in {"hashing", "payload"} => sfile = ResolveOnDisk(manifest[si])
      /\ spc = "hashing" => Len(sread) <= manifest[si].size /\ BeginningOf(sread, manifest[si])
  BY <1>2, <1>3 DEF Course, Reading, Text, BeginningOf
<1>8. \A k \in DOMAIN wire : wire[k].kind = "DATA" =>
          /\ wire[k].at \in DOMAIN manifest
          /\ wire[k].data = src[ResolveOnDisk(manifest[wire[k].at])][wire[k].blk]
  BY <1>2 DEF Course, OnWire, Text
<1>9. rpc = "payload" => BeginningOf(rgot, rentry)
  BY <1>4 DEF Course, Got, BeginningOf, Text
<1> QED
  BY <1>2, <1>6, <1>7, <1>8, <1>9 DEF OnCourse, Course, Outcomes, Planned

\* The lookup reads the path and the size of an entry, and the files.
Lookup(path, size) ==
    LET Candidate(k) == <<opts.files[k][1], path>>
        Right == {k \in DOMAIN opts.files : /\ Exists(Candidate(k))
                                            /\ Len(src[Candidate(k)]) = size}
    IN  IF opts.dir # NoDir THEN <<opts.dir, path>>
        ELSE IF Len(opts.files) = 1 /\ Exists(opts.files[1]) THEN opts.files[1]
        ELSE IF Right = {} THEN NoFile
        ELSE Candidate(CHOOSE k \in Right : \A j \in Right : k <= j)

LEMMA SameFile ==
    ASSUME NEW e \in Entry, NEW f \in Entry, e.path = f.path, e.size = f.size
    PROVE  FileOf[e] = FileOf[f]
<1>1. ResolveOnDisk(e) = Lookup(e.path, e.size) /\ ResolveOnDisk(f) = Lookup(f.path, f.size)
  BY DEF ResolveOnDisk, Lookup
<1> QED
  BY <1>1 DEF FileOf

LEMMA FilesStay ==
    ASSUME opts' = opts, src' = src
    PROVE  FileOf' = FileOf /\ \A e : Text(e)' = Text(e)
<1>1. FileOf' = FileOf
  BY DEF FileOf, ResolveOnDisk, Exists
<1> QED
  BY <1>1 DEF Text

\* CollectFiles lists only files that are found again by their entries.
LEMMA ListedAreSound ==
    ASSUME TypeOK, Sendable, opts.api = "SendPaths", NEW e \in Listed
    PROVE  e \in Entry /\ Sound(e)
<1>0. /\ \A k \in DOMAIN opts.files : Exists(opts.files[k])
      /\ e.path \notin Unsafe \cup TooLong
  BY DEF Sendable
<1>1. e \in Entry
  BY <1>0, ListedAreEntries
<1>2. /\ opts.files \in Seq(File) /\ Len(opts.files) \in Nat
      /\ DOMAIN opts.files = 1..Len(opts.files)
  BY SenderAssumption, LenProperties DEF TypeOK, SenderTypeOK, Option
<1>3. PICK g \in File : Exists(g) /\ e = Scan(g) /\ (opts.dir # NoDir => g[1] = opts.dir)
                        /\ (opts.dir = NoDir => \E k \in DOMAIN opts.files : g = opts.files[k])
  BY <1>0, <1>2 DEF Listed, Exists
<1>4. /\ g = <<g[1], g[2]>> /\ e.path = g[2] /\ e.size = Len(src[g]) /\ e.crc = 0
  BY <1>3 DEF File, Scan
<1>5. Exists(ResolveOnDisk(e)) /\ Len(src[ResolveOnDisk(e)]) = e.size
  <2>1. CASE opts.dir # NoDir
    <3>1. ResolveOnDisk(e) = g
      BY <1>3, <1>4, <2>1 DEF ResolveOnDisk
    <3> QED
      BY <1>3, <1>4, <3>1
  <2>2. CASE opts.dir = NoDir /\ Len(opts.files) = 1
    <3>1. g = opts.files[1]
      BY <1>2, <1>3, <2>2
    <3>2. ResolveOnDisk(e) = g
      BY <1>3, <2>2, <3>1 DEF ResolveOnDisk
    <3> QED
      BY <1>3, <1>4, <3>2
  <2>3. CASE opts.dir = NoDir /\ Len(opts.files) # 1
    <3> DEFINE Candidate(k) == <<opts.files[k][1], e.path>>
               Right == {k \in DOMAIN opts.files : /\ Exists(Candidate(k))
                                                   /\ Len(src[Candidate(k)]) = e.size}
               c == CHOOSE k \in Right : \A j \in Right : k <= j
    <3>1. PICK k \in DOMAIN opts.files : g = opts.files[k]
      BY <1>3, <2>3
    <3>2. k \in Right
      <4>1. Candidate(k) = g
        BY <1>4, <3>1
      <4>2. Exists(Candidate(k)) /\ Len(src[Candidate(k)]) = e.size
        BY <1>3, <1>4, <4>1, Zenon
      <4> QED
        BY <3>1, <4>2
    <3>3. Right \in SUBSET Nat /\ Right # {}
      <4>1. Right \subseteq DOMAIN opts.files
        OBVIOUS
      <4> HIDE DEF Right
      <4> QED
        BY <1>2, <3>2, <4>1
    <3>4. ResolveOnDisk(e) = Candidate(c)
      BY <2>3, <3>3 DEF ResolveOnDisk
    <3> HIDE DEF Right
    <3>5. \E x \in Right : \A y \in Right : x <= y
      BY <3>3, LeastNat
    <3>6. c \in Right
      BY <3>5
    <3> HIDE DEF c
    <3>7. Exists(Candidate(c)) /\ Len(src[Candidate(c)]) = e.size
      BY <3>6 DEF Right
    <3> QED
      BY <3>4, <3>7
  <2> QED
    BY <2>1, <2>2, <2>3
<1>6. Matches(e)
  BY <1>0, <1>4, <1>5 DEF Matches
<1> QED
  BY <1>1, <1>6, MatchesIsSound

-----------------------------------------------------------------------------
(* The sender. *)

\* What a calm, sendable session knows.
Going ==
    /\ TypeOK /\ InPlace /\ WellFormed /\ Tally /\ ManifestDistinct
    /\ Calm /\ Sendable /\ Course

\* The receiver has not ended unless the sender has.
LEMMA ReceiverWaits ==
    ASSUME Going, spc \notin SenderEnded
    PROVE  "receiver" \in open /\ ~SendBroken("receiver") /\ ~AckBroken
<1>1. rpc \notin {"ok", "failed", "killed"} /\ ~reset
  BY DEF Going, Course, Outcomes, Calm, SenderEnded
<1>2. "receiver" \in open
  BY <1>1 DEF Going, TypeOK, ReceiverEnded
<1> QED
  BY <1>1, <1>2 DEF SendBroken, AckBroken

\* The current entry of the sender.
LEMMA CurrentEntry ==
    ASSUME Going, spc \notin {"collect"} \cup SenderEnded
    PROVE  /\ manifest # <<>> /\ si \in DOMAIN manifest /\ manifest[si] \in Entry
           /\ ResolveOnDisk(manifest[si]) = FileOf[manifest[si]]
           /\ Sound(manifest[si])
           /\ src[FileOf[manifest[si]]] \in Content
           /\ manifest[si].path = EmptyPath => manifest[si].size = 0
           /\ manifest[si].size \in Nat
           /\ Len(manifest) \in Nat /\ si \in 1..Len(manifest)
<1>1. /\ Len(manifest) \in Nat /\ si \in 1..Len(manifest)
      /\ manifest[si] \in Entry /\ manifest[si].size \in Nat
      /\ manifest \in Seq(Entry)
  BY SenderFacts DEF Going, TypeOK, SenderTypeOK
<1>2. si \in DOMAIN manifest
  BY <1>1
<1>3. Sound(manifest[si]) /\ manifest # <<>>
  BY <1>2 DEF Going, Course, Planned
<1>4. ResolveOnDisk(manifest[si]) = FileOf[manifest[si]]
  BY <1>1, MatchesIsSound
<1>5. src[FileOf[manifest[si]]] \in Content
  BY <1>3, ExistsHasContent DEF Sound, Going
<1>6. manifest[si].path = EmptyPath => manifest[si].size = 0
  BY <1>2 DEF Going, InPlace, PathlessIsEmpty
<1> QED
  BY <1>1, <1>2, <1>3, <1>4, <1>5, <1>6

\* Pushing an item that is no block, or the right one.
LEMMA PushOnWire ==
    ASSUME TypeOK, OnWire, manifest' = manifest, opts' = opts, src' = src, NEW item,
           wire' = Append(wire, item), item \in Item,
           item.kind = "DATA" =>
               item.at \in DOMAIN manifest /\ item.data = Text(manifest[item.at])[item.blk]
    PROVE  OnWire' /\ wire' # <<>>
<1>1. wire \in Seq(Item) /\ Len(wire) \in Nat /\ DOMAIN wire = 1..Len(wire)
  BY LenProperties DEF TypeOK, WireTypeOK
<1>2. /\ DOMAIN wire' = 1..Len(wire) + 1 /\ wire'[Len(wire) + 1] = item
      /\ \A k \in 1..Len(wire) : wire'[k] = wire[k] /\ wire' # <<>>
  BY <1>1, AppendProperties
<1>3. wire' # <<>>
  BY <1>1, AppendProperties
<1>4. FileOf' = FileOf
  BY FilesStay
<1>5. ASSUME NEW k \in DOMAIN wire', wire'[k].kind = "DATA"
      PROVE  /\ wire'[k].at \in DOMAIN manifest
             /\ wire'[k].data = src[FileOf[manifest[wire'[k].at]]][wire'[k].blk]
  <2>1. CASE k = Len(wire) + 1
    BY <1>2, <1>5, <2>1 DEF Text
  <2>2. CASE k # Len(wire) + 1
    <3>1. k \in DOMAIN wire /\ wire'[k] = wire[k]
      BY <1>1, <1>2, <2>2
    <3> QED
      BY <1>5, <3>1 DEF OnWire, Text
  <2> QED
    BY <2>1, <2>2
<1> QED
  BY <1>3, <1>4, <1>5 DEF OnWire, Text

\* Planning, storing and receiving are not disturbed by the sender's later steps.
LEMMA PlanStays ==
    ASSUME Planned, Stored, Got, UNCHANGED <<opts, src, verify, manifest>>, spc # "collect",
           UNCHANGED <<rpc, ri, rentry, rgot, dst>>
    PROVE  Planned' /\ Stored' /\ Got'
<1>1. FileOf' = FileOf
  BY FilesStay
<1>2. Planned'
  BY <1>1 DEF Planned, Sound, Exists, Text, EmptyPath
<1>3. Stored' /\ Got'
  BY <1>1 DEF Stored, Got, Text, EmptyPath
<1> QED
  BY <1>2, <1>3

\* Nothing that the sender needs is missing: it goes on, to the end.
LEMMA SenderGoesOn ==
    ASSUME Going, SenderNext
    PROVE  Calm' /\ Course'
<1> USE DEF SenderEnded
<1>0. /\ TypeOK /\ InPlace /\ SenderPlace /\ AckOrder /\ Tally /\ Calm
      /\ Outcomes /\ Planned /\ Reading /\ OnWire /\ Got /\ Stored
      /\ UNCHANGED <<opts, src, edits, verify, rpc, ri, rentry, rgot, dst>>
      /\ FileOf' = FileOf /\ SenderStep
  BY FilesStay DEF Going, Course, InPlace, SenderNext, world, receiverVars
<1>1. rpc # "killed" /\ rpc # "failed" /\ ~reset /\ edits = 0
  BY <1>0 DEF Outcomes, Calm
<1>r. rpc = "ok" => spc = "ok"
  BY <1>0 DEF Outcomes
<1>a. ASSUME spc \notin {"collect"} \cup SenderEnded, manifest' = manifest,
             spc' \notin {"failed", "killed"}, spc' = "ok" => wire' # <<>>,
             Reading', OnWire', reset' = reset
      PROVE  Calm' /\ Course'
  <2>1. Planned' /\ Stored' /\ Got'
    BY <1>0, <1>a, PlanStays
  <2>2. Outcomes' /\ Calm'
    BY <1>0, <1>1, <1>r, <1>a DEF Outcomes, Calm
  <2> QED
    BY <1>a, <2>1, <2>2 DEF Course
<1>b. ASSUME wire' = wire, manifest' = manifest PROVE OnWire'
  BY <1>0, <1>b DEF OnWire, Text
<1>c. ASSUME spc = "collect", NEW m \in Seq(Entry), BeginHashing(m), m # <<>>,
             \A k \in DOMAIN m : Sound(m[k]), wire' = wire
      PROVE  Calm' /\ Course'
  <2>1. /\ manifest' = m /\ spc' = "hash" /\ reset' = reset
    BY <1>c DEF BeginHashing
  <2>2. wire = <<>> /\ ri = 0 /\ rpc # "ok"
    BY <1>0, <1>c DEF SenderPlace, Tally
  <2>3. OnWire' /\ Stored' /\ Reading'
    BY <1>0, <1>c, <2>1, <2>2 DEF OnWire, Stored, Reading
  <2>4. Planned'
    BY <1>0, <1>c, <2>1 DEF Planned, Sound, Exists, Text, EmptyPath
  <2>5. Got'
    BY <1>0 DEF Got, Text
  <2>6. Outcomes' /\ Calm'
    BY <1>0, <1>1, <2>1, <2>2 DEF Outcomes, Calm
  <2> QED
    BY <2>3, <2>4, <2>5, <2>6 DEF Course
<1>2. CASE Collect
  <2>1. opts.api = "SendPaths" /\ spc = "collect" /\ wire' = wire /\ Sendable /\ WellFormed
    BY <1>2 DEF Collect, Going
  <2>2. Listed # {} /\ \A k \in DOMAIN opts.files : Exists(opts.files[k])
    BY <2>1 DEF Sendable
  <2>3. PICK n \in 0..Cardinality(Listed) :
            \E m \in [1..n -> Listed] : SortedUnique(m, Listed) /\ BeginHashing(m)
    BY <1>2, <2>2 DEF Collect
  <2>4. PICK m \in [1..n -> Listed] : SortedUnique(m, Listed) /\ BeginHashing(m)
    BY <2>3
  <2>5. \A e \in Listed : e \in Entry /\ Sound(e)
    BY <1>0, <2>1, ListedAreSound DEF Going
  <2>6. DOMAIN m = 1..n /\ \A k \in 1..n : m[k] \in Listed
    BY <2>4
  <2>7. n \in Nat
    <3>1. n \in Int /\ n >= 0
      BY <2>3
    <3> QED
      BY <3>1
  <2>8. m \in Seq(Entry) /\ \A k \in DOMAIN m : Sound(m[k])
    BY <2>5, <2>6, <2>7, <2>4
  <2>9. m # <<>>
    BY <2>2, <2>4 DEF SortedUnique
  <2> QED
    BY <1>c, <2>1, <2>4, <2>8, <2>9
<1>3. CASE TakeManifest
  <2>1. /\ opts.api = "SendFiles" /\ spc = "collect" /\ wire' = wire
        /\ BeginHashing(opts.manifest)
    BY <1>3 DEF TakeManifest
  <2>2. opts.manifest # <<>> /\ \A k \in DOMAIN opts.manifest : Matches(opts.manifest[k])
    BY <2>1 DEF Going, Sendable
  <2>3. opts.manifest \in Seq(Entry)
    BY <1>0, SenderAssumption DEF TypeOK, SenderTypeOK, Option
  <2>4. ASSUME NEW k \in DOMAIN opts.manifest PROVE Sound(opts.manifest[k])
    <3>1. opts.manifest[k] \in Entry
      BY <2>3
    <3> QED
      BY <2>2, <3>1, MatchesIsSound
  <2> QED
    BY <1>c, <2>1, <2>2, <2>3, <2>4
<1>4. CASE HashSkip
  <2>1. spc = "hash" /\ spc' \in {"hash", "hello"} /\ UNCHANGED <<wire, reset, manifest>>
    BY <1>4 DEF HashSkip, NextHash, net
  <2>2. Reading'
    BY <2>1 DEF Reading
  <2> QED
    BY <1>a, <1>b, <2>1, <2>2
<1>5. CASE HashOpen
  <2>1. /\ spc = "hash" /\ OpenSource(manifest[si], "hashing") /\ sread' = <<>>
        /\ UNCHANGED <<wire, manifest, si>>
    BY <1>5 DEF HashOpen
  <2>2. /\ ResolveOnDisk(manifest[si]) = FileOf[manifest[si]]
        /\ Exists(FileOf[manifest[si]]) /\ manifest[si].size \in Nat
    BY <2>1, CurrentEntry DEF Sound
  <2>3. spc' = "hashing" /\ sfile' = FileOf[manifest[si]] /\ reset' = reset
    BY <2>1, <2>2 DEF OpenSource
  <2>4. Reading'
    BY <1>0, <2>1, <2>2, <2>3 DEF Reading
  <2> QED
    BY <1>a, <1>b, <2>1, <2>3, <2>4
<1>6. CASE HashBlock
  <2>1. /\ spc = "hashing" /\ HashMore /\ UNCHANGED <<wire, reset, spc, manifest, si, sfile>>
        /\ sread' = Append(sread, src[sfile][Len(sread) + 1])
    BY <1>6 DEF HashBlock, net
  <2>2. /\ sread \in Seq(Block) /\ Len(sread) \in Nat /\ Len(sread) < manifest[si].size
        /\ Len(sread) < Len(src[sfile]) /\ manifest[si].size \in Nat
        /\ sfile = FileOf[manifest[si]] /\ src[sfile] \in Content
    BY <1>0, <2>1, CurrentEntry, ContentIsSeq, LenProperties
       DEF HashMore, TypeOK, SenderTypeOK, Reading
  <2>3. src[sfile][Len(sread) + 1] \in Block
    BY <2>2, ContentRead
  <2>4. /\ DOMAIN sread = 1..Len(sread) /\ DOMAIN sread' = 1..Len(sread) + 1
        /\ Len(sread') = Len(sread) + 1
        /\ sread'[Len(sread) + 1] = src[sfile][Len(sread) + 1]
        /\ \A j \in 1..Len(sread) : sread'[j] = sread[j]
    BY <2>1, <2>2, <2>3, AppendProperties
  <2>5. Len(sread') <= manifest[si].size
    BY <2>2, <2>4
  <2>6. ASSUME NEW j \in DOMAIN sread' PROVE sread'[j] = Text(manifest[si])[j]
    <3>1. CASE j = Len(sread) + 1
      BY <2>2, <2>4, <3>1 DEF Text
    <3>2. CASE j # Len(sread) + 1
      <4>1. j \in 1..Len(sread)
        BY <2>2, <2>4, <3>2
      <4> QED
        BY <1>0, <2>1, <2>4, <4>1 DEF Reading
    <3> QED
      BY <3>1, <3>2
  <2>7. Reading'
    BY <1>0, <2>1, <2>2, <2>5, <2>6 DEF Reading, Text
  <2> QED
    BY <1>a, <1>b, <2>1, <2>7
<1>7. CASE HashClose
  <2>1. /\ spc = "hashing" /\ ~HashMore /\ spc' \in {"hash", "hello"}
        /\ manifest' = [manifest EXCEPT ![si].crc = Crc(sread)]
        /\ UNCHANGED <<wire, reset>>
    BY <1>7 DEF HashClose, NextHash, net
  <2>2. /\ wire = <<>> /\ ri = 0
    BY <1>0, <2>1 DEF SenderPlace, Tally
  <2>3. OnWire' /\ Stored' /\ Reading' /\ Got'
    BY <1>0, <2>1, <2>2 DEF OnWire, Stored, Reading, Got, Text
  <2> DEFINE e == manifest[si]
             f == FileOf[e]
  <2>4. /\ manifest # <<>> /\ si \in DOMAIN manifest /\ e \in Entry /\ Sound(e)
        /\ src[f] \in Content
    BY <2>1, CurrentEntry
  <2>5. /\ Len(sread) <= e.size /\ sfile = f /\ \A j \in DOMAIN sread : sread[j] = src[f][j]
        /\ sread \in Seq(Block) /\ src[f] \in Seq(Block)
        /\ Len(sread) \in Nat /\ e.size \in Nat /\ DOMAIN sread = 1..Len(sread)
    BY <1>0, <2>1, <2>4, ContentIsSeq, LenProperties
       DEF Reading, TypeOK, SenderTypeOK, Text, Entry
  <2>6. ASSUME e.path # EmptyPath PROVE sread = src[f]
    <3>1. Len(src[f]) = e.size
      BY <2>4, <2>6 DEF Sound, Text
    <3>2. Len(sread) = Len(src[f])
      BY <2>1, <2>5, <3>1 DEF HashMore
    <3> QED
      BY <2>5, <3>2, SeqEqual
  <2>7. /\ DOMAIN manifest' = DOMAIN manifest
        /\ manifest'[si] = [e EXCEPT !.crc = Crc(sread)]
        /\ \A k \in DOMAIN manifest \ {si} : manifest'[k] = manifest[k]
    BY <1>0, <2>1, <2>4 DEF TypeOK, SenderTypeOK
  <2> DEFINE d == [e EXCEPT !.crc = Crc(sread)]
  <2>8. Sound(d)
    <3>1. Crc(sread) \in Nat
      BY <1>0, SenderAssumption DEF TypeOK, SenderTypeOK
    <3>2. d \in Entry /\ d.path = e.path /\ d.size = e.size /\ d.crc = Crc(sread)
      BY <2>4, <3>1 DEF Entry
    <3>3. FileOf[d] = f
      BY <2>4, <3>2, SameFile
    <3> HIDE DEF d, e, f
    <3> QED
      BY <2>4, <2>6, <3>2, <3>3 DEF Sound, Text, f
  <2>9. Planned'
    <3>1. manifest' # <<>>
      BY <2>4, <2>7
    <3>2. ASSUME NEW k \in DOMAIN manifest PROVE Sound(manifest'[k])
      BY <1>0, <2>7, <2>8, <3>2 DEF Planned
    <3> HIDE DEF d, e, f
    <3>3. \A k \in DOMAIN manifest' : Sound(manifest[k])'
      BY <1>0, <2>7, <3>2 DEF Sound, Exists, Text, EmptyPath
    <3> QED
      BY <3>1, <3>3 DEF Planned
  <2>10. Outcomes' /\ Calm'
    BY <1>0, <1>1, <1>r, <2>1 DEF Outcomes, Calm
  <2> QED
    BY <2>3, <2>9, <2>10 DEF Course
<1>8. CASE SendHeader
  <2>1. /\ spc = "hello" /\ spc' = "await_ack" /\ wire' = Append(wire, Hdr(Len(manifest)))
        /\ UNCHANGED <<reset, manifest>>
    BY <1>8 DEF SendHeader, SendAll
  <2>2. Hdr(Len(manifest)) \in Item /\ Hdr(Len(manifest)).kind # "DATA"
    BY <2>1, CurrentEntry, ItemTypes DEF Hdr
  <2>3. OnWire'
    BY <1>0, <2>1, <2>2, PushOnWire
  <2>4. Reading'
    BY <2>1 DEF Reading
  <2> QED
    BY <1>a, <2>1, <2>3, <2>4
<1>9. CASE ReadAck
  <2>1. spc = "await_ack" /\ spc' = "record" /\ UNCHANGED <<wire, reset, manifest>>
    BY <1>9 DEF ReadAck
  <2>2. Reading'
    BY <2>1 DEF Reading
  <2> QED
    BY <1>a, <1>b, <2>1, <2>2
<1>10. ~ReadAckFails
  BY ReceiverWaits DEF ReadAckFails
<1>11. CASE SendRecord
  <2>1. /\ spc = "record" /\ spc' = "open" /\ wire' = Append(wire, Rec(si, manifest[si]))
        /\ UNCHANGED <<reset, manifest>>
    BY <1>11 DEF SendRecord, SendAll
  <2>2. Rec(si, manifest[si]) \in Item /\ Rec(si, manifest[si]).kind # "DATA"
    <3>1. si \in Nat /\ manifest[si] \in Entry
      BY <2>1, CurrentEntry
    <3> QED
      BY <3>1, ItemTypes DEF Rec
  <2>3. OnWire'
    BY <1>0, <2>1, <2>2, PushOnWire
  <2>4. Reading'
    BY <2>1 DEF Reading
  <2> QED
    BY <1>a, <2>1, <2>3, <2>4
<1>12. ~RefuseLongPath
  BY CurrentEntry DEF RefuseLongPath, Sound
<1>13. CASE OpenPayload
  <2>1. /\ spc = "open" /\ OpenSource(manifest[si], "payload")
        /\ UNCHANGED <<wire, manifest, si>>
    BY <1>13 DEF OpenPayload
  <2>2. /\ ResolveOnDisk(manifest[si]) = FileOf[manifest[si]]
        /\ Exists(FileOf[manifest[si]])
    BY <2>1, CurrentEntry DEF Sound
  <2>3. spc' = "payload" /\ sfile' = FileOf[manifest[si]] /\ reset' = reset
    BY <2>1, <2>2 DEF OpenSource
  <2>4. Reading'
    BY <1>0, <2>1, <2>3 DEF Reading
  <2> QED
    BY <1>a, <1>b, <2>1, <2>3, <2>4
<1>14. CASE SendBlock
  <2> DEFINE item == Data(si, soff + 1, src[sfile][soff + 1])
  <2>1. /\ spc = "payload" /\ wire' = Append(wire, item) /\ soff < Len(src[sfile])
        /\ UNCHANGED <<reset, spc, manifest, si, sfile>>
    BY <1>14 DEF SendBlock, SendAll, PayloadMore
  <2>2. /\ sfile = FileOf[manifest[si]] /\ src[sfile] \in Content /\ soff \in Nat
        /\ si \in DOMAIN manifest /\ si \in Nat
    BY <1>0, <2>1, CurrentEntry DEF Reading, TypeOK, SenderTypeOK
  <2>3. src[sfile][soff + 1] \in Block
    BY <2>1, <2>2, ContentRead
  <2>4. item \in Item
    <3>1. soff + 1 \in Nat
      BY <2>2
    <3> QED
      BY <2>2, <2>3, <3>1, ItemTypes
  <2>5. item.at = si /\ item.data = Text(manifest[si])[item.blk]
    BY <2>2 DEF Data, Text
  <2> HIDE DEF item
  <2>6. OnWire'
    BY <1>0, <2>1, <2>2, <2>4, <2>5, PushOnWire
  <2>7. Reading'
    BY <1>0, <2>1 DEF Reading
  <2> QED
    BY <1>a, <2>1, <2>6, <2>7
<1>15. CASE ClosePayload
  <2>1. spc = "payload" /\ spc' \in {"record", "done"} /\ UNCHANGED <<wire, reset, manifest>>
    BY <1>15 DEF ClosePayload, NextRecord, net
  <2>2. Reading'
    BY <2>1 DEF Reading
  <2> QED
    BY <1>a, <1>b, <2>1, <2>2
<1>16. ~ShortFile
  <2> SUFFICES ASSUME ShortFile PROVE FALSE
    OBVIOUS
  <2>1. /\ spc = "payload" /\ soff < manifest[si].size /\ ~(soff < Len(src[sfile]))
        /\ sfile = FileOf[manifest[si]]
    BY <1>0 DEF ShortFile, Short, PayloadMore, Reading
  <2>2. /\ soff \in Nat /\ manifest[si].size \in Nat /\ Sound(manifest[si])
        /\ manifest[si].path = EmptyPath => manifest[si].size = 0
    BY <1>0, <2>1, CurrentEntry DEF TypeOK, SenderTypeOK
  <2>3. Len(src[sfile]) = manifest[si].size
    BY <2>1, <2>2 DEF Sound, Text
  <2> QED
    BY <2>1, <2>3
<1>17. CASE SendDone
  <2>1. /\ spc = "done" /\ spc' = "ok" /\ wire' = Append(wire, DoneMark)
        /\ Close("sender") /\ UNCHANGED <<ack, manifest>>
    BY <1>17 DEF SendDone, SendAll, ReturnSender
  <2>2. reset' = reset
    BY <1>0, <2>1 DEF Close, AckOrder, TypeOK, WireTypeOK
  <2>3. OnWire' /\ wire' # <<>>
    <3>1. DoneMark \in Item /\ DoneMark.kind # "DATA"
      BY ItemTypes DEF DoneMark
    <3> QED
      BY <1>0, <2>1, <3>1, PushOnWire
  <2>4. Reading'
    BY <2>1 DEF Reading
  <2> QED
    BY <1>a, <2>1, <2>2, <2>3, <2>4
<1>18. ~SendFails
  <2>1. ~(Sending /\ SendBroken("receiver"))
    BY ReceiverWaits DEF Sending
  <2>2. ~(Spins /\ reset)
    BY ReceiverWaits DEF Spins, Short, SendBroken, SenderEnded
  <2> QED
    BY <2>1, <2>2 DEF SendFails
<1> QED
  BY <1>0, <1>2, <1>3, <1>4, <1>5, <1>6, <1>7, <1>8, <1>9, <1>10, <1>11, <1>12, <1>13,
     <1>14, <1>15, <1>16, <1>17, <1>18 DEF SenderStep

-----------------------------------------------------------------------------
(* The receiver. *)

\* Behind neither place in the stream stands DONE.
LEMMA NotDone ==
    ASSUME NEW i, NEW item, Before(i, item) \/ \E n : Passed(i, n, item)
    PROVE  item # DoneMark
<1>1. ASSUME NEW j, NEW n, Passed(j, n, item) PROVE item # DoneMark
  BY <1>1 DEF Passed, Rec, DoneMark
<1>2. ASSUME Before(i, item) PROVE item # DoneMark
  BY <1>1, <1>2 DEF Before, Hdr, DoneMark
<1> QED
  BY <1>1, <1>2

\* DONE is the last item, and the sender has ended when it is there.
LEMMA DoneIsLast ==
    ASSUME Going, NEW k \in DOMAIN wire, wire[k] = DoneMark
    PROVE  k = Len(wire) /\ spc = "ok"
<1>0. /\ Stream /\ SenderPlace /\ Outcomes /\ Calm /\ TypeOK
      /\ wire \in Seq(Item) /\ Len(wire) \in Nat /\ DOMAIN wire = 1..Len(wire)
  BY LenProperties DEF Going, InPlace, Course, TypeOK, WireTypeOK
<1>1. k = Len(wire)
  <2> SUFFICES ASSUME k # Len(wire) PROVE FALSE
    OBVIOUS
  <2>1. k \in 1..(Len(wire) - 1)
    BY <1>0
  <2>2. Follows(DoneMark, wire[k + 1])
    BY <1>0, <2>1 DEF Stream
  <2> QED
    BY <2>2 DEF Follows, DoneMark
<1>2. wire # <<>> /\ wire[Len(wire)] = DoneMark
  BY <1>0, <1>1
<1>3. spc \notin {"collect", "hash", "hashing", "hello"}
  BY <1>0, <1>2 DEF SenderPlace
<1>4. spc # "await_ack"
  BY <1>0, <1>2 DEF SenderPlace, Stream, Hdr, DoneMark
<1>5. spc \notin {"record", "open", "payload", "done"}
  BY <1>0, <1>2, NotDone DEF SenderPlace
<1> QED
  BY <1>0, <1>1, <1>3, <1>4, <1>5
     DEF Outcomes, Calm, TypeOK, SenderTypeOK, SenderEnded

\* A sender that has ended has pushed DONE.
LEMMA EndedMeansDone ==
    ASSUME Going, "sender" \notin open
    PROVE  spc = "ok" /\ wire # <<>> /\ Len(wire) \in DOMAIN wire /\ wire[Len(wire)] = DoneMark
<1>1. spc = "ok" /\ wire # <<>>
  BY DEF Going, TypeOK, Course, Outcomes, Calm, SenderEnded
<1>2. wire \in Seq(Item) /\ Len(wire) \in DOMAIN wire
  BY <1>1, LenProperties, EmptySeq DEF Going, TypeOK, WireTypeOK
<1> QED
  BY <1>1, <1>2 DEF Going, InPlace, SenderPlace

\* No receive fails for want of an item.
LEMMA ItemsArrive ==
    ASSUME Going, \/ rpc \in {"hello", "record"}
                  \/ rpc = "payload" /\ Len(rgot) < rentry.size
    PROVE  ~RecvBroken
<1> SUFFICES ASSUME RecvBroken PROVE FALSE
  OBVIOUS
<1>0. /\ ReceiverPlace /\ ~reset
      /\ wire \in Seq(Item) /\ Len(wire) \in Nat /\ rd \in Nat /\ rd <= Len(wire)
  BY ReceiverFacts, LenProperties DEF Going, Calm, TypeOK, WireTypeOK
<1>1. rd = Len(wire) /\ "sender" \notin open
  BY <1>0 DEF RecvBroken, Arrived
<1>2. wire # <<>> /\ wire[rd] = DoneMark
  BY <1>1, EndedMeansDone
<1>3. rd # 0
  BY <1>0, <1>1, <1>2, EmptySeq
<1>4. Before(ri + 1, wire[rd]) \/ Passed(ri + 1, Len(rgot), wire[rd])
  BY <1>0, <1>3 DEF ReceiverPlace
<1> QED
  BY <1>2, <1>4, NotDone

\* Nor does the Ack meet a closed connection.
LEMMA AckGoesOut ==
    ASSUME Going, rpc = "ack"
    PROVE  ~SendBroken("sender")
<1> SUFFICES ASSUME SendBroken("sender") PROVE FALSE
  OBVIOUS
<1>1. "sender" \notin open
  BY DEF SendBroken, Going, Calm
<1>2. wire # <<>> /\ Len(wire) \in DOMAIN wire /\ wire[Len(wire)] = DoneMark
  BY <1>1, EndedMeansDone
<1>3. wire[1] = Hdr(Len(manifest)) /\ AckOrder /\ wire \in Seq(Item)
  BY <1>2 DEF Going, InPlace, Stream, TypeOK, WireTypeOK
<1>4. Len(wire) # 1
  <2>1. Hdr(Len(manifest)).kind = "HDR" /\ DoneMark.kind = "DONE"
    BY DEF Hdr, DoneMark
  <2> SUFFICES ASSUME Len(wire) = 1 PROVE FALSE
    OBVIOUS
  <2>2. Hdr(Len(manifest)) = DoneMark
    BY <1>2, <1>3
  <2> QED
    BY <2>1, <2>2, Zenon
<1>5. Len(wire) \in Nat /\ DOMAIN wire = 1..Len(wire)
  BY <1>3, LenProperties
<1>6. Len(wire) > 1
  BY <1>2, <1>4, <1>5
<1> QED
  BY <1>3, <1>6 DEF AckOrder

\* The entry whose file the receiver is at.
LEMMA FileEntry ==
    ASSUME Going, rpc \in {"record", "create", "payload"}
    PROVE  /\ ri \in Nat /\ ri < Len(manifest) /\ ri + 1 \in DOMAIN manifest
           /\ manifest[ri + 1] \in Entry
           /\ Sound(manifest[ri + 1])
           /\ Text(manifest[ri + 1]) \in Seq(Block)
           /\ rpc # "record" => AtFile
<1>0. /\ ReceiverPlace /\ AckOrder /\ ri \in Nat /\ ri < total /\ manifest \in Seq(Entry)
      /\ Len(manifest) \in Nat /\ total = Len(manifest) /\ rd >= 1
  BY ReceiverFacts, LenProperties
     DEF Going, TypeOK, ReceiverTypeOK, SenderTypeOK, ReceiverPlace, AckOrder, InPlace, ReceiverEnded
<1>1. ri + 1 \in DOMAIN manifest
  BY <1>0
<1>2. manifest[ri + 1] \in Entry
  BY <1>0, <1>1
<1>3. Sound(manifest[ri + 1])
  BY <1>1 DEF Going, Course, Planned
<1>4. Text(manifest[ri + 1]) \in Seq(Block)
  <2>1. TypeOK /\ Exists(FileOf[manifest[ri + 1]])
    BY <1>3 DEF Sound, Going
  <2>2. src[FileOf[manifest[ri + 1]]] \in Content
    BY <2>1, ExistsHasContent
  <2> QED
    BY <2>2, ContentIsSeq DEF Text
<1>5. ASSUME rpc # "record" PROVE AtFile
  <2>1. wire # <<>>
    BY <1>0, LenProperties DEF Going, TypeOK, WireTypeOK
  <2> QED
    BY <1>0, <1>5, <2>1 DEF AtFile, ReceiverPlace, Going, TypeOK, ReceiverTypeOK
<1> QED
  BY <1>0, <1>1, <1>2, <1>3, <1>4, <1>5

\* Work on the current file leaves the stored ones alone.
LEMMA StoredStay ==
    ASSUME Going, AtFile, OnlyAt(rentry.path), NEW k \in 1..ri, manifest[k].path # EmptyPath
    PROVE  dst'[manifest[k].path] = Text(manifest[k])
<1>0. /\ manifest \in Seq(Entry) /\ Len(manifest) \in Nat /\ ri \in Nat /\ ri < Len(manifest)
      /\ rentry = manifest[ri + 1] /\ ManifestDistinct /\ Stored
  BY LenProperties DEF Going, TypeOK, SenderTypeOK, ReceiverTypeOK, AtFile, Course
<1>1. k \in DOMAIN manifest /\ ri + 1 \in DOMAIN manifest /\ k # ri + 1
  BY <1>0
<1>2. manifest[k] \in Entry
  BY <1>0, <1>1
<1>3. manifest[k].path \in Path \ {rentry.path}
  BY <1>0, <1>1, <1>2 DEF ManifestDistinct, Entry
<1> QED
  BY <1>0, <1>3 DEF OnlyAt, Stored

\* The receiver gets what it waits for, and finds nothing to object to.
LEMMA ReceiverGoesOn ==
    ASSUME Going, ReceiverNext, "disk" \notin Faults, "flush" \notin Faults
    PROVE  Calm' /\ Course'
<1> USE DEF ReceiverEnded
<1>0. /\ TypeOK /\ InPlace /\ WellFormed /\ ReceiverPlace /\ InStep /\ Calm
      /\ Outcomes /\ Planned /\ Reading /\ OnWire /\ Got /\ Stored
      /\ UNCHANGED <<opts, src, edits, spc, manifest, si, sfile, sread, wire, verify>>
      /\ FileOf' = FileOf /\ ReceiverStep
      /\ rgot \in Seq(Block) /\ Len(rgot) \in Nat /\ ri \in Nat
  BY FilesStay, ReceiverEffect, ReceiverFacts, LenProperties
     DEF Going, Course, ReceiverNext, world, senderVars, TypeOK, ReceiverTypeOK
<1>1. Planned' /\ Reading' /\ OnWire'
  BY <1>0 DEF Planned, Sound, Exists, Text, EmptyPath, Reading, OnWire
<1>a. ASSUME rpc' \notin {"ok", "failed", "killed"}, reset' = reset, Got', Stored'
      PROVE  Calm' /\ Course'
  BY <1>0, <1>1, <1>a DEF Calm, Course, Outcomes
<1>b. ASSUME UNCHANGED <<ri, dst>> PROVE Stored'
  BY <1>0, <1>b DEF Stored, Text, EmptyPath
<1>c. ASSUME rpc' # "payload" PROVE Got'
  BY <1>c DEF Got
<1>d. ASSUME AtFile, OnlyAt(rentry.path), ri' = ri PROVE Stored'
  <2>1. \A k \in 1..ri : manifest[k].path # EmptyPath => dst'[manifest[k].path] = Text(manifest[k])
    BY <1>d, StoredStay
  <2> QED
    BY <1>0, <1>d, <2>1 DEF Stored, Text, EmptyPath
<1>e. ASSUME AtFile, NEW c, dst' = [dst EXCEPT ![rentry.path] = c]
      PROVE  OnlyAt(rentry.path) /\ dst'[rentry.path] = c
  BY <1>0, <1>e DEF OnlyAt, AtFile, TypeOK, ReceiverTypeOK
<1>2. CASE ReadHeader
  <2>1. Incoming.kind = "HDR"
    BY <1>0, <1>2 DEF ReadHeader, InStep, Hdr
  <2>2. rpc' = "ack" /\ UNCHANGED <<reset, ri, dst>>
    BY <1>2, <2>1 DEF ReadHeader
  <2> QED
    BY <1>a, <1>b, <1>c, <2>2
<1>3. CASE WriteAck
  BY <1>3, <1>a, <1>b, <1>c DEF WriteAck
<1>4. ~WriteAckFails
  BY AckGoesOut DEF WriteAckFails
<1>5. CASE OutputDir
  BY <1>5, <1>a, <1>b, <1>c DEF OutputDir, AfterRecords, net
<1>6. ~(OutputDirFails \/ CreateFails \/ WriteFails)
  BY DEF OutputDirFails, CreateFails, WriteFails
<1>7. CASE ReadRecord
  <2>1. rpc = "record" /\ Arrived /\ dst' = dst
    BY <1>7 DEF ReadRecord
  <2>2. Incoming = Rec(ri + 1, manifest[ri + 1])
    BY <1>0, <2>1 DEF InStep
  <2>3. Incoming.kind = "FILE" /\ Incoming.entry = manifest[ri + 1]
    BY <2>2 DEF Rec
  <2>4. AcceptRecord(manifest[ri + 1])
    BY <1>7, <2>3 DEF ReadRecord
  <2>5. manifest[ri + 1].path \notin Unsafe
    BY <2>1, FileEntry DEF Sound
  <2>6. CASE manifest[ri + 1].path = EmptyPath
    <3>1. ri' = ri + 1 /\ rpc' \in {"record", "trailer"} /\ reset' = reset
      BY <2>4, <2>6 DEF AcceptRecord, AfterRecords
    <3>2. ASSUME NEW k \in 1..ri', manifest[k].path # EmptyPath PROVE k \in 1..ri
      BY <1>0, <2>6, <3>1, <3>2
    <3>3. Stored'
      BY <1>0, <2>1, <3>2 DEF Stored, Text, EmptyPath
    <3> QED
      BY <1>a, <1>c, <3>1, <3>3
  <2>7. CASE manifest[ri + 1].path # EmptyPath
    <3>1. rpc' = "create" /\ UNCHANGED <<reset, ri>>
      BY <2>4, <2>5, <2>7 DEF AcceptRecord
    <3> QED
      BY <1>a, <1>b, <1>c, <2>1, <3>1
  <2> QED
    BY <2>6, <2>7
<1>8. CASE Create
  <2>1. /\ rpc = "create" /\ rpc' = "payload" /\ rgot' = <<>> /\ UNCHANGED <<reset, ri>>
        /\ dst' = [dst EXCEPT ![rentry.path] = <<>>]
    BY <1>8 DEF Create, net
  <2>2. Got'
    BY <2>1 DEF Got
  <2>3. Stored'
    BY <1>d, <1>e, <2>1, FileEntry
  <2> QED
    BY <1>a, <2>1, <2>2, <2>3
<1>9. CASE RecvBlock
  <2>1. /\ rpc = "payload" /\ Len(rgot) < rentry.size /\ Arrived
        /\ rgot' = Append(rgot, Bytes(Incoming)) /\ UNCHANGED <<reset, rpc, ri, rentry>>
        /\ dst' = [dst EXCEPT ![rentry.path] = rgot'] \/ dst' = dst
    BY <1>9 DEF RecvBlock
  <2>2. AtFile /\ rentry = manifest[ri + 1]
    BY <2>1, FileEntry DEF AtFile
  <2>3. Incoming.kind = "DATA" /\ Incoming.at = ri + 1 /\ Incoming.blk = Len(rgot) + 1
    BY <1>0, <2>1 DEF InStep
  <2>4. rd + 1 \in DOMAIN wire /\ Bytes(Incoming) \in Block
    BY <1>0, <2>1, IncomingTypes, LenProperties DEF Arrived, TypeOK, WireTypeOK
  <2>5. Bytes(Incoming) = Text(rentry)[Len(rgot) + 1]
    BY <1>0, <2>2, <2>3, <2>4 DEF OnWire, Incoming, Bytes
  <2>6. /\ DOMAIN rgot = 1..Len(rgot) /\ DOMAIN rgot' = 1..Len(rgot) + 1
        /\ rgot'[Len(rgot) + 1] = Text(rentry)[Len(rgot) + 1]
        /\ \A j \in 1..Len(rgot) : rgot'[j] = rgot[j]
    BY <1>0, <2>1, <2>4, <2>5, AppendProperties
  <2>7. \A j \in DOMAIN rgot' : rgot'[j] = Text(rentry)[j]
    <3>1. \A j \in 1..Len(rgot) : rgot[j] = Text(rentry)[j]
      BY <1>0, <2>1, <2>6 DEF Got
    <3>2. \A j \in 1..Len(rgot) + 1 : j = Len(rgot) + 1 \/ j \in 1..Len(rgot)
      BY <1>0
    <3> QED
      BY <2>6, <3>1, <3>2
  <2>8. Got'
    BY <1>0, <2>1, <2>7 DEF Got, Text
  <2>9. OnlyAt(rentry.path)
    BY <1>e, <2>1, <2>2 DEF OnlyAt
  <2>10. Stored'
    BY <1>d, <2>1, <2>2, <2>9
  <2> QED
    BY <1>a, <2>1, <2>8, <2>10
<1>10. CASE FinishFile
  <2>1. /\ rpc = "payload" /\ Len(rgot) = rentry.size
        /\ dst' = [dst EXCEPT ![rentry.path] = rgot]
    BY <1>10 DEF FinishFile, CloseOutput
  <2>2. /\ AtFile /\ rentry = manifest[ri + 1] /\ Sound(rentry) /\ Text(rentry) \in Seq(Block)
        /\ rentry.path # EmptyPath
    BY <2>1, FileEntry, WireAssumption DEF AtFile, EmptyPath
  <2>3. rgot = Text(rentry)
    <3>1. Len(rgot) = Len(Text(rentry)) /\ DOMAIN rgot = 1..Len(rgot)
      BY <1>0, <2>1, <2>2 DEF Sound
    <3>2. \A j \in 1..Len(rgot) : rgot[j] = Text(rentry)[j]
      BY <1>0, <2>1, <3>1 DEF Got
    <3> QED
      BY <1>0, <2>2, <3>1, <3>2, SeqEqual
  <2>4. ~Mismatch
    BY <2>2, <2>3 DEF Mismatch, Sound
  <2>5. ri' = ri + 1 /\ rpc' \in {"record", "trailer"} /\ reset' = reset
    BY <1>10, <2>4 DEF FinishFile, AfterRecords
  <2>6. OnlyAt(rentry.path) /\ dst'[rentry.path] = Text(rentry)
    BY <1>e, <2>1, <2>2, <2>3
  <2>7. ASSUME NEW k \in 1..ri', manifest[k].path # EmptyPath
        PROVE  dst'[manifest[k].path] = Text(manifest[k])
    <3>1. k = ri + 1 \/ k \in 1..ri
      BY <1>0, <2>5
    <3>2. CASE k = ri + 1
      BY <2>2, <2>6, <3>2
    <3>3. CASE k \in 1..ri
      BY <2>2, <2>6, <2>7, <3>3, StoredStay
    <3> QED
      BY <3>1, <3>2, <3>3
  <2>8. Stored'
    BY <1>0, <2>7 DEF Stored, Text, EmptyPath
  <2> QED
    BY <1>a, <1>c, <2>5, <2>8
<1>11. ~RecvFails
  BY ItemsArrive DEF RecvFails
<1>12. CASE ReadTrailer
  <2>1. /\ rpc = "trailer" /\ rpc' = "ok" /\ UNCHANGED <<ri, dst>> /\ Close("receiver")
        /\ \/ Arrived /\ rd' = rd + 1
           \/ RecvBroken /\ rd' = rd
    BY <1>12 DEF ReadTrailer, ReturnReceiver
  <2>2. Len(wire) \in Nat /\ rd \in Nat /\ rd <= Len(wire)
    BY <1>0, LenProperties DEF TypeOK, WireTypeOK
  <2>c. DOMAIN wire = 1..Len(wire) /\ reset \in BOOLEAN
    BY <1>0, LenProperties DEF TypeOK, WireTypeOK
  <2>a. ~reset /\ (RecvBroken => ~Arrived /\ "sender" \notin open)
    BY <1>0 DEF RecvBroken, Calm
  <2>b. Arrived \/ rd = Len(wire)
    <3>1. rd < Len(wire) \/ rd = Len(wire)
      BY <2>2
    <3> QED
      BY <3>1 DEF Arrived
  <2>3. spc = "ok" /\ rd' = Len(wire)
    <3>1. CASE Arrived /\ rd' = rd + 1
      <4>1. rd + 1 \in DOMAIN wire /\ wire[rd + 1] = DoneMark
        BY <1>0, <2>1, <2>2, <2>c, <3>1 DEF Arrived, InStep, Incoming
      <4> QED
        BY <3>1, <4>1, DoneIsLast
    <3>2. CASE RecvBroken /\ rd' = rd
      BY <2>a, <2>b, <3>2, EndedMeansDone
    <3> QED
      BY <2>1, <3>1, <3>2
  <2>4. reset' = reset
    <3>1. reset' = (reset \/ rd' < Len(wire))
      BY <1>0, <2>1 DEF Close
    <3>2. ~(rd' < Len(wire))
      BY <2>2, <2>3
    <3> QED
      BY <2>a, <2>c, <3>1, <3>2
  <2>5. Stored' /\ Got'
    BY <1>b, <1>c, <2>1
  <2> QED
    BY <1>0, <1>1, <2>1, <2>3, <2>4, <2>5 DEF Calm, Course, Outcomes
<1> QED
  BY <1>0, <1>2, <1>3, <1>4, <1>5, <1>6, <1>7, <1>8, <1>9, <1>10, <1>11, <1>12 DEF ReceiverStep

-----------------------------------------------------------------------------
(* The session. *)

LEMMA SendableKnows ==
    ASSUME Sendable, Counted, InPlace
    PROVE  WellFormed /\ Tally /\ ManifestDistinct
<1>1. WellFormed /\ DistinctPaths
  BY DEF Sendable, WellFormed, DistinctPaths
<1> QED
  BY <1>1 DEF Counted

\* No step of the two processes leaves the course.
LEMMA StepOnCourse ==
    ASSUME Going, "disk" \notin Faults, "flush" \notin Faults,
           SenderNext \/ ReceiverNext \/ UNCHANGED vars
    PROVE  Calm' /\ Course'
<1>1. CASE UNCHANGED vars
  <2>1. /\ UNCHANGED <<opts, src, edits, reset, wire, verify, dst>>
        /\ UNCHANGED senderVars /\ UNCHANGED receiverVars
    BY <1>1 DEF vars, net, world
  <2>2. FileOf' = FileOf
    BY <2>1, FilesStay
  <2>3. Calm' /\ Outcomes' /\ Got' /\ Stored'
    BY <2>1, <2>2 DEF Going, Course, Calm, Outcomes, Got, Stored, Text, EmptyPath,
                      senderVars, receiverVars
  <2>4. Planned' /\ Reading' /\ OnWire'
    BY <2>1, <2>2 DEF Going, Course, Planned, Sound, Exists, Text, EmptyPath, Reading, OnWire,
                      senderVars
  <2> QED
    BY <2>3, <2>4 DEF Course
<1> QED
  BY <1>1, SenderGoesOn, ReceiverGoesOn

\* A connection that is reset stays so.
LEMMA ResetStays ==
    ASSUME [Next]_vars, reset
    PROVE  reset'
<1>1. CASE SenderNext
  <2>1. ASSUME NEW result, ReturnSender(result) PROVE reset'
    BY <2>1 DEF ReturnSender, Close
  <2>2. CASE Collect \/ TakeManifest
    BY <2>1, <2>2 DEF Collect, TakeManifest, BeginHashing
  <2>3. CASE HashSkip \/ HashBlock \/ HashClose
    BY <2>3 DEF HashSkip, HashBlock, HashClose, net
  <2>4. CASE HashOpen \/ OpenPayload
    BY <2>1, <2>4 DEF HashOpen, OpenPayload, OpenSource, FailSender
  <2>5. CASE ReadAckFails \/ RefuseLongPath \/ SendFails \/ ShortFile \/ SendDone
    BY <2>1, <2>5 DEF ReadAckFails, RefuseLongPath, SendFails, ShortFile, SendDone, FailSender
  <2>6. CASE SendHeader \/ ReadAck \/ SendRecord \/ SendBlock \/ ClosePayload
    BY <2>6 DEF SendHeader, ReadAck, SendRecord, SendBlock, ClosePayload, net
  <2> QED
    BY <1>1, <2>2, <2>3, <2>4, <2>5, <2>6 DEF SenderNext, SenderStep
<1>2. CASE ReceiverNext
  <2>1. ASSUME NEW result, ReturnReceiver(result) PROVE reset'
    BY <2>1 DEF ReturnReceiver, Close
  <2>2. CASE ReadHeader \/ ReadRecord \/ FinishFile
    BY <2>1, <2>2 DEF ReadHeader, ReadRecord, AcceptRecord, FinishFile, FailReceiver
  <2>3. CASE WriteAckFails \/ OutputDirFails \/ CreateFails \/ WriteFails \/ RecvFails \/ ReadTrailer
    BY <2>1, <2>3 DEF WriteAckFails, OutputDirFails, CreateFails, WriteFails, RecvFails,
                      ReadTrailer, FailReceiver
  <2>4. CASE WriteAck \/ OutputDir \/ Create \/ RecvBlock
    BY <2>4 DEF WriteAck, OutputDir, Create, RecvBlock, net
  <2> QED
    BY <1>2, <2>2, <2>3, <2>4 DEF ReceiverNext, ReceiverStep
<1>3. CASE NetReset \/ EditSource \/ RemoveSource \/ UNCHANGED vars
  BY <1>3 DEF NetReset, EditSource, RemoveSource, vars, net
<1>4. CASE CrashSender \/ CrashReceiver
  BY <1>4 DEF CrashSender, CrashReceiver, ReturnSender, ReturnReceiver, Close
<1> QED
  BY <1>1, <1>2, <1>3, <1>4 DEF Next, Terminated

\* A session that is undisturbed has been so before, and only its processes
\* have taken steps.
LEMMA CalmBefore ==
    ASSUME TypeOK, [Next]_vars, Calm'
    PROVE  Calm /\ (SenderNext \/ ReceiverNext \/ UNCHANGED vars)
<1>1. ~reset
  BY ResetStays DEF Calm
<1>2. edits \in Nat
  BY SessionAssumption DEF TypeOK
<1>3. ~NetReset /\ ~EditSource /\ ~RemoveSource /\ ~CrashSender /\ ~CrashReceiver
  BY <1>2 DEF Calm, NetReset, EditSource, RemoveSource, CrashSender, CrashReceiver,
              ReturnSender, ReturnReceiver
<1>4. SenderNext \/ ReceiverNext \/ UNCHANGED vars
  BY <1>3 DEF Next, Terminated
<1>5. edits = 0
  BY <1>4 DEF Calm, SenderNext, ReceiverNext, vars, world
<1>6. spc # "killed" /\ rpc # "killed"
  <2>1. CASE SenderNext
    <3>1. spc \notin SenderEnded /\ rpc' = rpc
      BY <2>1 DEF SenderNext, receiverVars, SenderStep, SenderEnded, Sending, Collect, TakeManifest,
                  HashSkip, HashOpen, HashBlock, HashClose, SendHeader, ReadAck, ReadAckFails,
                  SendRecord, RefuseLongPath, OpenPayload, SendBlock, ClosePayload, ShortFile,
                  Short, Spins, SendDone, SendFails
    <3> QED
      BY <3>1 DEF Calm, SenderEnded
  <2>2. CASE ReceiverNext
    <3>1. rpc \notin ReceiverEnded /\ spc' = spc
      BY <2>2 DEF ReceiverNext, senderVars, ReceiverStep, ReceiverEnded, ReadHeader, WriteAck,
                  WriteAckFails, OutputDir, OutputDirFails, ReadRecord, Create, CreateFails,
                  RecvBlock, WriteFails, FinishFile, RecvFails, ReadTrailer
    <3> QED
      BY <3>1 DEF Calm, ReceiverEnded
  <2>3. CASE UNCHANGED vars
    BY <2>3 DEF Calm, vars, senderVars, receiverVars
  <2> QED
    BY <1>4, <2>1, <2>2, <2>3
<1> QED
  BY <1>1, <1>4, <1>5, <1>6 DEF Calm

LEMMA SendableStays ==
    ASSUME TypeOK, SenderNext \/ ReceiverNext \/ UNCHANGED vars
    PROVE  Sendable' <=> Sendable
<1>1. opts' = opts /\ src' = src /\ verify' = verify
  <2>1. opts' = opts /\ src' = src
    BY DEF SenderNext, ReceiverNext, vars, world
  <2>2. CASE ReceiverNext
    <3>1. TypeOK'
      BY <2>2, NextTypeOK DEF Next
    <3> QED
      BY <2>1, <3>1 DEF TypeOK
  <2>3. CASE SenderNext \/ UNCHANGED vars
    BY <2>1, <2>3 DEF SenderNext, vars
  <2> QED
    BY <2>1, <2>2, <2>3
<1> QED
  BY <1>1 DEF Sendable, Listed, Scan, Exists, Matches, ResolveOnDisk, WellFormed, DistinctPaths,
              EmptyPath

LEMMA InitCourse ==
    ASSUME Init
    PROVE  Calm /\ Course
<1>1. /\ wire = <<>> /\ manifest = <<>> /\ ri = 0 /\ rpc = "hello" /\ spc = "collect"
      /\ reset = FALSE /\ edits = 0
  BY DEF Init, WireInit, SenderInit, ReceiverInit
<1> QED
  BY <1>1 DEF Calm, Course, Outcomes, Planned, Reading, OnWire, Got, Stored

\* The course leads to the delivery.
LEMMA CourseDelivers ==
    ASSUME Going
    PROVE  Undisturbed /\ Delivery
<1>0. /\ TypeOK /\ Tally /\ Outcomes /\ Planned /\ Stored /\ Calm
      /\ manifest \in Seq(Entry) /\ Len(manifest) \in Nat /\ DOMAIN manifest = 1..Len(manifest)
  BY LenProperties DEF Going, Course, TypeOK, SenderTypeOK
<1>1. Undisturbed
  BY <1>0 DEF Undisturbed, Calm, Planned, Sound
<1>2. ASSUME open = {} PROVE spc = "ok" /\ rpc = "ok"
  BY <1>0, <1>2 DEF TypeOK, SenderEnded, ReceiverEnded, Outcomes, Calm
<1>3. ASSUME rpc = "ok", NEW k \in DOMAIN manifest, manifest[k].path # EmptyPath
      PROVE  dst[manifest[k].path] = src[ResolveOnDisk(manifest[k])]
  <2>1. k \in 1..ri /\ manifest[k] \in Entry
    BY <1>0, <1>3 DEF Tally
  <2> QED
    BY <1>0, <1>3, <2>1, MatchesIsSound DEF Stored, Text
<1> QED
  BY <1>1, <1>2, <1>3 DEF Delivery

\* The invariant.
OnCourseWhenCalm == Calm /\ Sendable => Course

LEMMA NextOnCourse ==
    ASSUME TypeOK, InPlace, Counted, OnCourseWhenCalm, [Next]_vars,
           "disk" \notin Faults, "flush" \notin Faults
    PROVE  OnCourseWhenCalm'
<1> SUFFICES ASSUME Calm', Sendable' PROVE Course'
  BY DEF OnCourseWhenCalm
<1>1. Calm /\ (SenderNext \/ ReceiverNext \/ UNCHANGED vars)
  BY CalmBefore
<1>2. Sendable
  BY <1>1, SendableStays
<1>3. Going
  BY <1>1, <1>2, SendableKnows DEF Going, OnCourseWhenCalm
<1> QED
  BY <1>1, <1>3, StepOnCourse

\* What is behind Smooth is inductive: as long as nothing disturbs a session
\* whose call asks for nothing to be refused, each step of SendPaths, SendFiles
\* and ReceiveStream keeps both sides going and every block where it belongs.
THEOREM AlwaysOnCourse ==
    "disk" \notin Faults /\ "flush" \notin Faults /\ Spec
        => [](TypeOK /\ InPlace /\ Counted /\ OnCourseWhenCalm)
<1> SUFFICES ASSUME "disk" \notin Faults, "flush" \notin Faults
             PROVE  Spec => [](TypeOK /\ InPlace /\ Counted /\ OnCourseWhenCalm)
  OBVIOUS
<1>1. Init => OnCourseWhenCalm
  BY InitCourse DEF OnCourseWhenCalm
<1>2. TypeOK /\ InPlace /\ Counted /\ OnCourseWhenCalm /\ [Next]_vars => OnCourseWhenCalm'
  BY NextOnCourse
<1> QED
  BY <1>1, <1>2, AlwaysCounted, PTL DEF Spec

\* As long as no reset, crash, edit or disk failure disturbs the session, a call
\* that asks for nothing to be refused goes as it should (SendPaths, SendFiles
\* and ReceiveStream reach no `return false`, and no file gets a wrong block).
THEOREM SmoothUntilDisturbed ==
    "disk" \notin Faults /\ "flush" \notin Faults /\ Spec => []Smooth
<1>1. TypeOK /\ InPlace /\ Counted /\ OnCourseWhenCalm => Smooth
  BY CourseIsOnCourse, SendableKnows DEF OnCourseWhenCalm, Smooth
<1> QED
  BY <1>1, AlwaysOnCourse, PTL

\* When both processes have ended undisturbed, both report success and each file
\* of the manifest is in the output directory as it is on the sender's disk.
THEOREM UndisturbedArrives ==
    "disk" \notin Faults /\ "flush" \notin Faults /\ Spec => [](Sendable => Delivery)
<1>1. TypeOK /\ InPlace /\ Counted /\ OnCourseWhenCalm => (Sendable => Delivery)
  <2> SUFFICES ASSUME TypeOK, InPlace, Counted, OnCourseWhenCalm, Sendable, Undisturbed
               PROVE  Delivery
    BY DEF Delivery
  <2>1. Calm
    BY DEF Undisturbed, Calm
  <2> QED
    BY <2>1, SendableKnows, CourseDelivers DEF Going, OnCourseWhenCalm
<1> QED
  BY <1>1, AlwaysOnCourse, PTL

\* Without faults of the environment nothing disturbs a session: neither side's
\* close resets the connection under the other, no send meets a closed one, and
\* so every call that asks for nothing to be refused delivers.
THEOREM FaultlessArrives ==
    Faults = {} /\ Spec => [](Sendable => Undisturbed /\ Delivery)
<1> DEFINE Fine == Sendable => Calm /\ Course
<1> SUFFICES ASSUME Faults = {} PROVE Spec => [](Sendable => Undisturbed /\ Delivery)
  OBVIOUS
<1>1. Init => Fine
  BY InitCourse
<1>2. TypeOK /\ InPlace /\ Counted /\ Fine /\ [Next]_vars => Fine'
  <2> SUFFICES ASSUME TypeOK, InPlace, Counted, Fine, [Next]_vars, Sendable'
               PROVE  Calm' /\ Course'
    OBVIOUS
  <2>1. SenderNext \/ ReceiverNext \/ UNCHANGED vars
    BY DEF Next, NetReset, CrashSender, CrashReceiver, EditSource, RemoveSource, Terminated
  <2>2. Sendable
    BY <2>1, SendableStays
  <2>3. Going
    BY <2>2, SendableKnows DEF Going
  <2> QED
    BY <2>1, <2>3, StepOnCourse
<1>3. TypeOK /\ InPlace /\ Counted /\ Fine => (Sendable => Undisturbed /\ Delivery)
  BY SendableKnows, CourseDelivers DEF Going
<1> HIDE DEF Fine
<1> QED
  BY <1>1, <1>2, <1>3, AlwaysCounted, PTL DEF Spec
=============================================================================
