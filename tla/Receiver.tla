------------------------------ MODULE Receiver ------------------------------
(***************************************************************************)
(* transfer/receiver.cpp: ReceiveStream, one action per step another       *)
(* process or the network can be interleaved with.  The process ends when  *)
(* the call returns: RunReceive turns the result into an exit code and its *)
(* Socket is destroyed.                                                    *)
(***************************************************************************)
EXTENDS Wire

CONSTANTS
    Unsafe,    \* relative paths ValidateAndJoin rejects
    Faults     \* the failures the environment may cause

\* "reset": the connection is reset.  "crash": a process dies.  "edit": a
\* source file changes.  "disk": an operation on the output directory fails
\* and reports it.  "flush": the write that ~ofstream makes fails.
FaultKind == {"reset", "crash", "edit", "disk", "flush"}

ASSUME ReceiverAssumption ==
    /\ Unsafe \subseteq Path
    /\ Faults \subseteq FaultKind

VARIABLES
    verify,    \* ReceiverOptions::verify_crc
    rpc,       \* where the receiver is
    total,     \* header.total_files
    ri,        \* the loop index: records consumed so far
    rentry,    \* the record being received
    rgot,      \* the blocks of it that arrived, which crc has run over
    summary,   \* the entries counted in ReceiverSummary, in order
    dst        \* the output directory: content of every relative path

receiverVars == <<rpc, total, ri, rentry, rgot, summary>>

ReceiverEnded == {"ok", "failed", "killed"}

ReturnReceiver(result) ==
    /\ rpc' = result
    /\ Close("receiver")

\* Every `return false` of ReceiveStream is below a statement that sets ec.
FailReceiver ==
    /\ ReturnReceiver("failed")
    /\ UNCHANGED <<total, ri, rentry, rgot, summary>>

-----------------------------------------------------------------------------
(* Handshake and output directory, lines 106-124. *)

ReadHeader ==
    /\ rpc = "hello"
    /\ Arrived
    /\ rd' = rd + 1
    /\ IF Incoming.kind = "HDR"
       THEN /\ total' = Incoming.files
            /\ rpc' = "ack"
            /\ UNCHANGED <<open, reset, ri, rentry, rgot, summary>>
       ELSE FailReceiver
    /\ UNCHANGED <<wire, ack, verify, dst>>

\* The Ack goes out before the output directory is looked at.
WriteAck ==
    /\ rpc = "ack"
    /\ ack' = "sent"
    /\ rpc' = "outdir"
    /\ UNCHANGED <<wire, rd, open, reset, verify, total, ri, rentry, rgot, summary, dst>>

WriteAckFails ==
    /\ rpc = "ack"
    /\ SendBroken("sender")
    /\ UNCHANGED <<wire, rd, ack, verify, total, ri, rentry, rgot, summary, dst>>
    /\ \E result \in {"failed", "killed"} : ReturnReceiver(result)

\* Mutant: the loop leaves out the last record.
EndsEarly(n) == IF n + 1 >= total THEN "trailer" ELSE "record"

\* The for loop's condition after n records.
AfterRecords(n) == IF n = total THEN "trailer" ELSE "record"

OutputDir ==
    /\ rpc = "outdir"
    /\ rpc' = AfterRecords(0)
    /\ UNCHANGED <<net, verify, total, ri, rentry, rgot, summary, dst>>

OutputDirFails ==
    /\ rpc = "outdir"
    /\ "disk" \in Faults
    /\ UNCHANGED <<wire, rd, ack, verify, dst>>
    /\ FailReceiver

-----------------------------------------------------------------------------
(* The record loop, lines 130-161. *)

\* Mutant: a record that is skipped is not counted.
SkipUncounted(e) ==
    IF e.path = EmptyPath
    THEN rpc' = AfterRecords(ri) /\ UNCHANGED <<open, reset, total, ri, rentry, rgot, summary>>
    ELSE IF e.path \in Unsafe
    THEN FailReceiver
    ELSE /\ rentry' = e
         /\ rpc' = "create"
         /\ UNCHANGED <<open, reset, total, ri, rgot, summary>>

\* Lines 136-146 for a record that was read well.  The empty path is skipped
\* without reading its payload.
AcceptRecord(e) ==
    IF e.path = EmptyPath
    THEN /\ ri' = ri + 1
         /\ rpc' = AfterRecords(ri + 1)
         /\ UNCHANGED <<open, reset, total, rentry, rgot, summary>>
    ELSE IF e.path \in Unsafe
    THEN FailReceiver
    ELSE /\ rentry' = e
         /\ rpc' = "create"
         /\ UNCHANGED <<open, reset, total, ri, rgot, summary>>

\* ReadFileHeader; anything but a record fails the magic check.
ReadRecord ==
    /\ rpc = "record"
    /\ Arrived
    /\ rd' = rd + 1
    /\ IF Incoming.kind = "FILE"
       THEN AcceptRecord(Incoming.entry)
       ELSE FailReceiver
    /\ UNCHANGED <<wire, ack, verify, dst>>

\* Mutant: what is left of the previous file is not reset.
StaleCount ==
    /\ rpc = "create"
    /\ dst' = [dst EXCEPT ![rentry.path] = <<>>]
    /\ rpc' = "payload"
    /\ UNCHANGED <<net, verify, total, ri, rentry, rgot, summary>>

\* create_directories and the truncating open of ReceivePayloadToFile.
Create ==
    /\ rpc = "create"
    /\ dst' = [dst EXCEPT ![rentry.path] = <<>>]
    /\ rgot' = <<>>
    /\ rpc' = "payload"
    /\ UNCHANGED <<net, verify, total, ri, rentry, summary>>

CreateFails ==
    /\ rpc = "create"
    /\ "disk" \in Faults
    /\ UNCHANGED <<wire, rd, ack, verify, dst>>
    /\ FailReceiver

\* One turn of the payload loop.  A full block goes to the file at once; the
\* last one may be shorter and wait in the ofstream's buffer.
RecvBlock ==
    /\ rpc = "payload"
    /\ Len(rgot) < rentry.size
    /\ Arrived
    /\ rd' = rd + 1
    /\ rgot' = Append(rgot, Bytes(Incoming))
    /\ \/ dst' = [dst EXCEPT ![rentry.path] = rgot']
       \/ Len(rgot') = rentry.size /\ UNCHANGED dst
    /\ UNCHANGED <<wire, ack, open, reset, verify, rpc, total, ri, rentry, summary>>

\* os.write reports an error: the block was taken off the connection.
WriteFails ==
    /\ rpc = "payload"
    /\ Len(rgot) < rentry.size
    /\ Arrived
    /\ "disk" \in Faults
    /\ rd' = rd + 1
    /\ FailReceiver
    /\ UNCHANGED <<wire, ack, verify, dst>>

\* ~ofstream writes what is still buffered, and swallows an error.
CloseOutput ==
    \/ dst' = [dst EXCEPT ![rentry.path] = rgot]
    \/ "flush" \in Faults /\ UNCHANGED dst

\* Mutant: a mismatch is logged but the file still counts.
KeepMismatch == FALSE

\* Line 89: 0 stands for "do not verify", by option or in the record.
Mismatch == verify /\ rentry.crc # 0 /\ Crc(rgot) # rentry.crc

\* Lines 88-93 and 147-158: compare, close, count.
FinishFile ==
    /\ rpc = "payload"
    /\ Len(rgot) = rentry.size
    /\ UNCHANGED <<wire, rd, ack, verify>>
    /\ CloseOutput
    /\ IF Mismatch
       THEN FailReceiver
       ELSE /\ summary' = Append(summary, rentry)
            /\ ri' = ri + 1
            /\ rpc' = AfterRecords(ri + 1)
            /\ UNCHANGED <<open, reset, total, rentry, rgot>>

\* Mutant: the end of the stream is taken for the end of the session.
EndOfStream ==
    /\ \/ rpc \in {"hello", "record"}
       \/ rpc = "payload" /\ Len(rgot) < rentry.size
    /\ RecvBroken
    /\ UNCHANGED <<wire, rd, ack, verify, total, ri, rentry, rgot, summary, dst>>
    /\ ReturnReceiver("ok")

\* A RecvAll returns false.
RecvFails ==
    /\ \/ rpc \in {"hello", "record"}
       \/ rpc = "payload" /\ Len(rgot) < rentry.size
    /\ RecvBroken
    /\ UNCHANGED <<wire, rd, ack, verify, dst>>
    /\ FailReceiver

\* ReadDone, lines 164-173: a missing or wrong trailer is only logged.
ReadTrailer ==
    /\ rpc = "trailer"
    /\ \/ Arrived /\ rd' = rd + 1
       \/ RecvBroken /\ UNCHANGED rd
    /\ ReturnReceiver("ok")
    /\ UNCHANGED <<wire, ack, verify, total, ri, rentry, rgot, summary, dst>>

-----------------------------------------------------------------------------
ReceiverStep ==
    \/ ReadHeader \/ WriteAck \/ WriteAckFails
    \/ OutputDir \/ OutputDirFails
    \/ ReadRecord \/ Create \/ CreateFails
    \/ RecvBlock \/ WriteFails \/ FinishFile
    \/ RecvFails \/ ReadTrailer

ReceiverInit ==
    /\ rpc = "hello"
    /\ total = 0
    /\ ri = 0
    /\ rentry = [path |-> EmptyPath, size |-> 0, crc |-> 0]
    /\ rgot = <<>>
    /\ summary = <<>>

ReceiverTypeOK ==
    /\ verify \in BOOLEAN
    /\ rpc \in {"hello", "ack", "outdir", "record", "create", "payload", "trailer"}
                  \cup ReceiverEnded
    /\ total \in Nat
    /\ ri \in 0..total
    /\ rpc \in {"hello", "ack", "outdir"} => ri = 0
    /\ rentry \in Entry
    /\ rpc \in {"create", "payload"} => rentry.path \in Path \ Unsafe
    /\ rpc \in {"record", "create", "payload"} => ri < total
    /\ rgot \in Seq(Block)
    /\ summary \in Seq(Entry)
    /\ dst \in [Path -> Seq(Block) \cup {Missing}]
=============================================================================
