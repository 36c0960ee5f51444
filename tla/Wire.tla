-------------------------------- MODULE Wire --------------------------------
(***************************************************************************)
(* The TCP connection between one xfer sender and one xfer receiver, and   *)
(* the items of transfer/protocol.cpp that travel on it.                   *)
(*                                                                         *)
(* The sender's direction is a log, `wire`, of which the receiver has      *)
(* taken the first `rd` items, so wire[rd+1 ..] is in flight.  An item is  *)
(* one unit that a RecvAll asks for: the session header, a file record     *)
(* (fixed part and path), one block of at most 1 MiB of payload, the DONE  *)
(* marker.  An item that was only partly sent is one that RecvAll cannot   *)
(* complete, so it never enters the log.  The receiver's direction carries *)
(* one message, the Ack.  The byte stream carries no item boundaries: the  *)
(* fields `at` and `blk` say where an item came from, for the properties   *)
(* only; no action of the receiver reads them.                             *)
(***************************************************************************)
EXTENDS Integers, Sequences

CONSTANTS
    Block,     \* the payload blocks that can occur
    Garbage,   \* what reads as payload when an item is no payload
    Crc(_),    \* CRC-32C of a sequence of blocks; the number 0 is possible
    Path,      \* non-empty relative paths, numbered in std::string order
    Missing,   \* content of a file that does not exist
    Cap        \* BOUND: items in flight before a send blocks

ASSUME WireAssumption ==
    /\ Garbage \in Block
    /\ Path \subseteq Nat \ {0}
    /\ Cap \in Nat \ {0}

VARIABLES
    wire,      \* every item the sender has pushed
    rd,        \* how many of them the receiver has taken
    ack,       \* the Ack: "none", "sent" (in flight) or "read"
    open,      \* the ends whose Socket is not closed
    reset      \* an RST has destroyed the connection

net == <<wire, rd, ack, open, reset>>

-----------------------------------------------------------------------------
(* The items. *)

\* The rel_path of a record with path_len 0.
EmptyPath == 0

\* struct FileEntry.  Sizes are counted in blocks.
Entry == [path : Path \cup {EmptyPath}, size : Nat, crc : Nat]

\* What WriteSessionHeader puts on the wire; of its fields only total_files
\* steers the receiver.
Hdr(n) == [kind |-> "HDR", files |-> n]

\* What WriteFileHeader puts on the wire: the record of manifest entry i.
Rec(i, e) == [kind |-> "FILE", at |-> i, entry |-> e]

\* Block k of the payload of manifest entry i.
Data(i, k, b) == [kind |-> "DATA", at |-> i, blk |-> k, data |-> b]

\* What WriteDone puts on the wire.
DoneMark == [kind |-> "DONE"]

Item ==
    [kind : {"HDR"}, files : Nat]
        \cup [kind : {"FILE"}, at : Nat, entry : Entry]
        \cup [kind : {"DATA"}, at : Nat, blk : Nat, data : Block]
        \cup [kind : {"DONE"}]

\* A payload read takes whatever bytes come next.
Bytes(item) == IF item.kind = "DATA" THEN item.data ELSE Garbage

-----------------------------------------------------------------------------
(* Socket operations, as the transfer code sees them. *)

Ends == {"sender", "receiver"}

\* SendAll blocks while the kernel's buffers are full.
Room == Len(wire) - rd < Cap

\* SendAll returned true.  The peer may be gone already: the kernel accepts
\* bytes that nobody will read.
SendAll(item) == Room /\ wire' = Append(wire, item)

\* A send can fail once the peer's socket is closed or the connection reset.
SendBroken(peer) == reset \/ peer \notin open

\* RecvAll can return true, and what it returns.
Arrived == rd < Len(wire)
Incoming == wire[rd + 1]

\* Mutant: a closed connection is taken for "nothing yet".
MissFin == reset

\* RecvAll of the receiver can return false: connection reset, or the peer's
\* FIN after everything it sent was taken.
RecvBroken == reset \/ (~Arrived /\ "sender" \notin open)

\* The same for the sender's ReadAck.
AckBroken == reset \/ (ack = "none" /\ "receiver" \notin open)

\* ~Socket closes the descriptor.  Data the process never read makes the
\* kernel answer with an RST instead of a FIN.
Close(end) ==
    /\ open' = open \ {end}
    /\ reset' = (reset \/ (IF end = "sender" THEN ack = "sent" ELSE rd' < Len(wire)))

\* The connection right after accept/connect.
WireInit ==
    /\ wire = <<>>
    /\ rd = 0
    /\ ack = "none"
    /\ open = Ends
    /\ reset = FALSE

WireTypeOK ==
    /\ wire \in Seq(Item)
    /\ rd \in 0..Len(wire)
    /\ ack \in {"none", "sent", "read"}
    /\ open \subseteq Ends
    /\ reset \in BOOLEAN
=============================================================================
