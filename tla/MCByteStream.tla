----------------------------- MODULE MCByteStream -----------------------------
(***************************************************************************)
(* Instances of ByteStream for TLC: a header, a payload sent from a file   *)
(* and read in blocks, an empty payload, and a trailer.                    *)
(***************************************************************************)
EXTENDS ByteStream

C(via, n) == [via |-> via, len |-> n]
MCCalls == <<C("all", 2), C("fd", 4), C("fd", 0), C("all", 1)>>
MCUnits == <<2, 3, 1, 1>>
AllPlatforms == {"linux", "apple", "other"}
=============================================================================
