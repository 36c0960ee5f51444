------------------------------- MODULE MCCodec -------------------------------
(* An instance of Codec for TLC: numbers in bytes of one bit. *)
EXTENDS Codec

\* "XFER", "FILE" and "DONE".
Magics == [m \in {"XFER", "FILE", "DONE"} |-> CASE m = "XFER" -> 11 [] m = "FILE" -> 6 [] m = "DONE" -> 13]

\* The version in use with each count of records, and the largest value of each
\* other field.
Headers ==
    [version : {1}, flags : {14}, total_files : 0..MaxFiles, total_bytes : {0}] \cup
    [version : {3}, flags : {15}, total_files : {0}, total_bytes : {255}]

\* The last path is one byte longer than path_len can say.
Paths == {<<>>, <<0, 1, 1>>, <<0, 1, 1, 0>>}
\* The checksum of the last payload happens to be 0.
Payloads == {<<>>, <<0>>, <<255, 0, 49>>, <<171, 155, 224, 155>>}

ASSUME PublishedVectors == KnownVectors
=============================================================================
