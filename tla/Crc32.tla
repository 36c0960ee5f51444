-------------------------------- MODULE Crc32 --------------------------------
(***************************************************************************)
(* CRC-32C of common/crc32.cpp.  A uint32_t is the set of the positions,   *)
(* in 0..31, of the bits it has set.                                       *)
(***************************************************************************)
EXTENDS Integers, Sequences

Bits == 0..31

ByteBits(n) == {i \in 0..7 : (n \div 2^i) % 2 = 1}

\* The byte with some bits.
ByteOf == [bits \in SUBSET (0..7) |-> CHOOSE n \in 0..255 : ByteBits(n) = bits]

Low(word) == word \cap 0..7
Xor(a, b) == (a \ b) \cup (b \ a)
Shift(a, k) == {i - k : i \in a \cap k..31}

\* 0x82F63B78, the generator 0x1EDC6F41 with its bits reversed.
Generator == {0, 6, 8, 9, 10, 11, 13, 14, 18, 19, 20, 22, 23, 25, 26, 27, 28}
Poly == {31 - i : i \in Generator}

Step(c) == IF 0 \in c THEN Xor(Poly, Shift(c, 1)) ELSE Shift(c, 1)

\* g_table, by the eight bits it is indexed with.
Table ==
    [b \in SUBSET (0..7) |-> LET c[j \in 0..8] == IF j = 0 THEN b ELSE Step(c[j - 1]) IN c[8]]

\* state_ after the constructor, and after an Update with some bytes.
Fresh == Bits
Updated(word, bytes) ==
    LET s[k \in 0..Len(bytes)] ==
            IF k = 0 THEN word
            ELSE LET before == s[k - 1]
                 IN  Xor(Table[Low(Xor(before, ByteBits(bytes[k])))], Shift(before, 8))
    IN  s[Len(bytes)]

Final(word) == Xor(word, Bits)

Compute(bytes) == Final(Updated(Fresh, bytes))

-----------------------------------------------------------------------------

\* The definition of CRC-32C: the message, lowest bit of each byte first, its
\* first 32 bits inverted and 32 zeros behind it, divided by the generator; the
\* remainder, inverted.  dividend[k] is what is left after k steps.
Remainder(bytes) ==
    LET n == 8 * Len(bytes)
        padded == {i \in 0..n - 1 : i % 8 \in ByteBits(bytes[i \div 8 + 1])}
        dividend[k \in 0..n] ==
            IF k = 0 THEN Xor(padded, Bits)
            ELSE LET d == dividend[k - 1]
                 IN  IF k - 1 \in d THEN Xor(d, {k - 1 + 32 - g : g \in Generator \cup {32}}) ELSE d
    IN  {i \in Bits : n + i \notin dividend[n]}

\* The vectors of tests/test_crc32.cpp; a word by its bytes, highest first.
Hex(b) == {i \in Bits : i % 8 \in ByteBits(b[4 - i \div 8])}

KnownVectors ==
    /\ Compute(<<>>) = {}
    /\ Compute([i \in 1..32 |-> 0]) = Hex(<<138, 145, 54, 170>>)
    /\ Compute([i \in 1..32 |-> 255]) = Hex(<<98, 168, 171, 67>>)
    /\ Compute([i \in 1..32 |-> i - 1]) = Hex(<<70, 221, 121, 78>>)
    /\ Compute([i \in 1..32 |-> 32 - i]) = Hex(<<17, 63, 219, 92>>)
=============================================================================
