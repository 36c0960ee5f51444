----------------------------- MODULE CodecProofs -----------------------------
(***************************************************************************)
(* Proofs about modules Crc32 and Codec: the table computes the division   *)
(* that defines CRC-32C, and a reader finds what a writer wrote, for every *)
(* base, every field value, every path and payload and every buffer.       *)
(***************************************************************************)
EXTENDS Codec, Induction, SequenceTheorems, TLAPS

-----------------------------------------------------------------------------
(* Words as sets of bits. *)

LEMMA InXor ==
    ASSUME NEW a, NEW b, NEW x
    PROVE  x \in Xor(a, b) <=> ~(x \in a <=> x \in b)
BY DEF Xor

LEMMA InShift ==
    ASSUME NEW a \in SUBSET Bits, NEW k \in Nat, NEW x
    PROVE  x \in Shift(a, k) <=> x \in Nat /\ x + k \in a
<1>1. ASSUME x \in Shift(a, k) PROVE x \in Nat /\ x + k \in a
  <2>1. PICK i \in a \cap k..31 : x = i - k
    BY <1>1 DEF Shift
  <2>2. i \in Int /\ i >= k
    BY <2>1 DEF Bits
  <2> QED
    BY <2>1, <2>2
<1>2. ASSUME x \in Nat, x + k \in a PROVE x \in Shift(a, k)
  <2>1. x + k \in a \cap k..31 /\ (x + k) - k = x
    BY <1>2 DEF Bits
  <2> QED
    BY <2>1, Zenon DEF Shift
<1> QED
  BY <1>1, <1>2

LEMMA WordType ==
    ASSUME NEW a \in SUBSET Bits, NEW b \in SUBSET Bits, NEW k \in Nat
    PROVE  Xor(a, b) \in SUBSET Bits /\ Shift(a, k) \in SUBSET Bits
<1>1. Xor(a, b) \in SUBSET Bits
  BY DEF Xor
<1>2. ASSUME NEW x \in Shift(a, k) PROVE x \in Bits
  BY <1>2, InShift DEF Bits
<1> QED
  BY <1>1, <1>2

LEMMA PolyType == Poly \in SUBSET Bits /\ {} \in SUBSET Bits
BY DEF Poly, Generator, Bits

LEMMA ByteBitsType ==
    ASSUME NEW n
    PROVE  ByteBits(n) \in SUBSET (0..7) /\ ByteBits(n) \in SUBSET Bits
BY DEF ByteBits, Bits

\* Shifting twice is shifting by the sum.
LEMMA ShiftShift ==
    ASSUME NEW a \in SUBSET Bits, NEW j \in Nat, NEW k \in Nat
    PROVE  Shift(Shift(a, j), k) = Shift(a, j + k)
<1>1. ASSUME NEW x PROVE x \in Shift(Shift(a, j), k) <=> x \in Shift(a, j + k)
  <2>1. Shift(a, j) \in SUBSET Bits
    BY WordType
  <2>2. x \in Shift(Shift(a, j), k) <=> x \in Nat /\ x + k \in Shift(a, j)
    BY <2>1, InShift
  <2>3. x \in Nat => (x + k \in Shift(a, j) <=> (x + k) + j \in a)
    BY InShift
  <2>4. x \in Shift(a, j + k) <=> x \in Nat /\ x + (j + k) \in a
    BY InShift
  <2>5. x \in Nat => (x + k) + j = x + (j + k)
    OBVIOUS
  <2> QED
    BY <2>2, <2>3, <2>4, <2>5
<1> QED
  BY <1>1

\* A shift takes the bits apart.
LEMMA ShiftXor ==
    ASSUME NEW a \in SUBSET Bits, NEW b \in SUBSET Bits, NEW k \in Nat
    PROVE  Shift(Xor(a, b), k) = Xor(Shift(a, k), Shift(b, k))
<1>1. ASSUME NEW x PROVE x \in Shift(Xor(a, b), k) <=> x \in Xor(Shift(a, k), Shift(b, k))
  <2>1. x \in Shift(Xor(a, b), k) <=> x \in Nat /\ x + k \in Xor(a, b)
    BY WordType, InShift
  <2>2. x + k \in Xor(a, b) <=> ~(x + k \in a <=> x + k \in b)
    BY InXor
  <2>3. x \in Shift(a, k) <=> x \in Nat /\ x + k \in a
    BY InShift
  <2>4. x \in Shift(b, k) <=> x \in Nat /\ x + k \in b
    BY InShift
  <2>5. x \in Xor(Shift(a, k), Shift(b, k)) <=> ~(x \in Shift(a, k) <=> x \in Shift(b, k))
    BY InXor
  <2> QED
    BY <2>1, <2>2, <2>3, <2>4, <2>5
<1> QED
  BY <1>1

\* One step of the division by the generator takes them apart as well.
LEMMA StepXor ==
    ASSUME NEW a \in SUBSET Bits, NEW b \in SUBSET Bits
    PROVE  Step(Xor(a, b)) = Xor(Step(a), Step(b))
<1>1. Shift(Xor(a, b), 1) = Xor(Shift(a, 1), Shift(b, 1))
  BY ShiftXor
<1>2. 0 \in Xor(a, b) <=> ~(0 \in a <=> 0 \in b)
  BY InXor
<1>3. \A p, s, t : /\ Xor(p, Xor(s, t)) = Xor(Xor(p, s), t)
                   /\ Xor(p, Xor(s, t)) = Xor(s, Xor(p, t))
                   /\ Xor(Xor(p, s), Xor(p, t)) = Xor(s, t)
  BY DEF Xor
<1> QED
  BY <1>1, <1>2, <1>3 DEF Step

LEMMA StepType ==
    ASSUME NEW a \in SUBSET Bits
    PROVE  Step(a) \in SUBSET Bits
BY WordType, PolyType DEF Step

-----------------------------------------------------------------------------
(* The table. *)

\* Eight steps from a word.
Turns(c, w) ==
    /\ c \in [0..8 -> SUBSET Bits]
    /\ c[0] = w
    /\ \A j \in 1..8 : c[j] = Step(c[j - 1])

LEMMA Turning ==
    ASSUME NEW w \in SUBSET Bits
    PROVE  \E c : Turns(c, w)
<1> DEFINE step == [j \in 1..8 |-> [x \in SUBSET Bits |-> Step(x)]]
<1>1. step \in [1..8 -> [SUBSET Bits -> SUBSET Bits]]
  BY StepType
<1>2. \A j \in 1..8, x \in SUBSET Bits : step[j][x] = Step(x)
  OBVIOUS
<1> HIDE DEF step
<1>3. PICK c : Unfolds(c, 8, w, step)
  BY <1>1, Recursion
<1>4. \A j \in 0..8 : c[j] \in SUBSET Bits
  BY <1>1, <1>3, RecursionType
<1>5. c = [j \in 0..8 |-> c[j]] /\ c[0] = w
  BY <1>3 DEF Unfolds
<1>6. c \in [0..8 -> SUBSET Bits]
  BY <1>4, <1>5
<1>7. ASSUME NEW j \in 1..8 PROVE c[j] = Step(c[j - 1])
  <2>1. j - 1 \in 0..8
    OBVIOUS
  <2>2. c[j] = step[j][c[j - 1]]
    BY <1>3 DEF Unfolds
  <2> QED
    BY <2>1, <2>2, <1>2, <1>4
<1> QED
  BY <1>5, <1>6, <1>7 DEF Turns

LEMMA TableTurns ==
    ASSUME NEW b \in SUBSET (0..7), NEW c, Turns(c, b)
    PROVE  Table[b] = c[8]
<1> DEFINE f == CHOOSE g : g = [j \in 0..8 |-> IF j = 0 THEN b ELSE Step(g[j - 1])]
<1>1. Table[b] = f[8]
  BY DEF Table
<1>2. c = [j \in 0..8 |-> IF j = 0 THEN b ELSE Step(c[j - 1])]
  <2>1. c = [j \in 0..8 |-> c[j]]
    BY DEF Turns
  <2>2. \A j \in 0..8 : c[j] = IF j = 0 THEN b ELSE Step(c[j - 1])
    BY DEF Turns
  <2> QED
    BY <2>1, <2>2
<1>3. f = [j \in 0..8 |-> IF j = 0 THEN b ELSE Step(f[j - 1])]
  BY <1>2
<1> HIDE DEF f
<1> DEFINE S == {j \in 0..8 : f[j] = c[j]}
<1>4. 0 \in S
  BY <1>3 DEF Turns
<1>5. ASSUME NEW j \in 1..8, j - 1 \in S PROVE j \in S
  <2>1. f[j] = Step(f[j - 1]) /\ c[j] = Step(c[j - 1])
    BY <1>3 DEF Turns
  <2> QED
    BY <2>1, <1>5
<1> HIDE DEF S
<1>6. 0..8 \subseteq S
  BY <1>4, <1>5, InductUpTo
<1> QED
  BY <1>1, <1>6 DEF S

\* Eight steps are a look into the table and a shift.
LEMMA TurnsByTable ==
    ASSUME NEW w \in SUBSET Bits, NEW c, Turns(c, w)
    PROVE  c[8] = Xor(Table[Low(w)], Shift(w, 8))
<1> DEFINE high == w \ (0..7)
<1>1. Low(w) \in SUBSET (0..7) /\ Low(w) \in SUBSET Bits /\ high \in SUBSET Bits
  BY DEF Low, Bits
<1>2. PICK d : Turns(d, Low(w))
  BY <1>1, Turning
<1> DEFINE T == {j \in 0..8 : c[j] = Xor(d[j], Shift(high, j))}
<1>3. 0 \in T
  <2>1. ASSUME NEW x PROVE x \in Shift(high, 0) <=> x \in high
    <3>1. x \in Shift(high, 0) <=> x \in Nat /\ x + 0 \in high
      BY <1>1, InShift
    <3>2. x \in high => x \in Nat
      BY DEF Bits
    <3>3. x \in Nat => x + 0 = x
      OBVIOUS
    <3> QED
      BY <3>1, <3>2, <3>3
  <2>2. Shift(high, 0) = high
    BY <2>1
  <2>3. Xor(Low(w), high) = w
    BY DEF Xor, Low
  <2> QED
    BY <1>2, <2>2, <2>3 DEF Turns
<1>4. ASSUME NEW j \in 1..8, j - 1 \in T PROVE j \in T
  <2>0. j - 1 \in 0..8 /\ j - 1 \in Nat
    OBVIOUS
  <2>1. c[j] = Step(c[j - 1]) /\ d[j] = Step(d[j - 1]) /\ d[j - 1] \in SUBSET Bits
    BY <1>2, <2>0 DEF Turns
  <2>2. c[j - 1] = Xor(d[j - 1], Shift(high, j - 1))
    BY <1>4
  <2>3. Shift(high, j - 1) \in SUBSET Bits
    BY <1>1, <2>0, WordType
  <2>4. c[j] = Xor(d[j], Step(Shift(high, j - 1)))
    BY <2>1, <2>2, <2>3, StepXor
  <2>5. 0 \notin Shift(high, j - 1)
    BY <1>1, <2>0, InShift
  <2>6. Shift(Shift(high, j - 1), 1) = Shift(high, (j - 1) + 1)
    BY <1>1, <2>0, ShiftShift
  <2>7. Step(Shift(high, j - 1)) = Shift(high, j)
    BY <2>5, <2>6 DEF Step
  <2> QED
    BY <2>4, <2>7
<1>5. 0..8 \subseteq T
  <2> HIDE DEF T
  <2> QED
    BY <1>3, <1>4, InductUpTo
<1>6. c[8] = Xor(d[8], Shift(high, 8))
  BY <1>5
<1>7. Shift(high, 8) = Shift(w, 8)
  <2>1. ASSUME NEW x PROVE x \in Shift(high, 8) <=> x \in Shift(w, 8)
    <3>1. x \in Shift(high, 8) <=> x \in Nat /\ x + 8 \in high
      BY <1>1, InShift
    <3>2. x \in Shift(w, 8) <=> x \in Nat /\ x + 8 \in w
      BY InShift
    <3>3. x \in Nat => x + 8 \notin 0..7
      OBVIOUS
    <3> QED
      BY <3>1, <3>2, <3>3
  <2> QED
    BY <2>1
<1>8. Table[Low(w)] = d[8]
  BY <1>1, <1>2, TableTurns
<1> QED
  BY <1>6, <1>7, <1>8

-----------------------------------------------------------------------------
(* Bytes. *)

\* What Crc32::Update makes of the register for one byte.
Absorbed(before, n) == Xor(Table[Low(Xor(before, ByteBits(n)))], Shift(before, 8))

LEMMA AbsorbedTurns ==
    ASSUME NEW w \in SUBSET Bits, NEW n, NEW c, Turns(c, Xor(w, ByteBits(n)))
    PROVE  Absorbed(w, n) = c[8]
<1>1. Xor(w, ByteBits(n)) \in SUBSET Bits
  BY ByteBitsType, WordType
<1>2. c[8] = Xor(Table[Low(Xor(w, ByteBits(n)))], Shift(Xor(w, ByteBits(n)), 8))
  BY <1>1, TurnsByTable
<1>3. Shift(Xor(w, ByteBits(n)), 8) = Xor(Shift(w, 8), Shift(ByteBits(n), 8))
  BY ByteBitsType, ShiftXor
<1>4. Shift(ByteBits(n), 8) = {}
  <2>1. ASSUME NEW x PROVE x \notin Shift(ByteBits(n), 8)
    <3>1. x \in Shift(ByteBits(n), 8) <=> x \in Nat /\ x + 8 \in ByteBits(n)
      BY ByteBitsType, InShift
    <3>2. x \in Nat => x + 8 \notin 0..7
      OBVIOUS
    <3> QED
      BY <3>1, <3>2, ByteBitsType
  <2> QED
    BY <2>1
<1>5. \A a : Xor(a, {}) = a
  BY DEF Xor
<1> QED
  BY <1>2, <1>3, <1>4, <1>5 DEF Absorbed

LEMMA AbsorbedType ==
    ASSUME NEW w \in SUBSET Bits, NEW n
    PROVE  Absorbed(w, n) \in SUBSET Bits
<1>1. Xor(w, ByteBits(n)) \in SUBSET Bits
  BY ByteBitsType, WordType
<1>2. PICK c : Turns(c, Xor(w, ByteBits(n)))
  BY <1>1, Turning
<1> QED
  BY <1>2, AbsorbedTurns DEF Turns

\* The register from a word on, after each of some bytes.
Register(s, w, bytes) ==
    /\ s \in [0..Len(bytes) -> SUBSET Bits]
    /\ s[0] = w
    /\ \A k \in 1..Len(bytes) : s[k] = Absorbed(s[k - 1], bytes[k])

LEMMA RegisterExists ==
    ASSUME NEW w \in SUBSET Bits, NEW bytes \in Seq(Byte)
    PROVE  \E s : Register(s, w, bytes)
<1> DEFINE step == [k \in 1..Len(bytes) |-> [x \in SUBSET Bits |-> Absorbed(x, bytes[k])]]
<1>0. Len(bytes) \in Nat
  OBVIOUS
<1>1. step \in [1..Len(bytes) -> [SUBSET Bits -> SUBSET Bits]]
  BY AbsorbedType
<1>2. \A k \in 1..Len(bytes), x \in SUBSET Bits : step[k][x] = Absorbed(x, bytes[k])
  OBVIOUS
<1> HIDE DEF step
<1>3. PICK s : Unfolds(s, Len(bytes), w, step)
  BY <1>0, <1>1, Recursion
<1>4. \A k \in 0..Len(bytes) : s[k] \in SUBSET Bits
  BY <1>0, <1>1, <1>3, RecursionType
<1>5. s = [k \in 0..Len(bytes) |-> s[k]] /\ s[0] = w
  BY <1>3 DEF Unfolds
<1>6. s \in [0..Len(bytes) -> SUBSET Bits]
  BY <1>4, <1>5
<1>7. ASSUME NEW k \in 1..Len(bytes) PROVE s[k] = Absorbed(s[k - 1], bytes[k])
  <2>1. k - 1 \in 0..Len(bytes)
    BY <1>0
  <2>2. s[k] = step[k][s[k - 1]]
    BY <1>3 DEF Unfolds
  <2> QED
    BY <2>1, <2>2, <1>2, <1>4
<1> QED
  BY <1>5, <1>6, <1>7 DEF Register

LEMMA UpdatedRegister ==
    ASSUME NEW w, NEW bytes \in Seq(Byte), NEW s, Register(s, w, bytes)
    PROVE  Updated(w, bytes) = s[Len(bytes)]
<1> DEFINE f == CHOOSE g : g = [k \in 0..Len(bytes) |->
                                  IF k = 0 THEN w
                                  ELSE LET before == g[k - 1]
                                       IN  Xor(Table[Low(Xor(before, ByteBits(bytes[k])))], Shift(before, 8))]
<1>0. Len(bytes) \in Nat
  OBVIOUS
<1>1. Updated(w, bytes) = f[Len(bytes)]
  BY DEF Updated
<1>2. s = [k \in 0..Len(bytes) |->
             IF k = 0 THEN w
             ELSE Xor(Table[Low(Xor(s[k - 1], ByteBits(bytes[k])))], Shift(s[k - 1], 8))]
  <2>1. s = [k \in 0..Len(bytes) |-> s[k]]
    BY DEF Register
  <2>2. ASSUME NEW k \in 0..Len(bytes)
        PROVE s[k] = IF k = 0 THEN w
                     ELSE Xor(Table[Low(Xor(s[k - 1], ByteBits(bytes[k])))], Shift(s[k - 1], 8))
    <3>1. CASE k = 0
      BY <3>1 DEF Register
    <3>2. CASE k # 0
      <4>1. k \in 1..Len(bytes)
        BY <1>0, <3>2
      <4> QED
        BY <3>2, <4>1 DEF Register, Absorbed
    <3> QED
      BY <3>1, <3>2
  <2> QED
    BY <2>1, <2>2, Zenon
<1>3. f = [k \in 0..Len(bytes) |->
             IF k = 0 THEN w
             ELSE Xor(Table[Low(Xor(f[k - 1], ByteBits(bytes[k])))], Shift(f[k - 1], 8))]
  BY <1>2, Zenon
<1> HIDE DEF f
<1> DEFINE S == {k \in 0..Len(bytes) : f[k] = s[k]}
<1>4. 0 \in S
  BY <1>0, <1>3 DEF Register
<1>5. ASSUME NEW k \in 1..Len(bytes), k - 1 \in S PROVE k \in S
  <2>1. k \in 0..Len(bytes) /\ k # 0
    BY <1>0
  <2>2. f[k] = Absorbed(f[k - 1], bytes[k])
    BY <1>3, <2>1 DEF Absorbed
  <2>3. s[k] = Absorbed(s[k - 1], bytes[k]) /\ f[k - 1] = s[k - 1]
    BY <1>5 DEF Register
  <2> QED
    BY <2>1, <2>2, <2>3
<1> HIDE DEF S
<1>6. 0..Len(bytes) \subseteq S
  BY <1>0, <1>4, <1>5, InductUpTo
<1> QED
  BY <1>0, <1>1, <1>6 DEF S

LEMMA UpdatedType ==
    ASSUME NEW w \in SUBSET Bits, NEW bytes \in Seq(Byte)
    PROVE  Updated(w, bytes) \in SUBSET Bits
<1>1. PICK s : Register(s, w, bytes)
  BY RegisterExists
<1>2. Len(bytes) \in 0..Len(bytes)
  OBVIOUS
<1> QED
  BY <1>1, <1>2, UpdatedRegister DEF Register

\* The cuts do not matter.
LEMMA UpdatedConcat ==
    ASSUME NEW w \in SUBSET Bits, NEW a \in Seq(Byte), NEW b \in Seq(Byte)
    PROVE  Updated(Updated(w, a), b) = Updated(w, a \o b)
<1>0. /\ a \o b \in Seq(Byte) /\ Len(a) \in Nat /\ Len(b) \in Nat
      /\ Len(a \o b) = Len(a) + Len(b)
      /\ \A k \in 1..Len(a) + Len(b) : (a \o b)[k] = IF k <= Len(a) THEN a[k] ELSE b[k - Len(a)]
  BY ConcatProperties
<1>1. PICK s : Register(s, w, a \o b)
  BY <1>0, RegisterExists
<1>2. /\ \A k \in 0..Len(a) + Len(b) : s[k] \in SUBSET Bits
      /\ s[0] = w
      /\ \A k \in 1..Len(a) + Len(b) : s[k] = Absorbed(s[k - 1], (a \o b)[k])
  BY <1>0, <1>1 DEF Register
<1> DEFINE first == [k \in 0..Len(a) |-> s[k]]
           second == [k \in 0..Len(b) |-> s[Len(a) + k]]
<1>3. Register(first, w, a)
  <2>1. first \in [0..Len(a) -> SUBSET Bits] /\ first[0] = w
    BY <1>0, <1>2
  <2>2. ASSUME NEW k \in 1..Len(a) PROVE first[k] = Absorbed(first[k - 1], a[k])
    <3>1. k \in 1..Len(a) + Len(b) /\ k \in 0..Len(a) /\ k - 1 \in 0..Len(a) /\ k <= Len(a)
      BY <1>0
    <3>2. (a \o b)[k] = a[k]
      BY <1>0, <3>1
    <3> QED
      BY <1>2, <3>1, <3>2
  <2> QED
    BY <2>1, <2>2 DEF Register
<1>4. Register(second, s[Len(a)], b)
  <2>1. \A k \in 0..Len(b) : Len(a) + k \in 0..Len(a) + Len(b)
    BY <1>0
  <2>2. second \in [0..Len(b) -> SUBSET Bits] /\ second[0] = s[Len(a)]
    BY <1>0, <1>2, <2>1
  <2>3. ASSUME NEW k \in 1..Len(b) PROVE second[k] = Absorbed(second[k - 1], b[k])
    <3>1. /\ Len(a) + k \in 1..Len(a) + Len(b) /\ ~(Len(a) + k <= Len(a)) /\ Len(a) + k - Len(a) = k
          /\ k \in 0..Len(b) /\ k - 1 \in 0..Len(b) /\ Len(a) + (k - 1) = Len(a) + k - 1
      BY <1>0
    <3>2. (a \o b)[Len(a) + k] = b[k]
      BY <1>0, <3>1
    <3>3. second[k] = s[Len(a) + k] /\ second[k - 1] = s[Len(a) + k - 1]
      BY <3>1
    <3>4. s[Len(a) + k] = Absorbed(s[Len(a) + k - 1], (a \o b)[Len(a) + k])
      BY <1>2, <3>1
    <3> QED
      BY <3>2, <3>3, <3>4
  <2> HIDE DEF second
  <2> QED
    BY <2>2, <2>3 DEF Register
<1>5. first[Len(a)] = s[Len(a)] /\ second[Len(b)] = s[Len(a) + Len(b)]
  BY <1>0
<1> HIDE DEF first, second
<1>6. Updated(w, a) = s[Len(a)]
  BY <1>3, <1>5, UpdatedRegister
<1>7. Updated(s[Len(a)], b) = s[Len(a) + Len(b)]
  BY <1>4, <1>5, UpdatedRegister
<1>8. Updated(w, a \o b) = s[Len(a) + Len(b)]
  BY <1>0, <1>1, UpdatedRegister
<1> QED
  BY <1>6, <1>7, <1>8

-----------------------------------------------------------------------------
(* The division. *)

LEMMA DivUnique ==
    ASSUME NEW m \in Nat \ {0}, NEW q \in Nat, NEW r \in 0..m - 1, NEW n \in Nat, n = q * m + r
    PROVE  n \div m = q /\ n % m = r
BY SMT

\* The bits of a message, and what one step of the division leaves.
Padded(bytes) == {i \in 0..8 * Len(bytes) - 1 : i % 8 \in ByteBits(bytes[i \div 8 + 1])}
Reduced(d, k) ==
    IF k - 1 \in d THEN Xor(d, {k - 1 + 32 - g : g \in Generator \cup {32}}) ELSE d

Divided(d, bytes) ==
    /\ d \in [0..8 * Len(bytes) -> SUBSET Nat]
    /\ d[0] = Xor(Padded(bytes), Bits)
    /\ \A k \in 1..8 * Len(bytes) : d[k] = Reduced(d[k - 1], k)

LEMMA ReducedType ==
    ASSUME NEW d \in SUBSET Nat, NEW k \in Nat \ {0}
    PROVE  Reduced(d, k) \in SUBSET Nat
<1>1. ASSUME NEW g \in Generator \cup {32} PROVE k - 1 + 32 - g \in Nat
  BY DEF Generator
<1> QED
  BY <1>1 DEF Reduced, Xor

LEMMA DividedExists ==
    ASSUME NEW bytes \in Seq(Byte)
    PROVE  \E d : Divided(d, bytes)
<1> DEFINE n == 8 * Len(bytes)
           step == [k \in 1..n |-> [x \in SUBSET Nat |-> Reduced(x, k)]]
<1>0. n \in Nat /\ \A k \in 1..n : k \in Nat \ {0}
  OBVIOUS
<1>1. step \in [1..n -> [SUBSET Nat -> SUBSET Nat]]
  BY <1>0, ReducedType
<1>2. \A k \in 1..n, x \in SUBSET Nat : step[k][x] = Reduced(x, k)
  OBVIOUS
<1>3. Xor(Padded(bytes), Bits) \in SUBSET Nat
  <2>1. \A i \in 0..n - 1 : i \in Nat
    BY <1>0
  <2>2. Padded(bytes) \in SUBSET Nat /\ Bits \in SUBSET Nat
    BY <2>1 DEF Padded, Bits
  <2> QED
    BY <2>2 DEF Xor
<1> HIDE DEF step, n
<1>4. PICK d : Unfolds(d, n, Xor(Padded(bytes), Bits), step)
  BY <1>0, <1>1, <1>3, Recursion
<1>5. \A k \in 0..n : d[k] \in SUBSET Nat
  BY <1>0, <1>1, <1>3, <1>4, RecursionType
<1>6. d = [k \in 0..n |-> d[k]] /\ d[0] = Xor(Padded(bytes), Bits)
  BY <1>4 DEF Unfolds
<1>7. d \in [0..n -> SUBSET Nat]
  BY <1>5, <1>6
<1>8. ASSUME NEW k \in 1..n PROVE d[k] = Reduced(d[k - 1], k)
  <2>1. k - 1 \in 0..n
    BY <1>0
  <2>2. d[k] = step[k][d[k - 1]]
    BY <1>4 DEF Unfolds
  <2> QED
    BY <2>1, <2>2, <1>2, <1>5
<1> QED
  BY <1>6, <1>7, <1>8 DEF Divided, n

LEMMA RemainderDivided ==
    ASSUME NEW bytes \in Seq(Byte), NEW d, Divided(d, bytes)
    PROVE  Remainder(bytes) = {i \in Bits : 8 * Len(bytes) + i \notin d[8 * Len(bytes)]}
<1> DEFINE n == 8 * Len(bytes)
           f == CHOOSE g : g = [k \in 0..n |->
                    IF k = 0 THEN Xor(Padded(bytes), Bits)
                    ELSE LET x == g[k - 1]
                         IN  IF k - 1 \in x
                             THEN Xor(x, {k - 1 + 32 - gg : gg \in Generator \cup {32}}) ELSE x]
<1>0. n \in Nat
  OBVIOUS
<1>1. Remainder(bytes) = {i \in Bits : n + i \notin f[n]}
  BY DEF Remainder, Padded
<1>2. d = [k \in 0..n |-> IF k = 0 THEN Xor(Padded(bytes), Bits) ELSE Reduced(d[k - 1], k)]
  <2>1. d = [k \in 0..n |-> d[k]]
    BY DEF Divided
  <2>2. ASSUME NEW k \in 0..n
        PROVE  d[k] = IF k = 0 THEN Xor(Padded(bytes), Bits) ELSE Reduced(d[k - 1], k)
    <3>1. CASE k = 0
      BY <3>1 DEF Divided
    <3>2. CASE k # 0
      <4>1. k \in 1..n
        BY <1>0, <3>2
      <4> QED
        BY <3>2, <4>1 DEF Divided
    <3> QED
      BY <3>1, <3>2
  <2> QED
    BY <2>1, <2>2, Zenon
<1>3. f = [k \in 0..n |-> IF k = 0 THEN Xor(Padded(bytes), Bits) ELSE Reduced(f[k - 1], k)]
  BY <1>2, Zenon DEF Reduced
<1> HIDE DEF f
<1> DEFINE S == {k \in 0..n : f[k] = d[k]}
<1>4. 0 \in S
  BY <1>0, <1>3 DEF Divided
<1>5. ASSUME NEW k \in 1..n, k - 1 \in S PROVE k \in S
  <2>1. k \in 0..n /\ k # 0
    BY <1>0
  <2>2. f[k] = Reduced(f[k - 1], k)
    BY <1>3, <2>1
  <2>3. d[k] = Reduced(d[k - 1], k) /\ f[k - 1] = d[k - 1]
    BY <1>5 DEF Divided
  <2> QED
    BY <2>1, <2>2, <2>3
<1> HIDE DEF S, n
<1>6. 0..n \subseteq S
  BY <1>0, <1>4, <1>5, InductUpTo
<1>7. f[n] = d[n]
  BY <1>0, <1>6 DEF S
<1> QED
  BY <1>1, <1>7 DEF n

\* The register c stands for what is left of the dividend from bit k on.
Stands(c, k, d, P) == \A m \in Nat : m >= k => (m \in d <=> ~(m - k \in c <=> m \in P))

LEMMA OneBit ==
    ASSUME NEW k \in Nat, NEW c \in SUBSET Bits, NEW d \in SUBSET Nat, NEW P, k \notin P,
           Stands(c, k, d, P)
    PROVE  Stands(Step(c), k + 1, Reduced(d, k + 1), P)
<1> SUFFICES ASSUME NEW m \in Nat, m >= k + 1
             PROVE  m \in Reduced(d, k + 1) <=> ~(m - (k + 1) \in Step(c) <=> m \in P)
  BY DEF Stands
<1>0. m >= k /\ m - (k + 1) \in Nat /\ m - (k + 1) + 1 = m - k /\ (k + 1) - 1 = k /\ k - k = 0 /\ k >= k
  OBVIOUS
<1>1. m \in d <=> ~(m - k \in c <=> m \in P)
  BY <1>0 DEF Stands
<1>2. k \in d <=> 0 \in c
  <2>1. k \in d <=> ~(k - k \in c <=> k \in P)
    BY <1>0 DEF Stands
  <2> QED
    BY <1>0, <2>1
<1>3. m - (k + 1) \in Shift(c, 1) <=> m - k \in c
  BY <1>0, InShift
<1>4. CASE 0 \notin c
  BY <1>0, <1>1, <1>2, <1>3, <1>4 DEF Step, Reduced
<1>5. CASE 0 \in c
  <2> DEFINE G == {k + 32 - g : g \in Generator \cup {32}}
  <2>1. m \in G <=> m - (k + 1) \in Poly
    <3>1. ASSUME m \in G PROVE m - (k + 1) \in Poly
      <4>1. PICK g \in Generator \cup {32} : m = k + 32 - g
        BY <3>1
      <4>2. g \in Generator /\ g \in Nat
        BY <4>1 DEF Generator
      <4>3. m - (k + 1) = 31 - g
        BY <4>1, <4>2
      <4> QED
        BY <4>2, <4>3 DEF Poly
    <3>2. ASSUME m - (k + 1) \in Poly PROVE m \in G
      <4>1. PICK g \in Generator : m - (k + 1) = 31 - g
        BY <3>2 DEF Poly
      <4>2. g \in Nat
        BY DEF Generator
      <4>3. m = k + 32 - g
        BY <4>1, <4>2
      <4> QED
        BY <4>3
    <3> QED
      BY <3>1, <3>2
  <2>2. Reduced(d, k + 1) = Xor(d, G)
    BY <1>0, <1>2, <1>5 DEF Reduced
  <2> HIDE DEF G
  <2>3. m \in Xor(d, G) <=> ~(m \in d <=> m \in G)
    BY InXor
  <2>4. Step(c) = Xor(Poly, Shift(c, 1))
    BY <1>5 DEF Step
  <2>5. m - (k + 1) \in Xor(Poly, Shift(c, 1))
          <=> ~(m - (k + 1) \in Poly <=> m - (k + 1) \in Shift(c, 1))
    BY InXor
  <2> QED
    BY <1>1, <1>3, <2>1, <2>2, <2>3, <2>4, <2>5
<1> QED
  BY <1>4, <1>5

LEMMA OneByte ==
    ASSUME NEW bytes \in Seq(Byte), NEW d, Divided(d, bytes), NEW w \in SUBSET Bits,
           NEW j \in 0..Len(bytes) - 1, Stands(w, 8 * j, d[8 * j], Padded(bytes))
    PROVE  Stands(Absorbed(w, bytes[j + 1]), 8 * (j + 1), d[8 * (j + 1)], Padded(bytes))
<1> DEFINE bits == ByteBits(bytes[j + 1])
           P == {i \in Padded(bytes) : i >= 8 * (j + 1)}
<1>0. Len(bytes) \in Nat /\ j \in Nat
  OBVIOUS
<1>1. bits \in SUBSET (0..7) /\ bits \in SUBSET Bits /\ Xor(w, bits) \in SUBSET Bits
  BY ByteBitsType, WordType
<1>2. PICK c : Turns(c, Xor(w, bits))
  BY <1>1, Turning
<1>3. ASSUME NEW m \in Nat, m >= 8 * j
      PROVE  m \in Padded(bytes) <=> ~(m - 8 * j \in bits <=> m \in P)
  <2>1. CASE m >= 8 * (j + 1)
    <3>1. m - 8 * j \notin 0..7
      BY <1>0, <2>1
    <3> QED
      BY <1>1, <2>1, <3>1
  <2>2. CASE ~(m >= 8 * (j + 1))
    <3>1. m - 8 * j \in 0..8 - 1 /\ m = j * 8 + (m - 8 * j) /\ 8 \in Nat \ {0}
      BY <1>0, <1>3, <2>2
    <3>2. m \div 8 = j /\ m % 8 = m - 8 * j
      BY <1>0, <3>1, DivUnique
    <3>3. m \in 0..8 * Len(bytes) - 1
      BY <1>0, <2>2
    <3>4. m \in Padded(bytes) <=> m % 8 \in ByteBits(bytes[m \div 8 + 1])
      BY <3>3 DEF Padded
    <3>5. m \notin P
      BY <2>2
    <3> QED
      BY <3>2, <3>4, <3>5
  <2> QED
    BY <2>1, <2>2
<1> DEFINE S == {t \in 0..8 : Stands(c[t], 8 * j + t, d[8 * j + t], P)}
<1>4. 0 \in S
  <2>1. c[0] = Xor(w, bits) /\ 8 * j + 0 = 8 * j
    BY <1>0, <1>2 DEF Turns
  <2>2. ASSUME NEW m \in Nat, m >= 8 * j
        PROVE  m \in d[8 * j] <=> ~(m - 8 * j \in Xor(w, bits) <=> m \in P)
    <3>1. m \in d[8 * j] <=> ~(m - 8 * j \in w <=> m \in Padded(bytes))
      BY <2>2 DEF Stands
    <3>2. m \in Padded(bytes) <=> ~(m - 8 * j \in bits <=> m \in P)
      BY <1>3, <2>2
    <3>3. m - 8 * j \in Xor(w, bits) <=> ~(m - 8 * j \in w <=> m - 8 * j \in bits)
      BY InXor
    <3> HIDE DEF P, bits
    <3> QED
      BY <3>1, <3>2, <3>3
  <2>3. Stands(Xor(w, bits), 8 * j, d[8 * j], P)
    BY <2>2 DEF Stands
  <2> QED
    BY <2>1, <2>3
<1>5. ASSUME NEW t \in 1..8, t - 1 \in S PROVE t \in S
  <2>0. /\ 8 * j + (t - 1) \in Nat /\ 8 * j + (t - 1) + 1 = 8 * j + t /\ (8 * j + t) - 1 = 8 * j + (t - 1)
        /\ 8 * j + t \in 1..8 * Len(bytes) /\ 8 * j + (t - 1) \in 0..8 * Len(bytes)
        /\ 8 * j + (t - 1) < 8 * (j + 1) /\ t - 1 \in 0..8 /\ t \in 0..8
    BY <1>0
  <2>1. 8 * j + (t - 1) \notin P
    BY <2>0
  <2>2. c[t] = Step(c[t - 1]) /\ c[t - 1] \in SUBSET Bits
    BY <1>2, <2>0 DEF Turns
  <2>3. d[8 * j + t] = Reduced(d[8 * j + (t - 1)], 8 * j + t) /\ d[8 * j + (t - 1)] \in SUBSET Nat
    BY <2>0 DEF Divided
  <2>4. Stands(c[t - 1], 8 * j + (t - 1), d[8 * j + (t - 1)], P)
    BY <1>5
  <2> HIDE DEF P
  <2>5. Stands(Step(c[t - 1]), 8 * j + (t - 1) + 1, Reduced(d[8 * j + (t - 1)], 8 * j + (t - 1) + 1), P)
    BY <2>0, <2>1, <2>2, <2>3, <2>4, OneBit
  <2>6. Stands(c[t], 8 * j + t, d[8 * j + t], P)
    BY <2>0, <2>2, <2>3, <2>5
  <2> QED
    BY <2>0, <2>6
<1>6. 8 \in S
  <2> HIDE DEF S
  <2>1. 0..8 \subseteq S
    BY <1>4, <1>5, InductUpTo
  <2> QED
    BY <2>1
<1>7. c[8] = Absorbed(w, bytes[j + 1])
  BY <1>2, AbsorbedTurns
<1>8. Stands(Absorbed(w, bytes[j + 1]), 8 * (j + 1), d[8 * (j + 1)], P)
  <2>1. 8 * j + 8 = 8 * (j + 1)
    BY <1>0
  <2> QED
    BY <1>6, <1>7, <2>1
<1> QED
  BY <1>8 DEF Stands

\* BuildTable's table and Update's loop in common/crc32.cpp compute the
\* remainder of the division by which CRC-32C is defined, of bytes of any number.
THEOREM ComputeIsRemainder ==
    ASSUME NEW bytes \in Seq(Byte)
    PROVE  Compute(bytes) = Remainder(bytes)
<1>0. Len(bytes) \in Nat /\ Fresh \in SUBSET Bits
  BY DEF Fresh
<1>1. PICK s : Register(s, Fresh, bytes)
  BY <1>0, RegisterExists
<1>2. PICK d : Divided(d, bytes)
  BY DividedExists
<1>3. \A j \in 0..Len(bytes) : s[j] \in SUBSET Bits
  BY <1>1 DEF Register
<1> DEFINE S == {j \in 0..Len(bytes) : Stands(s[j], 8 * j, d[8 * j], Padded(bytes))}
<1>4. 0 \in S
  <2>1. s[0] = Bits /\ d[0] = Xor(Padded(bytes), Bits) /\ 8 * 0 = 0
    BY <1>1, <1>2 DEF Register, Divided, Fresh
  <2>2. ASSUME NEW m \in Nat PROVE m \in Xor(Padded(bytes), Bits) <=> ~(m - 0 \in Bits <=> m \in Padded(bytes))
    <3>1. m - 0 = m
      OBVIOUS
    <3> QED
      BY <3>1, InXor
  <2>3. Stands(Bits, 0, Xor(Padded(bytes), Bits), Padded(bytes))
    BY <2>2 DEF Stands
  <2> QED
    BY <1>0, <2>1, <2>3
<1>5. ASSUME NEW j \in 1..Len(bytes), j - 1 \in S PROVE j \in S
  <2>1. j - 1 \in 0..Len(bytes) - 1 /\ (j - 1) + 1 = j /\ j \in 0..Len(bytes) /\ j - 1 \in 0..Len(bytes)
    BY <1>0
  <2>2. Stands(s[j - 1], 8 * (j - 1), d[8 * (j - 1)], Padded(bytes))
    BY <1>5
  <2>3. Stands(Absorbed(s[j - 1], bytes[j - 1 + 1]), 8 * (j - 1 + 1), d[8 * (j - 1 + 1)], Padded(bytes))
    BY <1>2, <1>3, <2>1, <2>2, OneByte
  <2>4. s[j] = Absorbed(s[j - 1], bytes[j])
    BY <1>1 DEF Register
  <2> QED
    BY <2>1, <2>3, <2>4
<1>6. Stands(s[Len(bytes)], 8 * Len(bytes), d[8 * Len(bytes)], Padded(bytes))
  <2> HIDE DEF S
  <2>1. 0..Len(bytes) \subseteq S
    BY <1>0, <1>4, <1>5, InductUpTo
  <2> QED
    BY <1>0, <2>1 DEF S
<1>7. ASSUME NEW i \in Bits PROVE 8 * Len(bytes) + i \in d[8 * Len(bytes)] <=> i \in s[Len(bytes)]
  <2>1. PICK n \in Nat : n = 8 * Len(bytes)
    BY <1>0
  <2>2. PICK m \in Nat : m = n + i
    BY DEF Bits
  <2>3. m >= n /\ m - n = i /\ m \notin 0..n - 1
    BY <2>2 DEF Bits
  <2>4. m \notin Padded(bytes)
    BY <2>1, <2>3 DEF Padded
  <2>5. Stands(s[Len(bytes)], n, d[n], Padded(bytes))
    BY <1>6, <2>1
  <2>6. m \in d[n] <=> ~(m - n \in s[Len(bytes)] <=> m \in Padded(bytes))
    BY <2>3, <2>5, Zenon DEF Stands
  <2>7. m \in d[n] <=> i \in s[Len(bytes)]
    BY <2>3, <2>4, <2>6
  <2> QED
    BY <2>1, <2>2, <2>7
<1>8. Remainder(bytes) = Bits \ s[Len(bytes)]
  BY <1>2, <1>7, RemainderDivided
<1>9. Compute(bytes) = Xor(s[Len(bytes)], Bits)
  BY <1>1, UpdatedRegister DEF Compute, Final
<1>10. s[Len(bytes)] \in SUBSET Bits
  BY <1>0, <1>3
<1> QED
  BY <1>8, <1>9, <1>10 DEF Xor

-----------------------------------------------------------------------------
(* A wrong byte. *)

\* The highest bit of the generator tells whether a step divided: a step can be
\* taken back.
LEMMA StepInjective ==
    ASSUME NEW a \in SUBSET Bits, NEW b \in SUBSET Bits, Step(a) = Step(b)
    PROVE  a = b
<1>1. ASSUME NEW w \in SUBSET Bits PROVE 31 \in Step(w) <=> 0 \in w
  <2>1. 31 \in Poly
    BY DEF Poly, Generator
  <2>2. 31 \notin Shift(w, 1)
    BY InShift DEF Bits
  <2>3. 31 \in Xor(Poly, Shift(w, 1))
    BY <2>1, <2>2, InXor
  <2> QED
    BY <2>2, <2>3 DEF Step
<1>2. 0 \in a <=> 0 \in b
  BY <1>1
<1>3. Shift(a, 1) = Shift(b, 1)
  <2>1. \A p, s, t : Xor(p, s) = Xor(p, t) => s = t
    BY DEF Xor
  <2> QED
    BY <1>2, <2>1 DEF Step
<1>4. ASSUME NEW x \in Bits PROVE x \in a <=> x \in b
  <2>1. CASE x = 0
    BY <1>2, <2>1
  <2>2. CASE x # 0
    <3>1. x - 1 \in Nat /\ (x - 1) + 1 = x
      BY <2>2 DEF Bits
    <3> QED
      BY <1>3, <3>1, InShift
  <2> QED
    BY <2>1, <2>2
<1> QED
  BY <1>4

LEMMA TurnsInjective ==
    ASSUME NEW v \in SUBSET Bits, NEW w \in SUBSET Bits,
           NEW c, Turns(c, v), NEW d, Turns(d, w), c[8] = d[8]
    PROVE  v = w
<1> DEFINE S == {j \in 0..8 : c[8 - j] = d[8 - j]}
<1>1. 0 \in S
  OBVIOUS
<1>2. ASSUME NEW j \in 1..8, j - 1 \in S PROVE j \in S
  <2>1. 8 - (j - 1) \in 1..8 /\ 8 - (j - 1) - 1 = 8 - j /\ 8 - j \in 0..8 /\ j \in 0..8
    OBVIOUS
  <2>2. c[8 - (j - 1)] = Step(c[8 - j]) /\ d[8 - (j - 1)] = Step(d[8 - j])
    BY <2>1 DEF Turns
  <2>3. c[8 - j] \in SUBSET Bits /\ d[8 - j] \in SUBSET Bits
    BY <2>1 DEF Turns
  <2>4. Step(c[8 - j]) = Step(d[8 - j])
    BY <1>2, <2>2
  <2>5. c[8 - j] = d[8 - j]
    BY <2>3, <2>4, StepInjective
  <2> QED
    BY <2>1, <2>5
<1>3. 8 \in S
  <2> HIDE DEF S
  <2>1. 0..8 \subseteq S
    BY <1>1, <1>2, InductUpTo
  <2> QED
    BY <2>1
<1>4. c[0] = d[0]
  <2>1. c[8 - 8] = d[8 - 8]
    BY <1>3
  <2> QED
    BY <2>1
<1> QED
  BY <1>4 DEF Turns

\* Two registers that differ before a byte differ after it, and so do the
\* registers after two bytes that differ.
LEMMA AbsorbedInjective ==
    ASSUME NEW v \in SUBSET Bits, NEW w \in SUBSET Bits, NEW m, NEW n,
           Absorbed(v, m) = Absorbed(w, n)
    PROVE  Xor(v, ByteBits(m)) = Xor(w, ByteBits(n))
<1>1. Xor(v, ByteBits(m)) \in SUBSET Bits /\ Xor(w, ByteBits(n)) \in SUBSET Bits
  BY ByteBitsType, WordType
<1>2. PICK c : Turns(c, Xor(v, ByteBits(m)))
  BY <1>1, Turning
<1>3. PICK d : Turns(d, Xor(w, ByteBits(n)))
  BY <1>1, Turning
<1>4. c[8] = d[8]
  BY <1>2, <1>3, AbsorbedTurns
<1> QED
  BY <1>1, <1>2, <1>3, <1>4, TurnsInjective

LEMMA ByteBitsInjective ==
    ASSUME NEW m \in Byte, NEW n \in Byte, ByteBits(m) = ByteBits(n)
    PROVE  m = n
<1>1. \A i \in 0..7 : (m \div 2^i) % 2 = 1 <=> (n \div 2^i) % 2 = 1
  BY DEF ByteBits
<1>2. /\ (m \div 1) % 2 = 1 <=> (n \div 1) % 2 = 1
      /\ (m \div 2) % 2 = 1 <=> (n \div 2) % 2 = 1
      /\ (m \div 4) % 2 = 1 <=> (n \div 4) % 2 = 1
      /\ (m \div 8) % 2 = 1 <=> (n \div 8) % 2 = 1
      /\ (m \div 16) % 2 = 1 <=> (n \div 16) % 2 = 1
      /\ (m \div 32) % 2 = 1 <=> (n \div 32) % 2 = 1
      /\ (m \div 64) % 2 = 1 <=> (n \div 64) % 2 = 1
      /\ (m \div 128) % 2 = 1 <=> (n \div 128) % 2 = 1
  <2>1. 2^0 = 1 /\ 2^1 = 2 /\ 2^2 = 4 /\ 2^3 = 8 /\ 2^4 = 16 /\ 2^5 = 32 /\ 2^6 = 64 /\ 2^7 = 128
    BY SMT
  <2> QED
    BY <1>1, <2>1
<1>3. ASSUME NEW k \in 0..255
      PROVE  k = ((k \div 1) % 2) + 2 * ((k \div 2) % 2) + 4 * ((k \div 4) % 2) + 8 * ((k \div 8) % 2)
                   + 16 * ((k \div 16) % 2) + 32 * ((k \div 32) % 2)
                   + 64 * ((k \div 64) % 2) + 128 * ((k \div 128) % 2)
  BY SMTT(30)
<1>4. /\ (m \div 1) % 2 = (n \div 1) % 2 /\ (m \div 2) % 2 = (n \div 2) % 2
      /\ (m \div 4) % 2 = (n \div 4) % 2 /\ (m \div 8) % 2 = (n \div 8) % 2
      /\ (m \div 16) % 2 = (n \div 16) % 2 /\ (m \div 32) % 2 = (n \div 32) % 2
      /\ (m \div 64) % 2 = (n \div 64) % 2 /\ (m \div 128) % 2 = (n \div 128) % 2
  BY <1>2 DEF Byte
<1> QED
  BY <1>3, <1>4 DEF Byte

\* Every set of bits is that of a byte.
LEMMA BitsOfByteOf ==
    ASSUME NEW B \in SUBSET (0..7)
    PROVE  ByteOf[B] \in Byte /\ ByteBits(ByteOf[B]) = B
<1> DEFINE bit == [i \in 0..7 |-> IF i \in B THEN 1 ELSE 0]
           n == bit[0] + 2 * bit[1] + 4 * bit[2] + 8 * bit[3]
                  + 16 * bit[4] + 32 * bit[5] + 64 * bit[6] + 128 * bit[7]
<1>1. \A i \in 0..7 : bit[i] \in 0..1 /\ (bit[i] = 1 <=> i \in B)
  OBVIOUS
<1> HIDE DEF bit
<1>2. n \in 0..255
  BY <1>1
<1>3. /\ (n \div 1) % 2 = bit[0] /\ (n \div 2) % 2 = bit[1]
      /\ (n \div 4) % 2 = bit[2] /\ (n \div 8) % 2 = bit[3]
      /\ (n \div 16) % 2 = bit[4] /\ (n \div 32) % 2 = bit[5]
      /\ (n \div 64) % 2 = bit[6] /\ (n \div 128) % 2 = bit[7]
  <2>1. /\ bit[0] \in 0..1 /\ bit[1] \in 0..1 /\ bit[2] \in 0..1 /\ bit[3] \in 0..1
        /\ bit[4] \in 0..1 /\ bit[5] \in 0..1 /\ bit[6] \in 0..1 /\ bit[7] \in 0..1
    BY <1>1
  <2> QED
    BY <2>1
<1> HIDE DEF n
<1>4. ASSUME NEW i \in 0..7 PROVE (n \div 2^i) % 2 = bit[i]
  <2>1. 2^0 = 1 /\ 2^1 = 2 /\ 2^2 = 4 /\ 2^3 = 8 /\ 2^4 = 16 /\ 2^5 = 32 /\ 2^6 = 64 /\ 2^7 = 128
    BY SMT
  <2>2. /\ (n \div 2^0) % 2 = bit[0] /\ (n \div 2^1) % 2 = bit[1] /\ (n \div 2^2) % 2 = bit[2]
        /\ (n \div 2^3) % 2 = bit[3] /\ (n \div 2^4) % 2 = bit[4] /\ (n \div 2^5) % 2 = bit[5]
        /\ (n \div 2^6) % 2 = bit[6] /\ (n \div 2^7) % 2 = bit[7]
    BY <1>3, <2>1, Zenon
  <2>3. i = 0 \/ i = 1 \/ i = 2 \/ i = 3 \/ i = 4 \/ i = 5 \/ i = 6 \/ i = 7
    OBVIOUS
  <2> QED
    BY <2>2, <2>3, Zenon
<1>5. ByteBits(n) = B
  BY <1>1, <1>4 DEF ByteBits
<1>6. ByteOf[B] = CHOOSE k \in 0..255 : ByteBits(k) = B
  BY DEF ByteOf
<1> QED
  BY <1>2, <1>5, <1>6 DEF Byte

\* A change of one byte of a message, of any length, changes the checksum that
\* Crc32::Compute gives it.
THEOREM OneWrongByte ==
    ASSUME NEW a \in Seq(Byte), NEW b \in Seq(Byte), Len(a) = Len(b),
           NEW p \in 1..Len(a), a[p] # b[p], \A k \in 1..Len(a) : k # p => a[k] = b[k]
    PROVE  Compute(a) # Compute(b)
<1>0. Len(a) \in Nat /\ Fresh \in SUBSET Bits /\ a[p] \in Byte /\ b[p] \in Byte
  BY DEF Fresh
<1> DEFINE n == Len(a)
<1>1. PICK s : Register(s, Fresh, a)
  BY <1>0, RegisterExists
<1>2. PICK t : Register(t, Fresh, b)
  BY <1>0, RegisterExists
<1>3. /\ \A k \in 0..n : s[k] \in SUBSET Bits /\ t[k] \in SUBSET Bits
      /\ s[0] = t[0]
      /\ \A k \in 1..n : s[k] = Absorbed(s[k - 1], a[k]) /\ t[k] = Absorbed(t[k - 1], b[k])
  BY <1>1, <1>2 DEF Register
<1> DEFINE S == {k \in 0..p - 1 : s[k] = t[k]}
           T == {k \in 0..n - p : s[n - k] = t[n - k]}
<1>4. s[p - 1] = t[p - 1]
  <2>1. 0 \in S
    BY <1>3
  <2>2. ASSUME NEW k \in 1..p - 1, k - 1 \in S PROVE k \in S
    <3>1. k \in 1..n /\ k # p /\ k \in 0..p - 1
      BY <1>0
    <3> QED
      BY <1>3, <2>2, <3>1
  <2> HIDE DEF S
  <2>3. p - 1 \in Nat /\ p - 1 \in 0..p - 1
    BY <1>0
  <2>4. 0..p - 1 \subseteq S
    BY <2>1, <2>2, <2>3, InductUpTo
  <2> QED
    BY <2>3, <2>4 DEF S
<1>5. ASSUME s[n] = t[n] PROVE FALSE
  <2>1. 0 \in T
    BY <1>0, <1>5
  <2>2. ASSUME NEW k \in 1..n - p, k - 1 \in T PROVE k \in T
    <3>1. /\ n - (k - 1) \in 1..n /\ n - (k - 1) # p /\ n - (k - 1) - 1 = n - k
          /\ n - k \in 0..n /\ k \in 0..n - p
      BY <1>0
    <3>2. a[n - (k - 1)] = b[n - (k - 1)]
      BY <3>1
    <3>3. Absorbed(s[n - k], a[n - (k - 1)]) = Absorbed(t[n - k], a[n - (k - 1)])
      BY <1>3, <2>2, <3>1, <3>2
    <3>4. s[n - k] \in SUBSET Bits /\ t[n - k] \in SUBSET Bits
      BY <1>3, <3>1
    <3>5. Xor(s[n - k], ByteBits(a[n - (k - 1)])) = Xor(t[n - k], ByteBits(a[n - (k - 1)]))
      BY <3>3, <3>4, AbsorbedInjective
    <3>6. \A x, y, z : Xor(x, z) = Xor(y, z) => x = y
      BY DEF Xor
    <3>7. s[n - k] = t[n - k]
      BY <3>5, <3>6
    <3> QED
      BY <3>1, <3>7
  <2> HIDE DEF T
  <2>3. n - p \in Nat /\ n - p \in 0..n - p /\ n - (n - p) = p /\ p \in 1..n /\ p - 1 \in 0..n
    BY <1>0
  <2>4. 0..n - p \subseteq T
    BY <2>1, <2>2, <2>3, InductUpTo
  <2>5. s[n - (n - p)] = t[n - (n - p)]
    BY <2>3, <2>4 DEF T
  <2>6. Absorbed(s[p - 1], a[p]) = Absorbed(s[p - 1], b[p])
    BY <1>3, <1>4, <2>3, <2>5
  <2>7. Xor(s[p - 1], ByteBits(a[p])) = Xor(s[p - 1], ByteBits(b[p]))
    BY <1>3, <2>3, <2>6, AbsorbedInjective
  <2>8. \A x, y, z : Xor(x, y) = Xor(x, z) => y = z
    BY DEF Xor
  <2>9. ByteBits(a[p]) = ByteBits(b[p])
    BY <2>7, <2>8
  <2> QED
    BY <1>0, <2>9, ByteBitsInjective
<1>6. Compute(a) = Xor(s[n], Bits) /\ Compute(b) = Xor(t[n], Bits)
  BY <1>1, <1>2, UpdatedRegister DEF Compute, Final
<1>7. \A x, y, z : Xor(x, z) = Xor(y, z) => x = y
  BY DEF Xor
<1> QED
  BY <1>5, <1>6, <1>7

-----------------------------------------------------------------------------
(* Numbers as bytes. *)

LEMMA WorthSteps ==
    /\ Worth[0] = 1
    /\ \A i \in 1..8 : Worth[i] = Base * Worth[i - 1]
    /\ \A i \in 0..8 : Worth[i] \in Nat \ {0}
<1>0. Base \in Nat \ {0}
  BY CodecAssumption
<1> DEFINE step == [i \in 1..8 |-> [x \in Nat \ {0} |-> Base * x]]
<1>1. step \in [1..8 -> [Nat \ {0} -> Nat \ {0}]]
  <2>1. \A x \in Nat \ {0} : Base * x \in Nat \ {0}
    BY <1>0
  <2> QED
    BY <2>1
<1>2. \A i \in 1..8, x \in Nat \ {0} : step[i][x] = Base * x
  OBVIOUS
<1> HIDE DEF step
<1> DEFINE V == Nat \ {0}
<1>2a. step \in [1..8 -> [V -> V]] /\ 1 \in V /\ 8 \in Nat
  BY <1>1
<1>2b. \A x : x \in V <=> x \in Nat \ {0}
  OBVIOUS
<1> HIDE DEF V
<1>3. PICK w : Unfolds(w, 8, 1, step)
  BY <1>2a, Recursion
<1>4. \A i \in 0..8 : w[i] \in Nat \ {0}
  <2>1. \A i \in 0..8 : w[i] \in V
    BY <1>2a, <1>3, RecursionType
  <2> QED
    BY <2>1, <1>2b
<1>5. w = [i \in 0..8 |-> w[i]] /\ w[0] = 1 /\ \A i \in 1..8 : w[i] = step[i][w[i - 1]]
  BY <1>3 DEF Unfolds
<1>6. ASSUME NEW i \in 1..8 PROVE w[i] = Base * w[i - 1]
  <2>1. i - 1 \in 0..8
    OBVIOUS
  <2> QED
    BY <2>1, <1>2, <1>4, <1>5
<1>7. w = [i \in 0..8 |-> IF i = 0 THEN 1 ELSE Base * w[i - 1]]
  BY <1>5, <1>6
<1>8. Worth = [i \in 0..8 |-> IF i = 0 THEN 1 ELSE Base * Worth[i - 1]]
  BY <1>7, Zenon DEF Worth
<1> DEFINE S == {i \in 0..8 : Worth[i] = w[i]}
<1>9. 0 \in S
  BY <1>5, <1>8
<1>10. ASSUME NEW i \in 1..8, i - 1 \in S PROVE i \in S
  BY <1>6, <1>8, <1>10
<1> HIDE DEF S
<1>11. 0..8 \subseteq S
  BY <1>9, <1>10, InductUpTo
<1> QED
  BY <1>4, <1>5, <1>6, <1>11 DEF S

\* The arithmetic of a quotient and a remainder.
LEMMA DivMod ==
    ASSUME NEW n \in Nat, NEW m \in Nat \ {0}
    PROVE  /\ n \div m \in Nat /\ n % m \in 0..m - 1
           /\ n = (n \div m) * m + (n % m)
<1>1. n \div m \in Nat /\ n % m \in 0..m - 1
  OBVIOUS
<1>2. ASSUME NEW q, NEW r, q = n \div m, r = n % m PROVE n = m * q + r
  BY <1>2
<1>3. n = m * (n \div m) + (n % m)
  BY <1>2
<1>4. m * (n \div m) = (n \div m) * m
  BY <1>1
<1> QED
  BY <1>1, <1>3, <1>4

\* One more digit.
LEMMA ModStep ==
    ASSUME NEW n \in Nat, NEW w \in Nat \ {0}
    PROVE  n % (Base * w) = (n % w) + ((n \div w) % Base) * w
<1>0. Base \in Nat \ {0}
  BY CodecAssumption
<1>1. PICK q \in Nat, r \in 0..w - 1 : n \div w = q /\ n % w = r /\ n = q * w + r
  BY DivMod
<1>2. PICK p \in Nat, d \in 0..Base - 1 : q \div Base = p /\ q % Base = d /\ q = p * Base + d
  BY <1>0, DivMod
<1>3. d * w + r \in 0..Base * w - 1 /\ Base * w \in Nat \ {0}
  <2>1. d * w <= (Base - 1) * w
    BY <1>0
  <2>2. (Base - 1) * w = Base * w - w
    BY <1>0
  <2>3. d * w \in Nat /\ Base * w \in Nat \ {0}
    BY <1>0
  <2> QED
    BY <2>1, <2>2, <2>3
<1>4. n = p * (Base * w) + (d * w + r)
  <2>1. q * w = p * Base * w + d * w
    BY <1>0, <1>2
  <2>2. p * Base * w = p * (Base * w)
    BY <1>0
  <2> QED
    BY <1>0, <1>1, <2>1, <2>2
<1>5. n % (Base * w) = d * w + r
  <2>1. PICK M \in Nat \ {0} : M = Base * w
    BY <1>3
  <2>2. PICK R \in 0..M - 1 : R = d * w + r
    BY <1>3, <2>1
  <2>3. n = p * M + R
    BY <1>4, <2>1, <2>2
  <2>4. n % M = R
    BY <2>3, DivUnique
  <2> QED
    BY <2>1, <2>2, <2>4
<1> QED
  BY <1>1, <1>2, <1>5

LEMMA EncodeType ==
    ASSUME NEW n \in Nat, NEW width \in 0..8
    PROVE  Encode(n, width) \in Seq(Byte) /\ Len(Encode(n, width)) = width
<1>1. ASSUME NEW i \in 1..width PROVE (n \div Worth[i - 1]) % Base \in Byte
  <2>1. Worth[i - 1] \in Nat \ {0}
    BY WorthSteps
  <2>2. n \div Worth[i - 1] \in Nat
    BY <2>1, DivMod
  <2>3. Base \in Nat \ {0} /\ Base <= 256
    BY CodecAssumption
  <2>4. (n \div Worth[i - 1]) % Base \in 0..Base - 1
    BY <2>2, <2>3, DivMod
  <2> QED
    BY <2>3, <2>4 DEF Byte
<1> QED
  BY <1>1 DEF Encode

\* What the loop of the Decode functions runs through.
Decoding(v, buf, offset, width) ==
    /\ v[0] = 0
    /\ \A i \in 1..width : v[i] = v[i - 1] + buf[offset + i] * Worth[i - 1]
    /\ \A i \in 0..width : v[i] \in Nat
    /\ Decode(buf, offset, width) = v[width]

LEMMA SumInNat ==
    ASSUME NEW x \in Nat, NEW y \in Nat, NEW w \in Nat
    PROVE  x + y * w \in Nat
<1>1. PICK p \in Nat : p = y * w
  OBVIOUS
<1> QED
  BY <1>1

LEMMA DecodeUnfolds ==
    ASSUME NEW buf, NEW offset \in Nat, NEW width \in 0..8,
           \A i \in 1..width : buf[offset + i] \in Nat
    PROVE  \E v : Decoding(v, buf, offset, width)
<1> DEFINE step == [i \in 1..width |-> [x \in Nat |-> x + buf[offset + i] * Worth[i - 1]]]
           f == CHOOSE g : g = [i \in 0..width |->
                                  IF i = 0 THEN 0 ELSE g[i - 1] + buf[offset + i] * Worth[i - 1]]
<1>0. \A i \in 1..width : Worth[i - 1] \in Nat
  BY WorthSteps
<1>1. step \in [1..width -> [Nat -> Nat]]
  <2>1. \A i \in 1..width, x \in Nat : x + buf[offset + i] * Worth[i - 1] \in Nat
    BY <1>0, SumInNat, Zenon
  <2> QED
    BY <2>1
<1>2. \A i \in 1..width, x \in Nat : step[i][x] = x + buf[offset + i] * Worth[i - 1]
  OBVIOUS
<1>3. Decode(buf, offset, width) = f[width]
  BY DEF Decode
<1> HIDE DEF step
<1> DEFINE V == Nat
<1>2a. step \in [1..width -> [V -> V]] /\ 0 \in V /\ width \in Nat
  BY <1>1
<1>2b. \A x : x \in V <=> x \in Nat
  OBVIOUS
<1> HIDE DEF V
<1>4. PICK v : Unfolds(v, width, 0, step)
  BY <1>2a, Recursion
<1>5. \A i \in 0..width : v[i] \in Nat
  <2>1. \A i \in 0..width : v[i] \in V
    BY <1>2a, <1>4, RecursionType
  <2> QED
    BY <2>1, <1>2b
<1>6. v = [i \in 0..width |-> v[i]] /\ v[0] = 0 /\ \A i \in 1..width : v[i] = step[i][v[i - 1]]
  BY <1>4 DEF Unfolds
<1>7. ASSUME NEW i \in 1..width PROVE v[i] = v[i - 1] + buf[offset + i] * Worth[i - 1]
  <2>1. i - 1 \in 0..width
    OBVIOUS
  <2> QED
    BY <2>1, <1>2, <1>5, <1>6
<1>8. v = [i \in 0..width |-> IF i = 0 THEN 0 ELSE v[i - 1] + buf[offset + i] * Worth[i - 1]]
  <2>1. ASSUME NEW i \in 0..width
        PROVE  v[i] = IF i = 0 THEN 0 ELSE v[i - 1] + buf[offset + i] * Worth[i - 1]
    <3>1. i = 0 \/ i \in 1..width
      OBVIOUS
    <3> QED
      BY <3>1, <1>6, <1>7
  <2> QED
    BY <1>6, <2>1, Zenon
<1>9. f = [i \in 0..width |-> IF i = 0 THEN 0 ELSE f[i - 1] + buf[offset + i] * Worth[i - 1]]
  BY <1>8, Zenon
<1> HIDE DEF f
<1> DEFINE S == {i \in 0..width : f[i] = v[i]}
<1>10. 0 \in S
  BY <1>6, <1>9
<1>11. ASSUME NEW i \in 1..width, i - 1 \in S PROVE i \in S
  BY <1>7, <1>9, <1>11
<1> HIDE DEF S
<1>12. 0..width \subseteq S
  BY <1>10, <1>11, InductUpTo
<1>13. f[width] = v[width]
  BY <1>12 DEF S
<1> QED
  BY <1>3, <1>5, <1>6, <1>7, <1>13, Zenon DEF Decoding

\* A number comes out of its bytes as it went in.
LEMMA DecodeEncode ==
    ASSUME NEW width \in 0..8, NEW n \in 0..Worth[width] - 1, NEW buf, NEW offset \in Nat,
           \A i \in 1..width : buf[offset + i] = Encode(n, width)[i]
    PROVE  Decode(buf, offset, width) = n
<1>0. n \in Nat /\ Worth[width] \in Nat \ {0}
  BY WorthSteps
<1>1. ASSUME NEW i \in 1..width
      PROVE  buf[offset + i] = (n \div Worth[i - 1]) % Base /\ buf[offset + i] \in Nat
  <2>1. buf[offset + i] = (n \div Worth[i - 1]) % Base
    BY DEF Encode
  <2>2. Worth[i - 1] \in Nat \ {0}
    BY WorthSteps
  <2>3. n \div Worth[i - 1] \in Nat
    BY <1>0, <2>2, DivMod
  <2>4. Base \in Nat \ {0}
    BY CodecAssumption
  <2>5. (n \div Worth[i - 1]) % Base \in 0..Base - 1
    BY <2>3, <2>4, DivMod
  <2> QED
    BY <2>1, <2>4, <2>5
<1>2. PICK v : Decoding(v, buf, offset, width)
  BY <1>1, DecodeUnfolds
<1> DEFINE S == {i \in 0..width : v[i] = n % Worth[i]}
<1>3. 0 \in S
  <2>1. n % 1 = 0
    BY <1>0
  <2> QED
    BY <1>2, <2>1, WorthSteps DEF Decoding
<1>4. ASSUME NEW i \in 1..width, i - 1 \in S PROVE i \in S
  <2>1. i \in 1..8 /\ i - 1 \in 0..8
    OBVIOUS
  <2>2. Worth[i - 1] \in Nat \ {0} /\ Worth[i] = Base * Worth[i - 1]
    BY <2>1, WorthSteps
  <2>3. n % Worth[i] = (n % Worth[i - 1]) + ((n \div Worth[i - 1]) % Base) * Worth[i - 1]
    BY <1>0, <2>2, ModStep
  <2>4. v[i] = v[i - 1] + buf[offset + i] * Worth[i - 1]
    BY <1>2 DEF Decoding
  <2> QED
    BY <1>1, <1>4, <2>3, <2>4
<1>5. v[width] = n % Worth[width]
  <2> HIDE DEF S
  <2>1. 0..width \subseteq S
    BY <1>3, <1>4, InductUpTo
  <2> QED
    BY <2>1 DEF S
<1>6. n % Worth[width] = n
  <2>1. n = 0 * Worth[width] + n
    BY <1>0
  <2> QED
    BY <1>0, <2>1, DivUnique
<1> QED
  BY <1>2, <1>5, <1>6 DEF Decoding

LEMMA EncodeSumType ==
    ASSUME NEW word
    PROVE  EncodeSum(word) \in Seq(Byte) /\ Len(EncodeSum(word)) = 4
<1>1. ASSUME NEW i \in 1..4 PROVE ByteOf[{b \in 0..7 : 8 * (i - 1) + b \in word}] \in Byte
  BY BitsOfByteOf
<1> QED
  BY <1>1 DEF EncodeSum

\* A checksum comes out of four bytes as it went in, and out of no others.
LEMMA DecodeEncodeSum ==
    ASSUME NEW word \in SUBSET Bits, NEW buf, NEW offset \in Nat,
           \A i \in 1..4 : buf[offset + i] = EncodeSum(word)[i]
    PROVE  DecodeSum(buf, offset) = word
<1>1. ASSUME NEW b \in Bits PROVE b % 8 \in ByteBits(buf[offset + 1 + b \div 8]) <=> b \in word
  <2>1. b \in Nat /\ b <= 31
    BY DEF Bits
  <2>2. PICK q \in Nat, r \in 0..7 : b \div 8 = q /\ b % 8 = r /\ b = 8 * q + r
    BY <2>1
  <2>3. q + 1 \in 1..4 /\ 8 * (q + 1 - 1) + r = b /\ offset + 1 + q = offset + (q + 1)
    BY <2>1, <2>2
  <2> DEFINE B == {c \in 0..7 : 8 * (q + 1 - 1) + c \in word}
  <2>4. EncodeSum(word)[q + 1] = ByteOf[B]
    BY <2>3 DEF EncodeSum
  <2> HIDE DEF B
  <2>5. buf[offset + 1 + q] = ByteOf[B]
    BY <2>3, <2>4
  <2>6. r \in B <=> b \in word
    BY <2>3 DEF B
  <2>7. B \in SUBSET (0..7)
    BY DEF B
  <2>8. ByteBits(ByteOf[B]) = B
    BY <2>7, BitsOfByteOf
  <2> QED
    BY <2>2, <2>5, <2>6, <2>8
<1> QED
  BY <1>1 DEF DecodeSum

\* Whatever four bytes decode to is what those bytes encode.
LEMMA EncodeDecodeSum ==
    ASSUME NEW buf, NEW offset \in Nat, \A i \in 1..4 : buf[offset + i] \in Byte, NEW j \in 1..4
    PROVE  buf[offset + j] = EncodeSum(DecodeSum(buf, offset))[j]
<1> DEFINE word == DecodeSum(buf, offset)
           B == {c \in 0..7 : 8 * (j - 1) + c \in word}
<1>1. ASSUME NEW c \in 0..7
      PROVE  8 * (j - 1) + c \in word <=> c \in ByteBits(buf[offset + j])
  <2>1. PICK b \in Bits : b = 8 * (j - 1) + c
    BY DEF Bits
  <2>2. b \div 8 = j - 1 /\ b % 8 = c
    BY <2>1 DEF Bits
  <2>3. offset + 1 + (j - 1) = offset + j
    OBVIOUS
  <2>4. b \in word <=> c \in ByteBits(buf[offset + 1 + (j - 1)])
    BY <2>2 DEF DecodeSum
  <2> QED
    BY <2>1, <2>3, <2>4
<1>2. ByteBits(buf[offset + j]) = B
  BY <1>1, ByteBitsType
<1>3. EncodeSum(word)[j] = ByteOf[B]
  BY DEF EncodeSum
<1> HIDE DEF B, word
<1>4. B \in SUBSET (0..7)
  BY DEF B
<1>5. ByteOf[B] \in Byte /\ ByteBits(ByteOf[B]) = B
  BY <1>4, BitsOfByteOf
<1>6. buf[offset + j] = ByteOf[B]
  BY <1>2, <1>5, ByteBitsInjective
<1> QED
  BY <1>3, <1>6 DEF word

-----------------------------------------------------------------------------
(* Where bytes lie. *)

Holds(buf, offset, bytes) == \A i \in 1..Len(bytes) : buf[offset + i] = bytes[i]

LEMMA Cat ==
    ASSUME NEW a \in Seq(Byte), NEW b \in Seq(Byte)
    PROVE  /\ a \o b \in Seq(Byte) /\ Len(a \o b) = Len(a) + Len(b)
           /\ Len(a) \in Nat /\ Len(b) \in Nat
           /\ \A i \in 1..Len(a) : (a \o b)[i] = a[i]
           /\ Holds(a \o b, Len(a), b)
<1>1. /\ a \o b \in Seq(Byte) /\ Len(a) \in Nat /\ Len(b) \in Nat /\ Len(a \o b) = Len(a) + Len(b)
      /\ \A k \in 1..Len(a) + Len(b) : (a \o b)[k] = IF k <= Len(a) THEN a[k] ELSE b[k - Len(a)]
  BY ConcatProperties
<1>2. ASSUME NEW i \in 1..Len(a) PROVE (a \o b)[i] = a[i]
  <2>1. i \in 1..Len(a) + Len(b) /\ i <= Len(a)
    BY <1>1
  <2> QED
    BY <1>1, <2>1
<1>3. ASSUME NEW i \in 1..Len(b) PROVE (a \o b)[Len(a) + i] = b[i]
  <2>1. Len(a) + i \in 1..Len(a) + Len(b) /\ ~(Len(a) + i <= Len(a)) /\ Len(a) + i - Len(a) = i
    BY <1>1
  <2> QED
    BY <1>1, <2>1
<1> QED
  BY <1>1, <1>2, <1>3 DEF Holds

\* What lies in a sequence lies in every longer one.
LEMMA HoldsCat ==
    ASSUME NEW a \in Seq(Byte), NEW b \in Seq(Byte), NEW offset \in Nat, NEW c \in Seq(Byte),
           Holds(a, offset, c), offset + Len(c) <= Len(a)
    PROVE  Holds(a \o b, offset, c)
<1> SUFFICES ASSUME NEW i \in 1..Len(c) PROVE (a \o b)[offset + i] = c[i]
  BY DEF Holds
<1>1. offset + i \in 1..Len(a)
  OBVIOUS
<1>2. a[offset + i] = c[i]
  BY DEF Holds
<1> QED
  BY <1>1, <1>2, Cat

\* A part of a part.
LEMMA HoldsPart ==
    ASSUME NEW buf, NEW m \in Nat, NEW b \in Seq(Byte), NEW n \in Nat, NEW c \in Seq(Byte),
           Holds(buf, m, b), Holds(b, n, c), n + Len(c) <= Len(b)
    PROVE  Holds(buf, m + n, c)
<1> SUFFICES ASSUME NEW i \in 1..Len(c) PROVE buf[(m + n) + i] = c[i]
  BY DEF Holds
<1>1. n + i \in 1..Len(b) /\ (m + n) + i = m + (n + i)
  OBVIOUS
<1>2. b[n + i] = c[i] /\ buf[m + (n + i)] = b[n + i]
  BY <1>1 DEF Holds
<1> QED
  BY <1>1, <1>2

\* What is read from an offset on.
LEMMA ReadHere ==
    ASSUME NEW buf \in Seq(Byte), NEW offset \in Nat, NEW n \in Nat, offset + n <= Len(buf)
    PROVE  /\ SubSeq(buf, offset + 1, offset + n) \in Seq(Byte)
           /\ Len(SubSeq(buf, offset + 1, offset + n)) = n
           /\ \A i \in 1..n : SubSeq(buf, offset + 1, offset + n)[i] = buf[offset + i]
<1>1. \A i \in offset + 1..offset + n : buf[i] \in Byte
  BY ElementOfSeq
<1>2. /\ SubSeq(buf, offset + 1, offset + n) \in Seq(Byte)
      /\ Len(SubSeq(buf, offset + 1, offset + n)) =
             IF offset + 1 <= offset + n THEN offset + n - (offset + 1) + 1 ELSE 0
      /\ \A i \in 1..offset + n - (offset + 1) + 1 :
             SubSeq(buf, offset + 1, offset + n)[i] = buf[offset + 1 + i - 1]
  BY <1>1, SubSeqProperties
<1>3. offset + n - (offset + 1) + 1 = n
  OBVIOUS
<1>4. \A i \in 1..n : offset + 1 + i - 1 = offset + i
  OBVIOUS
<1> QED
  BY <1>2, <1>3, <1>4

\* The same bytes are the same sequence.
LEMMA SameBytes ==
    ASSUME NEW a \in Seq(Byte), NEW b \in Seq(Byte), Len(a) = Len(b), \A i \in 1..Len(b) : a[i] = b[i]
    PROVE  a = b
BY SeqEqual

LEMMA DecodeHeld ==
    ASSUME NEW width \in 0..8, NEW n \in 0..Worth[width] - 1, NEW buf, NEW offset \in Nat,
           Holds(buf, offset, Encode(n, width))
    PROVE  Decode(buf, offset, width) = n
<1>1. n \in Nat
  BY WorthSteps
<1>2. Len(Encode(n, width)) = width
  BY <1>1, EncodeType
<1> QED
  BY <1>2, DecodeEncode DEF Holds

LEMMA DecodeHeldSum ==
    ASSUME NEW word \in SUBSET Bits, NEW buf, NEW offset \in Nat, Holds(buf, offset, EncodeSum(word))
    PROVE  DecodeSum(buf, offset) = word
BY EncodeSumType, DecodeEncodeSum DEF Holds

LEMMA EncodeWidths ==
    ASSUME NEW n \in Nat
    PROVE  /\ Encode(n, 2) \in Seq(Byte) /\ Len(Encode(n, 2)) = 2
           /\ Encode(n, 4) \in Seq(Byte) /\ Len(Encode(n, 4)) = 4
           /\ Encode(n, 8) \in Seq(Byte) /\ Len(Encode(n, 8)) = 8
<1>1. 2 \in 0..8 /\ 4 \in 0..8 /\ 8 \in 0..8
  OBVIOUS
<1> QED
  BY <1>1, EncodeType, Zenon

\* The values the fields of a header and of a record can have.
HeaderOK(h) == h \in [version : U16, flags : U32, total_files : U64, total_bytes : U64]
FileOK(f) ==
    /\ f \in [rel_path : Seq(Byte), size : U64, crc32 : SUBSET Bits, payload : Seq(Byte)]
    /\ Len(f.rel_path) \in U16
    /\ f.size = Len(f.payload) /\ f.crc32 = Compute(f.payload)

LEMMA NumberTypes ==
    /\ U16 \subseteq Nat /\ U32 \subseteq Nat /\ U64 \subseteq Nat
    /\ U16 = 0..Worth[2] - 1 /\ U32 = 0..Worth[4] - 1 /\ U64 = 0..Worth[8] - 1
BY DEF U16, U32, U64

LEMMA MagicTypes ==
    /\ Magic["XFER"] \in U32 /\ Magic["FILE"] \in U32 /\ Magic["DONE"] \in U32
BY CodecAssumption

\* Bytes of a known length, and one sequence behind another.
Sized(a, n) == a \in Seq(Byte) /\ Len(a) = n
Joined(all, a, b) == all = a \o b

LEMMA Behind ==
    ASSUME NEW a, NEW b, NEW all, Joined(all, a, b),
           NEW m \in Nat, NEW n \in Nat, Sized(a, m), Sized(b, n)
    PROVE  Sized(all, m + n) /\ Holds(all, 0, a) /\ Holds(all, m, b)
<1>1. a \in Seq(Byte) /\ b \in Seq(Byte) /\ all = a \o b /\ Len(a) = m /\ Len(b) = n
  BY DEF Sized, Joined
<1>2. all \in Seq(Byte) /\ Len(all) = m + n /\ Holds(all, m, b) /\ \A i \in 1..m : all[i] = a[i]
  BY <1>1, Cat
<1>3. ASSUME NEW i \in 1..m PROVE all[0 + i] = a[i]
  <2>1. 0 + i = i
    OBVIOUS
  <2> QED
    BY <1>2, <2>1
<1> QED
  BY <1>1, <1>2, <1>3 DEF Sized, Holds

\* What was there stays where it was.
LEMMA Still ==
    ASSUME NEW a, NEW b, NEW all, Joined(all, a, b),
           NEW m \in Nat, NEW n \in Nat, Sized(a, m), Sized(b, n),
           NEW c, NEW k \in Nat, Sized(c, k), NEW offset \in Nat, Holds(a, offset, c), offset + k <= m
    PROVE  Holds(all, offset, c)
<1>1. a \in Seq(Byte) /\ b \in Seq(Byte) /\ c \in Seq(Byte) /\ all = a \o b /\ Len(a) = m /\ Len(c) = k
  BY DEF Sized, Joined
<1> QED
  BY <1>1, HoldsCat

\* The parts of a session header and of a record.
LEMMA SixParts ==
    ASSUME NEW m, NEW v, NEW z, NEW n, NEW t, NEW g,
           Sized(m, 4), Sized(v, 2), Sized(z, 2), Sized(n, 8), Sized(t, 8), Sized(g, 4),
           NEW a, NEW b, NEW c, NEW d, NEW all,
           Joined(a, m, v), Joined(b, a, z), Joined(c, b, n), Joined(d, c, t), Joined(all, d, g)
    PROVE  /\ Sized(all, 28)
           /\ Holds(all, 0, m) /\ Holds(all, 4, v) /\ Holds(all, 8, n)
           /\ Holds(all, 16, t) /\ Holds(all, 24, g)
<1>1. Sized(a, 6) /\ Holds(a, 0, m) /\ Holds(a, 4, v)
  BY Behind
<1>2. Sized(b, 8) /\ Holds(b, 0, m) /\ Holds(b, 4, v)
  BY <1>1, Behind, Still
<1>3. Sized(c, 16) /\ Holds(c, 0, m) /\ Holds(c, 4, v) /\ Holds(c, 8, n)
  BY <1>2, Behind, Still
<1>4. Sized(d, 24) /\ Holds(d, 0, m) /\ Holds(d, 4, v) /\ Holds(d, 8, n) /\ Holds(d, 16, t)
  BY <1>3, Behind, Still
<1> QED
  BY <1>4, Behind, Still

LEMMA SixFields ==
    ASSUME NEW m, NEW n, NEW z, NEW c, NEW p, NEW q, NEW j \in Nat, NEW k \in Nat,
           Sized(m, 4), Sized(n, 2), Sized(z, 8), Sized(c, 4), Sized(p, j), Sized(q, k),
           NEW a, NEW b, NEW d, NEW e, NEW all,
           Joined(a, m, n), Joined(b, a, z), Joined(d, b, c), Joined(e, d, p), Joined(all, e, q)
    PROVE  /\ Sized(all, 18 + j + k)
           /\ Holds(all, 0, m) /\ Holds(all, 4, n) /\ Holds(all, 6, z)
           /\ Holds(all, 14, c) /\ Holds(all, 18, p) /\ Holds(all, 18 + j, q)
<1>1. Sized(a, 6) /\ Holds(a, 0, m) /\ Holds(a, 4, n)
  BY Behind
<1>2. Sized(b, 14) /\ Holds(b, 0, m) /\ Holds(b, 4, n) /\ Holds(b, 6, z)
  BY <1>1, Behind, Still
<1>3. Sized(d, 18) /\ Holds(d, 0, m) /\ Holds(d, 4, n) /\ Holds(d, 6, z) /\ Holds(d, 14, c)
  BY <1>2, Behind, Still
<1>4. /\ Sized(e, 18 + j)
      /\ Holds(e, 0, m) /\ Holds(e, 4, n) /\ Holds(e, 6, z) /\ Holds(e, 14, c) /\ Holds(e, 18, p)
  BY <1>3, Behind, Still
<1> QED
  BY <1>4, Behind, Still

LEMMA EncodeSized ==
    ASSUME NEW n \in Nat
    PROVE  Sized(Encode(n, 2), 2) /\ Sized(Encode(n, 4), 4) /\ Sized(Encode(n, 8), 8)
BY EncodeWidths DEF Sized

\* Where the fields of a session header lie.
LEMMA FieldsLayout ==
    ASSUME NEW h, HeaderOK(h)
    PROVE  /\ Fields(h) \in Seq(Byte) /\ Len(Fields(h)) = 28
           /\ Holds(Fields(h), 0, Encode(Magic["XFER"], 4))
           /\ Holds(Fields(h), 4, Encode(h.version, 2))
           /\ Holds(Fields(h), 8, Encode(h.total_files, 8))
           /\ Holds(Fields(h), 16, Encode(h.total_bytes, 8))
           /\ Holds(Fields(h), 24, Encode(h.flags, 4))
<1>1. /\ h.version \in Nat /\ h.flags \in Nat /\ h.total_files \in Nat /\ h.total_bytes \in Nat
      /\ Magic["XFER"] \in Nat
  BY NumberTypes, MagicTypes DEF HeaderOK
<1>2. Sized(<<0, 0>>, 2)
  <2>1. 0 \in Byte
    BY DEF Byte
  <2> QED
    BY <2>1 DEF Sized
<1>3. PICK m : m = Encode(Magic["XFER"], 4) /\ Sized(m, 4)
  BY <1>1, EncodeSized, Zenon
<1>4. PICK v : v = Encode(h.version, 2) /\ Sized(v, 2)
  BY <1>1, EncodeSized, Zenon
<1>5. PICK n : n = Encode(h.total_files, 8) /\ Sized(n, 8)
  BY <1>1, EncodeSized, Zenon
<1>6. PICK t : t = Encode(h.total_bytes, 8) /\ Sized(t, 8)
  BY <1>1, EncodeSized, Zenon
<1>7. PICK g : g = Encode(h.flags, 4) /\ Sized(g, 4)
  BY <1>1, EncodeSized, Zenon
<1>8. PICK z : z = <<0, 0>> /\ Sized(z, 2)
  BY <1>2, Zenon
<1>9. PICK all : all = Fields(h)
  OBVIOUS
<1>10. all = ((((m \o v) \o z) \o n) \o t) \o g
  BY <1>3, <1>4, <1>5, <1>6, <1>7, <1>8, <1>9, Zenon DEF Fields
<1>11. PICK a, b, c, d : /\ Joined(a, m, v) /\ Joined(b, a, z) /\ Joined(c, b, n)
                         /\ Joined(d, c, t) /\ Joined(all, d, g)
  BY <1>10, Zenon DEF Joined
<1>12. /\ Sized(all, 28)
       /\ Holds(all, 0, m) /\ Holds(all, 4, v) /\ Holds(all, 8, n)
       /\ Holds(all, 16, t) /\ Holds(all, 24, g)
  <2>1. Sized(m, 4) /\ Sized(v, 2) /\ Sized(z, 2) /\ Sized(n, 8) /\ Sized(t, 8) /\ Sized(g, 4)
    BY <1>3, <1>4, <1>5, <1>6, <1>7, <1>8
  <2> QED
    BY <2>1, <1>11, SixParts
<1> QED
  BY <1>3, <1>4, <1>5, <1>6, <1>7, <1>9, <1>12, Zenon DEF Sized

LEMMA HeaderLayout ==
    ASSUME NEW h, HeaderOK(h)
    PROVE  /\ HeaderBytes(h) \in Seq(Byte) /\ Len(HeaderBytes(h)) = 32
           /\ Holds(HeaderBytes(h), 0, Fields(h))
           /\ Holds(HeaderBytes(h), 28, EncodeSum(Compute(Fields(h))))
<1>1. PICK a : a = Fields(h)
  OBVIOUS
<1>2. PICK c : c = EncodeSum(Compute(Fields(h)))
  OBVIOUS
<1>3. Sized(a, 28) /\ Sized(c, 4)
  BY <1>1, <1>2, FieldsLayout, EncodeSumType, Zenon DEF Sized
<1>4. PICK all : all = HeaderBytes(h)
  OBVIOUS
<1>5. Joined(all, a, c)
  BY <1>1, <1>2, <1>4, Zenon DEF Joined, HeaderBytes
<1>6. Sized(all, 32) /\ Holds(all, 0, a) /\ Holds(all, 28, c)
  BY <1>3, <1>5, Behind
<1> QED
  BY <1>1, <1>2, <1>4, <1>6, Zenon DEF Sized

\* A record with its payload behind it, and where its fields lie.
Record(f) == FileBytes(f) \o f.payload

LEMMA RecordLayout ==
    ASSUME NEW f, FileOK(f)
    PROVE  /\ Record(f) \in Seq(Byte) /\ Len(Record(f)) = 18 + Len(f.rel_path) + Len(f.payload)
           /\ Holds(Record(f), 0, Encode(Magic["FILE"], 4))
           /\ Holds(Record(f), 4, Encode(Len(f.rel_path), 2))
           /\ Holds(Record(f), 6, Encode(f.size, 8))
           /\ Holds(Record(f), 14, EncodeSum(f.crc32))
           /\ Holds(Record(f), 18, f.rel_path)
           /\ Holds(Record(f), 18 + Len(f.rel_path), f.payload)
<1>1. /\ f.rel_path \in Seq(Byte) /\ f.payload \in Seq(Byte)
      /\ f.size \in Nat /\ Len(f.rel_path) \in Nat /\ Len(f.payload) \in Nat
      /\ Magic["FILE"] \in Nat
  BY NumberTypes, MagicTypes DEF FileOK
<1>2. PICK m : m = Encode(Magic["FILE"], 4) /\ Sized(m, 4)
  BY <1>1, EncodeSized, Zenon
<1>3. PICK n : n = Encode(Len(f.rel_path), 2) /\ Sized(n, 2)
  BY <1>1, EncodeSized, Zenon
<1>4. PICK z : z = Encode(f.size, 8) /\ Sized(z, 8)
  BY <1>1, EncodeSized, Zenon
<1>5. PICK c : c = EncodeSum(f.crc32) /\ Sized(c, 4)
  BY EncodeSumType, Zenon DEF Sized
<1>6. PICK p, j : p = f.rel_path /\ j = Len(p) /\ j \in Nat /\ Sized(p, j)
  BY <1>1, Zenon DEF Sized
<1>7. PICK q, k : q = f.payload /\ k = Len(q) /\ k \in Nat /\ Sized(q, k)
  BY <1>1, Zenon DEF Sized
<1>8. PICK all : all = Record(f)
  OBVIOUS
<1>9. all = ((((m \o n) \o z) \o c) \o p) \o q
  BY <1>2, <1>3, <1>4, <1>5, <1>6, <1>7, <1>8, Zenon DEF Record, FileBytes
<1>10. PICK a, b, d, e : /\ Joined(a, m, n) /\ Joined(b, a, z) /\ Joined(d, b, c)
                         /\ Joined(e, d, p) /\ Joined(all, e, q)
  BY <1>9, Zenon DEF Joined
<1>11. /\ Sized(all, 18 + j + k)
       /\ Holds(all, 0, m) /\ Holds(all, 4, n) /\ Holds(all, 6, z)
       /\ Holds(all, 14, c) /\ Holds(all, 18, p) /\ Holds(all, 18 + j, q)
  <2>1. /\ Sized(m, 4) /\ Sized(n, 2) /\ Sized(z, 8) /\ Sized(c, 4)
        /\ j \in Nat /\ Sized(p, j) /\ k \in Nat /\ Sized(q, k)
    BY <1>2, <1>3, <1>4, <1>5, <1>6, <1>7
  <2> QED
    BY <2>1, <1>10, SixFields
<1> QED
  BY <1>2, <1>3, <1>4, <1>5, <1>6, <1>7, <1>8, <1>11, Zenon DEF Sized

-----------------------------------------------------------------------------
(* Parts of the stream. *)

LEMMA PartOfStream ==
    ASSUME NEW buf \in Seq(Byte), NEW a \in Nat, NEW b \in Nat, a <= b, b <= Len(buf)
    PROVE  /\ SubSeq(buf, a + 1, b) \in Seq(Byte) /\ Len(SubSeq(buf, a + 1, b)) = b - a
           /\ \A i \in 1..b - a : SubSeq(buf, a + 1, b)[i] = buf[a + i]
<1>1. PICK n \in Nat : n = b - a /\ a + n = b
  OBVIOUS
<1>2. /\ SubSeq(buf, a + 1, a + n) \in Seq(Byte) /\ Len(SubSeq(buf, a + 1, a + n)) = n
      /\ \A i \in 1..n : SubSeq(buf, a + 1, a + n)[i] = buf[a + i]
  <2>1. a + n <= Len(buf)
    BY <1>1
  <2> QED
    BY <2>1, ReadHere, Zenon
<1> QED
  BY <1>1, <1>2, Zenon

LEMMA JoinParts ==
    ASSUME NEW buf \in Seq(Byte), NEW a \in Nat, NEW b \in Nat, NEW c \in Nat,
           a <= b, b <= c, c <= Len(buf)
    PROVE  SubSeq(buf, a + 1, b) \o SubSeq(buf, b + 1, c) = SubSeq(buf, a + 1, c)
<1>0. b <= Len(buf) /\ a <= c
  OBVIOUS
<1>1. PICK x \in Seq(Byte) : /\ x = SubSeq(buf, a + 1, b) /\ Len(x) = b - a
                             /\ \A i \in 1..b - a : x[i] = buf[a + i]
  BY <1>0, PartOfStream, Zenon
<1>2. PICK y \in Seq(Byte) : /\ y = SubSeq(buf, b + 1, c) /\ Len(y) = c - b
                             /\ \A i \in 1..c - b : y[i] = buf[b + i]
  BY <1>0, PartOfStream, Zenon
<1>3. PICK z \in Seq(Byte) : /\ z = SubSeq(buf, a + 1, c) /\ Len(z) = c - a
                             /\ \A i \in 1..c - a : z[i] = buf[a + i]
  BY <1>0, PartOfStream, Zenon
<1>4. /\ x \o y \in Seq(Byte) /\ Len(x \o y) = Len(x) + Len(y)
      /\ \A i \in 1..Len(x) : (x \o y)[i] = x[i]
      /\ \A i \in 1..Len(y) : (x \o y)[Len(x) + i] = y[i]
  BY Cat DEF Holds
<1>5. ASSUME NEW i \in 1..c - a PROVE (x \o y)[i] = z[i]
  <2>1. CASE i <= b - a
    <3>1. i \in 1..b - a
      BY <2>1
    <3> QED
      BY <3>1, <1>1, <1>3, <1>4
  <2>2. CASE ~(i <= b - a)
    <3>1. PICK j \in 1..c - b : j = i - (b - a) /\ (b - a) + j = i /\ b + j = a + i
      BY <1>0, <2>2
    <3>2. (x \o y)[(b - a) + j] = y[j]
      BY <1>1, <1>2, <1>4, <3>1
    <3> QED
      BY <3>1, <3>2, <1>2, <1>3
  <2> QED
    BY <2>1, <2>2
<1>6. Len(x \o y) = Len(z)
  BY <1>0, <1>1, <1>2, <1>3, <1>4
<1>7. x \o y = z
  BY <1>3, <1>4, <1>5, <1>6, SameBytes
<1> QED
  BY <1>1, <1>2, <1>3, <1>7

LEMMA SameParts ==
    ASSUME NEW p \in Seq(Byte), NEW q \in Seq(Byte), NEW a \in Nat, NEW b \in Nat,
           a <= b, b <= Len(p), b <= Len(q), \A i \in a + 1..b : p[i] = q[i]
    PROVE  SubSeq(p, a + 1, b) = SubSeq(q, a + 1, b)
<1>1. PICK x \in Seq(Byte) : /\ x = SubSeq(p, a + 1, b) /\ Len(x) = b - a
                             /\ \A i \in 1..b - a : x[i] = p[a + i]
  BY PartOfStream
<1>2. PICK y \in Seq(Byte) : /\ y = SubSeq(q, a + 1, b) /\ Len(y) = b - a
                             /\ \A i \in 1..b - a : y[i] = q[a + i]
  BY PartOfStream
<1>3. ASSUME NEW i \in 1..b - a PROVE x[i] = y[i]
  <2>1. a + i \in a + 1..b
    OBVIOUS
  <2> QED
    BY <1>1, <1>2, <2>1
<1>4. x = y
  BY <1>1, <1>2, <1>3, SameBytes
<1> QED
  BY <1>1, <1>2, <1>4

LEMMA HeldPart ==
    ASSUME NEW buf \in Seq(Byte), NEW a \in Nat, NEW c \in Seq(Byte), Holds(buf, a, c),
           a + Len(c) <= Len(buf)
    PROVE  SubSeq(buf, a + 1, a + Len(c)) = c
<1>0. Len(c) \in Nat
  OBVIOUS
<1>1. PICK x \in Seq(Byte) : /\ x = SubSeq(buf, a + 1, a + Len(c)) /\ Len(x) = Len(c)
                             /\ \A i \in 1..Len(c) : x[i] = buf[a + i]
  BY <1>0, ReadHere
<1>2. \A i \in 1..Len(c) : x[i] = c[i]
  BY <1>1 DEF Holds
<1>3. x = c
  BY <1>1, <1>2, SameBytes
<1> QED
  BY <1>1, <1>3

LEMMA WholeStream ==
    ASSUME NEW buf \in Seq(Byte)
    PROVE  SubSeq(buf, 1, Len(buf)) = buf
<1>1. Holds(buf, 0, buf)
  BY DEF Holds
<1>2. 0 + Len(buf) = Len(buf) /\ 0 + 1 = 1
  OBVIOUS
<1> QED
  BY <1>1, <1>2, HeldPart

LEMMA UpdatedNothing ==
    ASSUME NEW w \in SUBSET Bits
    PROVE  Updated(w, <<>>) = w
<1>1. <<>> \in Seq(Byte) /\ Len(<<>>) = 0
  OBVIOUS
<1>2. PICK s : Register(s, w, <<>>)
  BY <1>1, RegisterExists
<1> QED
  BY <1>1, <1>2, UpdatedRegister DEF Register

\* CrcOfFd reads a file in parts and computes the checksum of the whole.
LEMMA CrcOfParts ==
    ASSUME NEW bytes \in Seq(Byte), NEW n \in 0..Len(bytes)
    PROVE  CrcOfFd(bytes, n) = Compute(bytes)
<1>0. /\ 0 \in Nat /\ n \in Nat /\ Len(bytes) \in Nat /\ 0 + 1 = 1
      /\ 0 <= n /\ n <= Len(bytes) /\ Len(bytes) <= Len(bytes)
  OBVIOUS
<1>1. PICK x \in Seq(Byte) : x = SubSeq(bytes, 0 + 1, n)
  <2>1. SubSeq(bytes, 0 + 1, n) \in Seq(Byte)
    BY <1>0, PartOfStream, Zenon
  <2> QED
    BY <2>1, Zenon
<1>2. PICK y \in Seq(Byte) : y = SubSeq(bytes, n + 1, Len(bytes))
  <2>1. SubSeq(bytes, n + 1, Len(bytes)) \in Seq(Byte)
    BY <1>0, PartOfStream, Zenon
  <2> QED
    BY <2>1, Zenon
<1>3. x \o y = bytes
  <2>1. SubSeq(bytes, 0 + 1, n) \o SubSeq(bytes, n + 1, Len(bytes)) = SubSeq(bytes, 0 + 1, Len(bytes))
    <3>1. PICK z \in Nat, m \in Nat : z = 0 /\ m = Len(bytes)
      BY <1>0
    <3>2. z <= n /\ n <= m /\ m <= Len(bytes) /\ n \in Nat
      BY <1>0, <3>1, Zenon
    <3>3. SubSeq(bytes, z + 1, n) \o SubSeq(bytes, n + 1, m) = SubSeq(bytes, z + 1, m)
      BY <3>2, JoinParts
    <3> QED
      BY <3>1, <3>3, Zenon
  <2>2. x \o y = SubSeq(bytes, 0 + 1, Len(bytes))
    BY <1>1, <1>2, <2>1, Zenon
  <2> QED
    BY <1>0, <2>2, WholeStream, Zenon
<1>4. Updated(Updated(Fresh, x), y) = Updated(Fresh, bytes)
  <2>1. Fresh \in SUBSET Bits
    BY DEF Fresh
  <2> QED
    BY <1>3, <2>1, UpdatedConcat
<1> QED
  BY <1>0, <1>1, <1>2, <1>4, Zenon DEF CrcOfFd, Compute

-----------------------------------------------------------------------------
(* The invariant.  e[k] is where item k ends on the connection, sent the   *)
(* bytes as they were written.                                             *)

HeaderRecord == [version : U16, flags : U32, total_files : U64, total_bytes : U64]
FileRecord == [rel_path : Seq(Byte), size : U64, crc32 : SUBSET Bits, payload : Seq(Byte)]
Item == HeaderRecord \cup FileRecord \cup {Done}

\* A header, as many records as it says, and the end.
ItemOK(items, k) ==
    IF k = 1 THEN HeaderOK(items[1])
    ELSE IF k <= items[1].total_files + 1 THEN FileOK(items[k]) ELSE items[k] = Done

BytesOf(items, k) ==
    IF k = 1 THEN HeaderBytes(items[1])
    ELSE IF k <= items[1].total_files + 1 THEN Record(items[k]) ELSE Encode(Magic["DONE"], 4)

Placed(e, sent, items, k) ==
    /\ ItemOK(items, k)
    /\ e[k] = e[k - 1] + Len(BytesOf(items, k))
    /\ Holds(sent, e[k - 1], BytesOf(items, k))

Layout(e, sent, items) ==
    /\ e \in [0..Len(items) -> Nat] /\ e[0] = 0
    /\ sent \in Seq(Byte) /\ Len(sent) = e[Len(items)]
    /\ \A j, k \in 0..Len(items) : j <= k => e[j] <= e[k]
    /\ \A k \in 1..Len(items) : Placed(e, sent, items, k)

\* Where damage can be: in the header while it was not read, or in a payload.
Spot(e, items, done, i) ==
    \/ done = 0 /\ i <= 32
    \/ \E k \in 2..Len(items) :
          k <= items[1].total_files + 1 /\ e[k] - items[k].size < i /\ i <= e[k]

Hit(sent, buf, i) == buf[i] # sent[i] /\ \A j \in 1..Len(sent) : j # i => buf[j] = sent[j]

Transit(e, sent, items, buf, hurt, done) ==
    /\ buf \in Seq(Byte) /\ Len(buf) = Len(sent)
    /\ IF hurt THEN \E i \in 1..Len(sent) : Spot(e, items, done, i) /\ Hit(sent, buf, i) ELSE buf = sent

\* The items read to their end.
Taken(e, items, hurt, have, pos, rest) ==
    /\ have \in Seq(Item) /\ Len(have) <= Len(items)
    /\ Len(have) >= 1 => have[1] = items[1]
    /\ \A k \in 1..Len(have) :
          k < Len(have) \/ rest = NoFile => have[k] = items[k] \/ (hurt /\ Unverified(have[k]))
    /\ rest = NoFile => pos = e[Len(have)]

\* The record whose payload is being read.
Underway(e, items, buf, have, pos, rest, word) ==
    rest # NoFile =>
        /\ rest \in Nat /\ Len(have) >= 2 /\ Len(have) <= items[1].total_files + 1
        /\ rest <= items[Len(have)].size /\ pos = e[Len(have)] - rest
        /\ have[Len(have)] = [items[Len(have)] EXCEPT !.payload =
                                  SubSeq(buf, e[Len(have)] - items[Len(have)].size + 1, pos)]
        /\ word = Updated(Fresh, have[Len(have)].payload)

LEMMA HeaderTypes ==
    ASSUME NEW h, HeaderOK(h)
    PROVE  h \in Item /\ h.total_files \in Nat
BY NumberTypes DEF HeaderOK, Item, HeaderRecord

LEMMA FileTypes ==
    ASSUME NEW f, FileOK(f)
    PROVE  /\ f \in Item /\ f \in FileRecord /\ f.size \in Nat /\ f.size = Len(f.payload)
           /\ f.rel_path \in Seq(Byte) /\ Len(f.rel_path) \in Nat
           /\ f.payload \in Seq(Byte) /\ f.crc32 \in SUBSET Bits /\ f.crc32 = Compute(f.payload)
BY NumberTypes DEF FileOK, Item, FileRecord

LEMMA DoneBytes ==
    /\ Encode(Magic["DONE"], 4) \in Seq(Byte) /\ Len(Encode(Magic["DONE"], 4)) = 4
BY MagicTypes, NumberTypes, EncodeWidths

\* The bytes of an item.
LEMMA BytesOfType ==
    ASSUME NEW items, NEW k \in Nat \ {0}, ItemOK(items, 1), ItemOK(items, k)
    PROVE  BytesOf(items, k) \in Seq(Byte) /\ Len(BytesOf(items, k)) \in Nat
<1>1. items[1].total_files \in Nat
  BY HeaderTypes DEF ItemOK
<1>2. CASE k = 1
  <2>1. HeaderOK(items[1]) /\ BytesOf(items, k) = HeaderBytes(items[1])
    BY <1>2 DEF ItemOK, BytesOf
  <2> QED
    BY <2>1, HeaderLayout
<1>3. CASE k # 1 /\ k <= items[1].total_files + 1
  <2>1. FileOK(items[k]) /\ BytesOf(items, k) = Record(items[k])
    BY <1>3 DEF ItemOK, BytesOf
  <2>2. BytesOf(items, k) \in Seq(Byte)
    BY <2>1, RecordLayout
  <2> QED
    BY <2>2
<1>4. CASE k # 1 /\ ~(k <= items[1].total_files + 1)
  <2>1. BytesOf(items, k) = Encode(Magic["DONE"], 4)
    BY <1>4 DEF BytesOf
  <2> QED
    BY <2>1, DoneBytes
<1> QED
  BY <1>2, <1>3, <1>4

\* Old items keep their place and their bytes when one is added.
LEMMA ItemsKept ==
    ASSUME NEW items \in Seq(Item), NEW item \in Item, NEW k \in 1..Len(items)
    PROVE  /\ ItemOK(Append(items, item), k) <=> ItemOK(items, k)
           /\ BytesOf(Append(items, item), k) = BytesOf(items, k)
           /\ Append(items, item)[1] = items[1] /\ Append(items, item)[k] = items[k]
<1>1. Append(items, item)[1] = items[1] /\ Append(items, item)[k] = items[k]
  OBVIOUS
<1> QED
  BY <1>1, Zenon DEF ItemOK, BytesOf

\* Writing an item.
LEMMA LayoutGrows ==
    ASSUME NEW items \in Seq(Item), NEW item \in Item, NEW e, NEW sent, Layout(e, sent, items),
           ItemOK(Append(items, item), 1), ItemOK(Append(items, item), Len(items) + 1)
    PROVE  \E f : /\ Layout(f, sent \o BytesOf(Append(items, item), Len(items) + 1), Append(items, item))
                  /\ \A k \in 0..Len(items) : f[k] = e[k]
<1> DEFINE more == Append(items, item)
           n == Len(items)
           b == BytesOf(more, n + 1)
           f == [k \in 0..n + 1 |-> IF k <= n THEN e[k] ELSE e[n] + Len(b)]
<1>0. n \in Nat /\ Len(more) = n + 1 /\ n + 1 \in Nat \ {0}
  OBVIOUS
<1>1. b \in Seq(Byte) /\ Len(b) \in Nat
  BY <1>0, BytesOfType
<1>2. /\ e \in [0..n -> Nat] /\ e[0] = 0 /\ sent \in Seq(Byte) /\ Len(sent) = e[n]
      /\ \A j, k \in 0..n : j <= k => e[j] <= e[k]
      /\ \A k \in 1..n : Placed(e, sent, items, k)
  BY DEF Layout
<1>3. \A k \in 1..n : /\ ItemOK(more, k) <=> ItemOK(items, k)
                      /\ BytesOf(more, k) = BytesOf(items, k)
  BY ItemsKept
<1> HIDE DEF b
<1>4. PICK all : all = sent \o b
  OBVIOUS
<1>5. /\ all \in Seq(Byte) /\ Len(all) = e[n] + Len(b) /\ Holds(all, e[n], b)
      /\ \A i \in 1..e[n] : all[i] = sent[i]
  <2>1. /\ sent \o b \in Seq(Byte) /\ Len(sent \o b) = Len(sent) + Len(b)
        /\ Holds(sent \o b, Len(sent), b) /\ \A i \in 1..Len(sent) : (sent \o b)[i] = sent[i]
    BY <1>1, <1>2, Cat
  <2> QED
    BY <1>2, <1>4, <2>1, Zenon
<1>6. /\ f \in [0..n + 1 -> Nat] /\ f[n + 1] = e[n] + Len(b) /\ \A k \in 0..n : f[k] = e[k]
  <2>1. e[n] \in Nat /\ e[n] + Len(b) \in Nat /\ n + 1 \in 0..n + 1
    BY <1>0, <1>1, <1>2
  <2> QED
    BY <1>0, <1>2, <2>1
<1>7. f[0] = 0
  BY <1>0, <1>2, <1>6
<1>8. ASSUME NEW j \in 0..n + 1, NEW k \in 0..n + 1, j <= k PROVE f[j] <= f[k]
  <2>1. CASE k \in 0..n
    <3>1. j \in 0..n
      BY <1>8, <2>1
    <3> QED
      BY <1>2, <1>6, <1>8, <2>1, <3>1
  <2>2. CASE k = n + 1 /\ j \in 0..n
    <3>1. e[j] <= e[n] /\ e[j] \in Nat /\ e[n] \in Nat
      BY <1>0, <1>2, <2>2
    <3>2. f[j] = e[j] /\ f[k] = e[n] + Len(b)
      BY <1>6, <2>2
    <3> QED
      BY <1>1, <3>1, <3>2
  <2>3. CASE k = n + 1 /\ j = n + 1
    <3>1. f[k] \in Nat /\ j = k
      BY <1>6, <2>3
    <3> QED
      BY <3>1
  <2> QED
    BY <1>0, <2>1, <2>2, <2>3
<1> HIDE DEF f
<1>9. ASSUME NEW k \in 1..n + 1 PROVE Placed(f, all, more, k)
  <2>1. CASE k \in 1..n
    <3>1. k \in 0..n /\ k - 1 \in 0..n /\ k - 1 <= k
      BY <2>1
    <3>2. ItemOK(items, k) /\ e[k] = e[k - 1] + Len(BytesOf(items, k)) /\ Holds(sent, e[k - 1], BytesOf(items, k))
      BY <1>2, <2>1 DEF Placed
    <3>3. f[k] = e[k] /\ f[k - 1] = e[k - 1]
      BY <1>6, <3>1
    <3>4. Holds(all, e[k - 1], BytesOf(items, k))
      <4>1. e[k] <= e[n] /\ e[k - 1] \in Nat /\ e[k] \in Nat /\ e[n] \in Nat
        BY <1>0, <1>2, <3>1
      <4>2. PICK c : c = BytesOf(items, k)
        OBVIOUS
      <4>3. PICK m \in Nat : m = e[k - 1]
        BY <4>1
      <4>4. c \in Seq(Byte)
        <5>1. ItemOK(items, 1)
          BY <1>0, <1>2, <2>1 DEF Placed
        <5>2. k \in Nat \ {0}
          BY <2>1
        <5> QED
          BY <3>2, <4>2, <5>1, <5>2, BytesOfType
      <4>5. m + Len(c) <= Len(sent)
        BY <1>2, <3>2, <4>1, <4>2, <4>3
      <4>6. Holds(sent, m, c)
        BY <3>2, <4>2, <4>3
      <4>7. Holds(all, m, c)
        BY <1>1, <1>2, <1>4, <4>4, <4>5, <4>6, HoldsCat
      <4> QED
        BY <4>2, <4>3, <4>7
    <3> QED
      BY <1>3, <2>1, <3>2, <3>3, <3>4 DEF Placed
  <2>2. CASE k = n + 1
    <3>1. (n + 1) - 1 = n /\ n \in 0..n
      BY <1>0
    <3>2. f[k] = e[n] + Len(b) /\ f[k - 1] = e[n]
      BY <1>6, <2>2, <3>1
    <3> QED
      BY <1>5, <2>2, <3>2 DEF Placed, b
  <2> QED
    BY <2>1, <2>2
<1>10. Layout(f, all, more)
  <2> HIDE DEF more, n
  <2> QED
    BY <1>0, <1>5, <1>6, <1>7, <1>8, <1>9 DEF Layout
<1> QED
  BY <1>4, <1>6, <1>10 DEF b

\* Where the parts of a record are, of the header and of the end.
LEMMA RecordPlace ==
    ASSUME NEW items \in Seq(Item), NEW e, NEW sent, Layout(e, sent, items),
           NEW k \in 2..Len(items), k <= items[1].total_files + 1
    PROVE  /\ FileOK(items[k]) /\ e[k - 1] \in Nat /\ e[k] \in Nat
           /\ e[k] = e[k - 1] + (18 + Len(items[k].rel_path) + items[k].size)
           /\ Holds(sent, e[k - 1], Record(items[k])) /\ e[k] <= Len(sent) /\ 32 <= e[k - 1]
<1>0. Len(items) \in Nat /\ k \in 1..Len(items) /\ 1 \in 1..Len(items) /\ k # 1 /\ k - 1 \in 0..Len(items)
      /\ 1 <= k - 1 /\ Len(items) \in 0..Len(items) /\ k \in 0..Len(items) /\ k <= Len(items) /\ 1 \in 0..Len(items)
  OBVIOUS
<1>1. Placed(e, sent, items, k) /\ Placed(e, sent, items, 1)
  BY <1>0 DEF Layout
<1>2. FileOK(items[k]) /\ BytesOf(items, k) = Record(items[k])
  BY <1>0, <1>1 DEF Placed, ItemOK, BytesOf
<1>3. PICK f : f = items[k]
  OBVIOUS
<1>4. /\ Len(Record(f)) = 18 + Len(f.rel_path) + Len(f.payload) /\ f.size = Len(f.payload)
      /\ Len(f.rel_path) \in Nat /\ f.size \in Nat
  BY <1>2, <1>3, RecordLayout, FileTypes
<1>5. /\ e[k - 1] \in Nat /\ e[k] \in Nat /\ e[k] <= e[Len(items)] /\ Len(sent) = e[Len(items)]
      /\ e[1] <= e[k - 1] /\ e[1] \in Nat /\ e[0] = 0
  BY <1>0 DEF Layout
<1>6. e[k] = e[k - 1] + Len(Record(f)) /\ Holds(sent, e[k - 1], Record(f))
  BY <1>1, <1>2, <1>3 DEF Placed
<1>7. e[1] = 32
  <2>1. HeaderOK(items[1]) /\ BytesOf(items, 1) = HeaderBytes(items[1])
    BY <1>1 DEF Placed, ItemOK, BytesOf
  <2>2. Len(BytesOf(items, 1)) = 32
    BY <2>1, HeaderLayout
  <2>3. PICK z : z = 1 - 1 /\ z = 0
    OBVIOUS
  <2>4. e[1] = e[z] + 32
    BY <1>1, <2>2, <2>3, Zenon DEF Placed
  <2>5. e[1] = 0 + 32
    BY <1>5, <2>3, <2>4
  <2> QED
    BY <2>5
<1> QED
  BY <1>2, <1>3, <1>4, <1>5, <1>6, <1>7

\* All of what holds between the two ends.
Snapshot(e, sent, items, buf, hurt, have, pos, rest, word) ==
    /\ Layout(e, sent, items)
    /\ Transit(e, sent, items, buf, hurt, Len(have))
    /\ Taken(e, items, hurt, have, pos, rest)
    /\ Underway(e, items, buf, have, pos, rest, word)

IInv ==
    /\ written \in Seq(Item) /\ damaged \in BOOLEAN /\ at \in Nat
    /\ refused = "reader" => damaged
    /\ \E e, sent : Snapshot(e, sent, written, stream, damaged, got, at, left, crc)

LEMMA WritePreserves ==
    ASSUME NEW e, NEW sent, NEW items \in Seq(Item), NEW buf, NEW hurt, NEW have, NEW pos,
           NEW rest, NEW word, Snapshot(e, sent, items, buf, hurt, have, pos, rest, word),
           NEW item \in Item,
           ItemOK(Append(items, item), 1), ItemOK(Append(items, item), Len(items) + 1),
           NEW b, b = BytesOf(Append(items, item), Len(items) + 1)
    PROVE  \E f, all : Snapshot(f, all, Append(items, item), buf \o b, hurt, have, pos, rest, word)
<1> DEFINE more == Append(items, item)
           n == Len(items)
<1>0. /\ n \in Nat /\ Len(more) = n + 1 /\ n + 1 \in Nat \ {0}
      /\ Layout(e, sent, items) /\ Taken(e, items, hurt, have, pos, rest)
      /\ Transit(e, sent, items, buf, hurt, Len(have))
      /\ Underway(e, items, buf, have, pos, rest, word)
  BY DEF Snapshot
<1>1. PICK all : all = sent \o b
  OBVIOUS
<1>2. PICK f : Layout(f, all, more) /\ \A k \in 0..n : f[k] = e[k]
  BY <1>0, <1>1, LayoutGrows
<1>3. b \in Seq(Byte) /\ sent \in Seq(Byte) /\ buf \in Seq(Byte) /\ Len(buf) = Len(sent)
  BY <1>0, BytesOfType DEF Layout, Transit
<1>4. PICK late : late = buf \o b
  OBVIOUS
<1>5. /\ all \in Seq(Byte) /\ Len(all) = Len(sent) + Len(b) /\ Len(sent) \in Nat /\ Len(b) \in Nat
      /\ \A i \in 1..Len(sent) : all[i] = sent[i]
      /\ \A i \in 1..Len(b) : all[Len(sent) + i] = b[i]
  <2>1. /\ sent \o b \in Seq(Byte) /\ Len(sent \o b) = Len(sent) + Len(b)
        /\ Len(sent) \in Nat /\ Len(b) \in Nat
        /\ Holds(sent \o b, Len(sent), b) /\ \A i \in 1..Len(sent) : (sent \o b)[i] = sent[i]
    BY <1>3, Cat
  <2> QED
    BY <1>1, <2>1, Zenon DEF Holds
<1>6. /\ late \in Seq(Byte) /\ Len(late) = Len(all)
      /\ \A i \in 1..Len(sent) : late[i] = buf[i]
      /\ \A i \in 1..Len(b) : late[Len(sent) + i] = b[i]
  <2>1. /\ buf \o b \in Seq(Byte) /\ Len(buf \o b) = Len(buf) + Len(b)
        /\ Holds(buf \o b, Len(buf), b) /\ \A i \in 1..Len(buf) : (buf \o b)[i] = buf[i]
    BY <1>3, Cat
  <2> QED
    BY <1>3, <1>4, <1>5, <2>1, Zenon DEF Holds
<1> HIDE DEF more
<1>7. \A k \in 1..n : more[k] = items[k] /\ more[1] = items[1]
  BY ItemsKept DEF more
<1>8. Transit(f, all, more, late, hurt, Len(have))
  <2>1. CASE ~hurt
    <3>1. buf = sent
      BY <1>0, <2>1 DEF Transit
    <3>2. late = all
      BY <1>1, <1>4, <3>1
    <3> QED
      BY <1>6, <2>1, <3>2 DEF Transit
  <2>2. CASE hurt
    <3>1. PICK i \in 1..Len(sent) : Spot(e, items, Len(have), i) /\ Hit(sent, buf, i)
      BY <1>0, <2>2 DEF Transit
    <3>2. i \in 1..Len(all) /\ i \in Nat
      BY <1>5
    <3>3. Spot(f, more, Len(have), i)
      <4>1. ASSUME NEW k \in 2..n, k <= items[1].total_files + 1, e[k] - items[k].size < i, i <= e[k]
            PROVE  k \in 2..Len(more) /\ k <= more[1].total_files + 1
                   /\ f[k] - more[k].size < i /\ i <= f[k]
        <5>1. k \in 1..n /\ k \in 0..n /\ k \in 2..Len(more)
          BY <1>0
        <5> QED
          BY <1>2, <1>7, <4>1, <5>1
      <4> QED
        BY <3>1, <4>1 DEF Spot
    <3>4. Hit(all, late, i)
      <4>1. all[i] = sent[i] /\ late[i] = buf[i] /\ buf[i] # sent[i]
        BY <1>5, <1>6, <3>1 DEF Hit
      <4>2. ASSUME NEW j \in 1..Len(all), j # i PROVE late[j] = all[j]
        <5>1. CASE j <= Len(sent)
          <6>1. j \in 1..Len(sent)
            BY <1>5, <5>1
          <6> QED
            BY <1>5, <1>6, <3>1, <4>2, <6>1 DEF Hit
        <5>2. CASE ~(j <= Len(sent))
          <6>1. PICK m : m = j - Len(sent)
            OBVIOUS
          <6>2. m \in 1..Len(b) /\ j = Len(sent) + m
            BY <1>5, <5>2, <6>1
          <6> QED
            BY <1>5, <1>6, <6>2
        <5> QED
          BY <5>1, <5>2
      <4> QED
        BY <4>1, <4>2 DEF Hit
    <3> QED
      BY <1>6, <2>2, <3>2, <3>3, <3>4 DEF Transit
  <2> QED
    BY <2>1, <2>2
<1>9. Taken(f, more, hurt, have, pos, rest)
  <2>1. /\ have \in Seq(Item) /\ Len(have) <= n /\ Len(have) \in Nat
        /\ Len(have) >= 1 => have[1] = items[1]
        /\ \A k \in 1..Len(have) :
              k < Len(have) \/ rest = NoFile => have[k] = items[k] \/ (hurt /\ Unverified(have[k]))
        /\ rest = NoFile => pos = e[Len(have)]
    BY <1>0 DEF Taken
  <2>2. Len(have) <= Len(more) /\ Len(have) \in 0..n
    BY <1>0, <2>1
  <2>3. Len(have) >= 1 => have[1] = more[1]
    BY <1>0, <1>7, <2>1
  <2>4. ASSUME NEW k \in 1..Len(have), k < Len(have) \/ rest = NoFile
        PROVE  have[k] = more[k] \/ (hurt /\ Unverified(have[k]))
    <3>1. k \in 1..n
      BY <1>0, <2>1
    <3> QED
      BY <1>7, <2>1, <2>4, <3>1
  <2>5. rest = NoFile => pos = f[Len(have)]
    BY <1>2, <2>1, <2>2
  <2> QED
    BY <2>1, <2>2, <2>3, <2>4, <2>5 DEF Taken
<1>10. Underway(f, more, late, have, pos, rest, word)
  <2> SUFFICES ASSUME rest # NoFile PROVE Underway(f, more, late, have, pos, rest, word)
    BY DEF Underway
  <2>1. PICK k : k = Len(have)
    OBVIOUS
  <2>2. /\ rest \in Nat /\ k >= 2 /\ k <= items[1].total_files + 1
        /\ rest <= items[k].size /\ pos = e[k] - rest
        /\ have[k] = [items[k] EXCEPT !.payload = SubSeq(buf, e[k] - items[k].size + 1, pos)]
        /\ word = Updated(Fresh, have[k].payload)
    BY <1>0, <2>1 DEF Underway
  <2>3. k \in 2..n /\ k \in 1..n /\ k \in 0..n
    BY <1>0, <2>1, <2>2 DEF Taken
  <2>4. more[k] = items[k] /\ more[1] = items[1] /\ f[k] = e[k]
    BY <1>2, <1>7, <2>3
  <2>5. PICK g : g = items[k]
    OBVIOUS
  <2>6. /\ FileOK(g) /\ e[k - 1] \in Nat /\ e[k] \in Nat /\ e[k] <= Len(sent)
        /\ e[k] = e[k - 1] + (18 + Len(g.rel_path) + g.size)
    <3>1. k \in 2..Len(items) /\ Layout(e, sent, items) /\ k <= items[1].total_files + 1
      BY <1>0, <2>2, <2>3, Zenon
    <3> QED
      BY <2>5, <3>1, RecordPlace
  <2>7. g.size \in Nat /\ Len(g.rel_path) \in Nat
    BY <2>6, FileTypes
  <2>8. PICK a \in Nat : a = e[k] - g.size
    BY <2>6, <2>7
  <2>9. pos \in Nat /\ a <= pos /\ pos <= Len(buf) /\ pos <= Len(late)
    <3>1. rest \in Nat /\ rest <= g.size /\ pos = e[k] - rest
      BY <2>2, <2>5
    <3>2. pos \in Nat /\ a <= pos /\ pos <= e[k]
      <4>1. PICK m \in Nat, z \in Nat : m = e[k] /\ z = g.size
        BY <2>6, <2>7, Zenon
      <4>2. rest \in Nat /\ rest <= z /\ pos = m - rest /\ a = m - z /\ a \in Nat
        BY <2>8, <3>1, <4>1, Zenon
      <4>3. pos \in Nat /\ a <= pos /\ pos <= m
        BY <4>1, <4>2
      <4> QED
        BY <4>1, <4>3, Zenon
    <3>3. Len(buf) = Len(sent) /\ Len(late) = Len(sent) + Len(b) /\ Len(sent) \in Nat /\ Len(b) \in Nat
      BY <1>3, <1>5, <1>6
    <3>4. PICK m \in Nat, n1 \in Nat, n2 \in Nat :
              m = e[k] /\ n1 = Len(sent) /\ n2 = Len(b)
      BY <2>6, <3>3, Zenon
    <3>5. pos \in Nat /\ pos <= m /\ m <= n1 /\ Len(buf) = n1 /\ Len(late) = n1 + n2 /\ a <= pos
      BY <2>6, <3>2, <3>3, <3>4, Zenon
    <3>6. pos <= n1 /\ pos <= n1 + n2
      BY <3>4, <3>5
    <3> QED
      BY <3>5, <3>6, Zenon
  <2>10. \A i \in a + 1..pos : buf[i] = late[i]
    BY <1>3, <1>6, <2>8, <2>9
  <2>11. SubSeq(buf, a + 1, pos) = SubSeq(late, a + 1, pos)
    <3>1. buf \in Seq(Byte) /\ late \in Seq(Byte)
      BY <1>3, <1>6, Zenon
    <3> QED
      BY <2>8, <2>9, <2>10, <3>1, SameParts
  <2>12. SubSeq(buf, e[k] - items[k].size + 1, pos) = SubSeq(late, f[k] - more[k].size + 1, pos)
    BY <2>4, <2>5, <2>8, <2>11
  <2> QED
    BY <2>1, <2>2, <2>4, <2>12 DEF Underway
<1> QED
  BY <1>2, <1>4, <1>8, <1>9, <1>10 DEF Snapshot, more

-----------------------------------------------------------------------------
(* Reading. *)

Begins(x, r, n) == \A i \in 1..n : x[i] = r[i]

LEMMA FirstBytes ==
    ASSUME NEW x \in Seq(Byte), NEW n \in Nat, n <= Len(x)
    PROVE  /\ SubSeq(x, 1, n) \in Seq(Byte) /\ Len(SubSeq(x, 1, n)) = n
           /\ Begins(SubSeq(x, 1, n), x, n)
<1>1. \A i \in 1..n : x[i] \in Byte
  BY ElementOfSeq
<1>2. /\ SubSeq(x, 1, n) \in Seq(Byte) /\ Len(SubSeq(x, 1, n)) = IF 1 <= n THEN n - 1 + 1 ELSE 0
      /\ \A i \in 1..n - 1 + 1 : SubSeq(x, 1, n)[i] = x[1 + i - 1]
  BY <1>1, SubSeqProperties
<1>3. n - 1 + 1 = n /\ \A i \in 1..n : 1 + i - 1 = i
  OBVIOUS
<1> QED
  BY <1>2, <1>3 DEF Begins

\* A header that arrives whole is taken for what it is.
LEMMA HeaderRead ==
    ASSUME NEW h, HeaderOK(h)
    PROVE  /\ GoodHeader(HeaderBytes(h))
           /\ Decode(HeaderBytes(h), 4, 2) = h.version /\ Decode(HeaderBytes(h), 24, 4) = h.flags
           /\ Decode(HeaderBytes(h), 8, 8) = h.total_files
           /\ Decode(HeaderBytes(h), 16, 8) = h.total_bytes
<1>1. /\ h.version \in 0..Worth[2] - 1 /\ h.flags \in 0..Worth[4] - 1
      /\ h.total_files \in 0..Worth[8] - 1 /\ h.total_bytes \in 0..Worth[8] - 1
      /\ Magic["XFER"] \in 0..Worth[4] - 1
  BY NumberTypes, MagicTypes, Zenon DEF HeaderOK
<1>2. PICK x : x = HeaderBytes(h)
  OBVIOUS
<1>3. PICK y : y = Fields(h)
  OBVIOUS
<1>4. /\ x \in Seq(Byte) /\ Len(x) = 32 /\ y \in Seq(Byte) /\ Len(y) = 28
      /\ Holds(x, 0, y) /\ Holds(x, 28, EncodeSum(Compute(y)))
  BY <1>2, <1>3, HeaderLayout, FieldsLayout, Zenon
<1>5. /\ Holds(y, 0, Encode(Magic["XFER"], 4)) /\ Holds(y, 4, Encode(h.version, 2))
      /\ Holds(y, 8, Encode(h.total_files, 8)) /\ Holds(y, 16, Encode(h.total_bytes, 8))
      /\ Holds(y, 24, Encode(h.flags, 4))
  BY <1>3, FieldsLayout, Zenon
<1>6. ASSUME NEW n \in Nat, NEW width \in 0..8, NEW m \in Nat, m + width <= 28, Holds(y, m, Encode(n, width))
      PROVE  Holds(x, m, Encode(n, width))
  <2>1. Encode(n, width) \in Seq(Byte) /\ Len(Encode(n, width)) = width
    BY EncodeType
  <2>2. PICK c \in Seq(Byte) : c = Encode(n, width) /\ Len(c) = width
    BY <2>1
  <2>3. Holds(x, 0 + m, c)
    BY <1>4, <1>6, <2>2, HoldsPart, Zenon
  <2> QED
    BY <2>2, <2>3
<1>7. /\ Holds(x, 0, Encode(Magic["XFER"], 4)) /\ Holds(x, 4, Encode(h.version, 2))
      /\ Holds(x, 8, Encode(h.total_files, 8)) /\ Holds(x, 16, Encode(h.total_bytes, 8))
      /\ Holds(x, 24, Encode(h.flags, 4))
  BY <1>1, <1>5, <1>6
<1>8. /\ Decode(x, 0, 4) = Magic["XFER"] /\ Decode(x, 4, 2) = h.version
      /\ Decode(x, 8, 8) = h.total_files /\ Decode(x, 16, 8) = h.total_bytes /\ Decode(x, 24, 4) = h.flags
  BY <1>1, <1>7, DecodeHeld
<1>9. SubSeq(x, 1, 28) = y
  <2>1. 0 + 1 = 1 /\ 0 + Len(y) = 28 /\ 0 + Len(y) <= Len(x) /\ 0 \in Nat
    BY <1>4
  <2> QED
    BY <1>4, <2>1, HeldPart, Zenon
<1>10. DecodeSum(x, 28) = Compute(y)
  <2>1. Compute(y) \in SUBSET Bits
    <3>1. Fresh \in SUBSET Bits /\ Bits \in SUBSET Bits
      BY DEF Fresh
    <3> QED
      BY <1>4, <3>1, UpdatedType, WordType DEF Compute, Final
  <2> QED
    BY <1>4, <2>1, DecodeHeldSum
<1> QED
  BY <1>2, <1>8, <1>9, <1>10 DEF GoodHeader

\* One with a wrong byte is not, whichever byte it is.
LEMMA HeaderRefused ==
    ASSUME NEW h, HeaderOK(h), NEW x \in Seq(Byte), Len(x) = 32, NEW i \in 1..32,
           Hit(HeaderBytes(h), x, i)
    PROVE  ~GoodHeader(x)
<1>1. PICK y : y = Fields(h)
  OBVIOUS
<1>2. PICK s : s = EncodeSum(Compute(y))
  OBVIOUS
<1>3. /\ y \in Seq(Byte) /\ Len(y) = 28 /\ s \in Seq(Byte) /\ Len(s) = 4
      /\ Holds(HeaderBytes(h), 0, y) /\ Holds(HeaderBytes(h), 28, s)
  BY <1>1, <1>2, HeaderLayout, FieldsLayout, EncodeSumType, Zenon
<1>4. PICK r : /\ r = HeaderBytes(h) /\ Len(r) = 32 /\ Hit(r, x, i)
               /\ Begins(r, y, 28) /\ Holds(r, 28, s)
  <2>1. ASSUME NEW j \in 1..28 PROVE HeaderBytes(h)[j] = y[j]
    <3>1. 0 + j = j
      OBVIOUS
    <3> QED
      BY <1>3, <3>1 DEF Holds
  <2>2. Begins(HeaderBytes(h), y, 28)
    BY <2>1 DEF Begins
  <2>3. Len(HeaderBytes(h)) = 32
    BY HeaderLayout
  <2> QED
    BY <1>3, <2>2, <2>3, Zenon
<1>5. PICK z \in Seq(Byte) : z = SubSeq(x, 1, 28) /\ Len(z) = 28 /\ Begins(z, x, 28)
  <2>1. 28 \in Nat /\ 28 <= Len(x)
    OBVIOUS
  <2> QED
    BY <2>1, FirstBytes, Zenon
<1>6. SUFFICES ASSUME DecodeSum(x, 28) = Compute(z) PROVE FALSE
  BY <1>5 DEF GoodHeader
<1>7. \A j \in 1..4 : x[28 + j] \in Byte
  <2> SUFFICES ASSUME NEW j \in 1..4 PROVE x[28 + j] \in Byte
    OBVIOUS
  <2>1. 28 + j \in 1..Len(x)
    OBVIOUS
  <2> QED
    BY <2>1, ElementOfSeq
<1>8. \A j \in 1..4 : x[28 + j] = EncodeSum(DecodeSum(x, 28))[j]
  <2>1. PICK m \in Nat : m = 28
    OBVIOUS
  <2>2. \A j \in 1..4 : x[m + j] \in Byte
    BY <1>7, <2>1
  <2>3. ASSUME NEW j \in 1..4 PROVE x[m + j] = EncodeSum(DecodeSum(x, m))[j]
    BY <2>2, EncodeDecodeSum, ZenonT(30)
  <2> QED
    BY <2>1, <2>3, Zenon
<1>9. CASE i <= 28
  <2>1. Compute(z) # Compute(y)
    <3>1. i \in 1..28
      BY <1>9
    <3>2. ASSUME NEW j \in 1..28 PROVE z[j] = x[j] /\ r[j] = y[j] /\ (j # i => x[j] = r[j])
      <4>1. j \in 1..Len(r)
        BY <1>4
      <4> QED
        BY <1>4, <1>5, <4>1 DEF Hit, Begins
    <3>3. z[i] # y[i]
      BY <1>4, <3>1, <3>2 DEF Hit
    <3>4. \A j \in 1..Len(z) : j # i => z[j] = y[j]
      BY <1>5, <3>2
    <3>5. i \in 1..Len(z) /\ Len(z) = Len(y)
      BY <1>3, <1>5, <3>1
    <3> QED
      BY <1>3, <3>3, <3>4, <3>5, OneWrongByte
  <2>2. DecodeSum(x, 28) = Compute(y)
    <3>1. ASSUME NEW j \in 1..4 PROVE x[28 + j] = s[j]
      <4>1. 28 + j \in 1..Len(r) /\ 28 + j # i /\ j \in 1..Len(s)
        BY <1>3, <1>4, <1>9
      <4>2. x[28 + j] = r[28 + j] /\ r[28 + j] = s[j]
        BY <1>4, <4>1 DEF Hit, Holds
      <4> QED
        BY <4>2
    <3>2. Compute(y) \in SUBSET Bits
      <4>1. Fresh \in SUBSET Bits /\ Bits \in SUBSET Bits
        BY DEF Fresh
      <4> QED
        BY <1>3, <4>1, UpdatedType, WordType DEF Compute, Final
    <3>3. PICK w \in SUBSET Bits : w = Compute(y)
      BY <3>2
    <3>4. PICK m \in Nat : m = 28
      OBVIOUS
    <3>5. Holds(x, m, EncodeSum(w))
      <4>1. Len(EncodeSum(w)) = 4
        BY EncodeSumType
      <4> QED
        BY <1>2, <3>1, <3>3, <3>4, <4>1, Zenon DEF Holds
    <3>6. DecodeSum(x, m) = w
      BY <3>5, DecodeHeldSum
    <3> QED
      BY <3>3, <3>4, <3>6, Zenon
  <2> QED
    BY <1>6, <2>1, <2>2
<1>10. CASE ~(i <= 28)
  <2>1. z = y
    <3>1. ASSUME NEW j \in 1..28 PROVE z[j] = y[j]
      <4>1. j \in 1..Len(r) /\ j # i
        BY <1>4, <1>10
      <4>2. z[j] = x[j] /\ x[j] = r[j] /\ r[j] = y[j]
        BY <1>4, <1>5, <4>1 DEF Hit, Begins
      <4> QED
        BY <4>2
    <3> QED
      BY <1>3, <1>5, <3>1, SameBytes
  <2>2. PICK j \in 1..4 : i = 28 + j
    <3>1. i - 28 \in 1..4 /\ i = 28 + (i - 28)
      BY <1>10
    <3> QED
      BY <3>1
  <2>3. x[28 + j] = s[j]
    BY <1>2, <1>6, <1>8, <2>1
  <2>4. x[i] = r[i]
    <3>1. j \in 1..Len(s)
      BY <1>3
    <3>2. r[28 + j] = s[j]
      BY <1>4, <3>1 DEF Holds
    <3> QED
      BY <2>2, <2>3, <3>2
  <2> QED
    BY <1>4, <2>4 DEF Hit
<1> QED
  BY <1>9, <1>10

\* A record's fields are found where they are.
LEMMA RecordRead ==
    ASSUME NEW f, FileOK(f), NEW x, Begins(x, Record(f), 18)
    PROVE  /\ Decode(x, 0, 4) = Magic["FILE"] /\ Decode(x, 4, 2) = Len(f.rel_path)
           /\ Decode(x, 6, 8) = f.size /\ DecodeSum(x, 14) = f.crc32
<1>1. /\ Len(f.rel_path) \in 0..Worth[2] - 1 /\ f.size \in 0..Worth[8] - 1 /\ f.crc32 \in SUBSET Bits
      /\ Magic["FILE"] \in 0..Worth[4] - 1
  BY NumberTypes, MagicTypes, Zenon DEF FileOK
<1>2. PICK r : r = Record(f)
  OBVIOUS
<1>3. /\ Holds(r, 0, Encode(Magic["FILE"], 4)) /\ Holds(r, 4, Encode(Len(f.rel_path), 2))
      /\ Holds(r, 6, Encode(f.size, 8)) /\ Holds(r, 14, EncodeSum(f.crc32))
  BY <1>2, RecordLayout, Zenon
<1>4. ASSUME NEW c, NEW m \in Nat, NEW n \in Nat, Len(c) = n, m + n <= 18, Holds(r, m, c)
      PROVE  Holds(x, m, c)
  <2>1. ASSUME NEW i \in 1..n PROVE x[m + i] = c[i]
    <3>1. m + i \in 1..18
      BY <1>4
    <3>2. x[m + i] = r[m + i]
      BY <1>2, <3>1 DEF Begins
    <3> QED
      BY <1>4, <3>2 DEF Holds
  <2> QED
    BY <1>4, <2>1 DEF Holds
<1>5. /\ Len(Encode(Magic["FILE"], 4)) = 4 /\ Len(Encode(Len(f.rel_path), 2)) = 2
      /\ Len(Encode(f.size, 8)) = 8 /\ Len(EncodeSum(f.crc32)) = 4
  <2>1. Magic["FILE"] \in Nat /\ Len(f.rel_path) \in Nat /\ f.size \in Nat
    BY FileTypes, MagicTypes, NumberTypes
  <2> QED
    BY <2>1, EncodeWidths, EncodeSumType, Zenon
<1>6. /\ Holds(x, 0, Encode(Magic["FILE"], 4)) /\ Holds(x, 4, Encode(Len(f.rel_path), 2))
      /\ Holds(x, 6, Encode(f.size, 8)) /\ Holds(x, 14, EncodeSum(f.crc32))
  <2>1. /\ 0 \in Nat /\ 2 \in Nat /\ 4 \in Nat /\ 6 \in Nat /\ 8 \in Nat /\ 14 \in Nat
        /\ 0 + 4 <= 18 /\ 4 + 2 <= 18 /\ 6 + 8 <= 18 /\ 14 + 4 <= 18
    OBVIOUS
  <2> QED
    BY <1>3, <1>4, <1>5, <2>1, Zenon
<1> QED
  BY <1>1, <1>6, DecodeHeld, DecodeHeldSum

\* The bytes from lo on up to hi are in no payload.
Clear(e, items, lo, hi) ==
    \A m \in 2..Len(items) :
       m <= items[1].total_files + 1 => hi <= e[m] - items[m].size \/ e[m] <= lo

\* Bytes outside of every payload arrive as they were written once the header
\* was read.
LEMMA Untouched ==
    ASSUME NEW e, NEW sent, NEW items \in Seq(Item), NEW buf, NEW hurt, NEW done \in Nat \ {0},
           Layout(e, sent, items), Transit(e, sent, items, buf, hurt, done),
           NEW lo \in Nat, NEW hi \in Nat, hi <= Len(sent), Clear(e, items, lo, hi)
    PROVE  \A i \in lo + 1..hi : buf[i] = sent[i]
<1> SUFFICES ASSUME NEW i \in lo + 1..hi PROVE buf[i] = sent[i]
  OBVIOUS
<1>1. CASE ~hurt
  BY <1>1 DEF Transit
<1>2. CASE hurt
  <2>1. PICK p \in 1..Len(sent) : Spot(e, items, done, p) /\ Hit(sent, buf, p)
    BY <1>2 DEF Transit
  <2>2. PICK m \in 2..Len(items) : /\ m <= items[1].total_files + 1
                                   /\ e[m] - items[m].size < p /\ p <= e[m]
    BY <2>1 DEF Spot
  <2>3. hi <= e[m] - items[m].size \/ e[m] <= lo
    BY <2>2 DEF Clear
  <2>4. e[m] \in Nat /\ items[m].size \in Nat
    BY <2>2, RecordPlace, FileTypes
  <2>5. i # p
    BY <2>2, <2>3, <2>4
  <2>6. i \in 1..Len(sent)
    BY DEF Layout
  <2> QED
    BY <2>1, <2>5, <2>6 DEF Hit
<1> QED
  BY <1>1, <1>2

LEMMA RecordArrives ==
    ASSUME NEW e, NEW sent, NEW items \in Seq(Item), NEW buf, NEW hurt, NEW done \in Nat \ {0},
           Layout(e, sent, items), Transit(e, sent, items, buf, hurt, done),
           NEW k \in 2..Len(items), k <= items[1].total_files + 1,
           NEW j \in 1..18 + Len(items[k].rel_path)
    PROVE  buf[e[k - 1] + j] = Record(items[k])[j]
<1>1. PICK g : g = items[k]
  OBVIOUS
<1>2. /\ FileOK(g) /\ e[k - 1] \in Nat /\ e[k] \in Nat /\ e[k] <= Len(sent)
      /\ e[k] = e[k - 1] + (18 + Len(g.rel_path) + g.size)
      /\ Holds(sent, e[k - 1], Record(g))
  BY <1>1, RecordPlace
<1>3. /\ g.size \in Nat /\ Len(g.rel_path) \in Nat /\ Len(g.payload) = g.size
      /\ Len(Record(g)) = 18 + Len(g.rel_path) + g.size
  BY <1>2, FileTypes, RecordLayout
<1>4. PICK lo \in Nat : lo = e[k - 1]
  BY <1>2
<1>5. PICK hi : hi = lo + (18 + Len(g.rel_path))
  OBVIOUS
<1>6. hi \in Nat /\ hi = e[k] - g.size /\ hi <= e[k] /\ hi <= Len(sent)
  <2>1. PICK n \in Nat : n = Len(sent)
    BY DEF Layout
  <2>2. PICK p \in Nat : p = Len(g.rel_path)
    BY <1>3
  <2>3. PICK q \in Nat : q = g.size
    BY <1>3
  <2>4. PICK r \in Nat : r = e[k]
    BY <1>2
  <2>5. r = lo + (18 + p + q) /\ r <= n /\ hi = lo + (18 + p)
    BY <1>2, <1>4, <1>5, <2>1, <2>2, <2>3, <2>4
  <2>6. hi \in Nat /\ hi = r - q /\ hi <= r /\ hi <= n
    BY <2>5
  <2> QED
    BY <2>1, <2>3, <2>4, <2>6
<1>7. ASSUME NEW m \in 2..Len(items), m <= items[1].total_files + 1
      PROVE  hi <= e[m] - items[m].size \/ e[m] <= lo
  <2>1. m \in 0..Len(items) /\ m - 1 \in 0..Len(items) /\ k \in 0..Len(items) /\ k - 1 \in 0..Len(items)
    OBVIOUS
  <2>2. /\ e[m] \in Nat /\ e[m - 1] \in Nat /\ items[m].size \in Nat
        /\ e[m - 1] <= e[m] - items[m].size
    <3>1. PICK f : f = items[m]
      OBVIOUS
    <3>2. /\ FileOK(f) /\ e[m - 1] \in Nat /\ e[m] \in Nat
          /\ e[m] = e[m - 1] + (18 + Len(f.rel_path) + f.size)
      BY <1>7, <3>1, RecordPlace
    <3>3. Len(f.rel_path) \in Nat /\ f.size \in Nat
      BY <3>2, FileTypes
    <3>4. e[m - 1] <= e[m] - f.size
      <4>1. PICK x \in Nat, y \in Nat, q \in Nat, z \in Nat :
                x = e[m - 1] /\ y = e[m] /\ q = Len(f.rel_path) /\ z = f.size
        BY <3>2, <3>3, Zenon
      <4>2. y = x + (18 + q + z)
        BY <3>2, <4>1, Zenon
      <4>3. x <= y - z
        <5>1. x \in Nat /\ y \in Nat /\ q \in Nat /\ z \in Nat
          BY <4>1, Zenon
        <5> QED
          BY <4>2, <5>1
      <4> QED
        BY <4>1, <4>3, Zenon
    <3> QED
      BY <3>1, <3>2, <3>3, <3>4
  <2>3. CASE m < k
    <3>1. m <= k - 1
      BY <2>3
    <3>2. e[m] <= e[k - 1]
      BY <2>1, <3>1 DEF Layout
    <3> QED
      BY <1>4, <3>2
  <2>4. CASE m = k
    BY <1>1, <1>6, <2>2, <2>4
  <2>5. CASE m > k
    <3>1. k <= m - 1
      BY <2>5
    <3>2. e[k] <= e[m - 1]
      BY <2>1, <3>1 DEF Layout
    <3>3. hi <= e[m - 1]
      <4>1. hi <= e[k] /\ hi \in Nat /\ e[k] \in Nat /\ e[m - 1] \in Nat
        BY <1>2, <1>6, <2>2, Zenon
      <4> QED
        BY <3>2, <4>1
    <3>4. PICK z : z = e[m] - items[m].size /\ z \in Int
      BY <2>2
    <3>5. e[m - 1] <= z
      BY <2>2, <3>4
    <3>6. hi <= z
      BY <1>6, <2>2, <3>3, <3>4, <3>5
    <3> QED
      BY <3>4, <3>6
  <2> QED
    BY <2>3, <2>4, <2>5
<1>8. \A i \in lo + 1..hi : buf[i] = sent[i]
  <2>1. Clear(e, items, lo, hi)
    BY <1>7, Zenon DEF Clear
  <2> QED
    BY <1>6, <2>1, Untouched
<1>9. j \in 1..Len(Record(g)) /\ lo + j \in lo + 1..hi
  <2>1. PICK p \in Nat, z \in Nat : p = Len(g.rel_path) /\ z = g.size
    BY <1>3, Zenon
  <2>2. j \in 1..18 + p /\ Len(Record(g)) = 18 + p + z /\ hi = lo + (18 + p)
    BY <1>1, <1>3, <1>5, <2>1, Zenon
  <2>3. j \in 1..18 + p + z /\ lo + j \in lo + 1..hi
    <3>1. p \in Nat /\ z \in Nat /\ j \in 1..18 + p /\ hi = lo + (18 + p) /\ lo \in Nat
      BY <1>4, <2>1, <2>2, Zenon
    <3> QED
      BY <3>1
  <2> QED
    BY <2>2, <2>3, Zenon
<1>10. sent[lo + j] = Record(g)[j]
  BY <1>2, <1>4, <1>9 DEF Holds
<1> QED
  BY <1>1, <1>4, <1>8, <1>9, <1>10

LEMMA DoneArrives ==
    ASSUME NEW e, NEW sent, NEW items \in Seq(Item), NEW buf, NEW hurt, NEW done \in Nat \ {0},
           Layout(e, sent, items), Transit(e, sent, items, buf, hurt, done),
           NEW k \in 2..Len(items), ~(k <= items[1].total_files + 1)
    PROVE  /\ items[k] = Done /\ e[k - 1] \in Nat /\ e[k] = e[k - 1] + 4
           /\ \A j \in 1..4 : buf[e[k - 1] + j] = Encode(Magic["DONE"], 4)[j]
<1>0. /\ Len(items) \in Nat /\ k \in 1..Len(items) /\ k # 1 /\ k - 1 \in 0..Len(items) /\ 1 \in 1..Len(items)
      /\ k \in 0..Len(items) /\ Len(items) \in 0..Len(items) /\ k <= Len(items) /\ k - 1 <= k
  OBVIOUS
<1>1. Placed(e, sent, items, k) /\ Placed(e, sent, items, 1)
  BY <1>0 DEF Layout
<1>2. items[k] = Done /\ BytesOf(items, k) = Encode(Magic["DONE"], 4) /\ HeaderOK(items[1])
  BY <1>0, <1>1 DEF Placed, ItemOK, BytesOf
<1>3. PICK d : d = Encode(Magic["DONE"], 4) /\ Len(d) = 4
  BY DoneBytes
<1>4. /\ e[k - 1] \in Nat /\ e[k] \in Nat /\ e[k] <= e[Len(items)] /\ Len(sent) = e[Len(items)]
  BY <1>0 DEF Layout
<1>5. e[k] = e[k - 1] + 4 /\ Holds(sent, e[k - 1], d)
  BY <1>1, <1>2, <1>3 DEF Placed
<1>6. PICK lo \in Nat, hi \in Nat : lo = e[k - 1] /\ hi = lo + 4 /\ hi <= Len(sent)
  BY <1>4, <1>5
<1>7. ASSUME NEW m \in 2..Len(items), m <= items[1].total_files + 1
      PROVE  e[m] <= lo
  <2>1. items[1].total_files \in Nat
    BY <1>2, HeaderTypes
  <2>2. m <= k - 1 /\ m \in 0..Len(items)
    BY <1>0, <1>7, <2>1
  <2>3. e[m] <= e[k - 1]
    BY <1>0, <2>2 DEF Layout
  <2> QED
    BY <1>6, <2>3
<1>8. \A i \in lo + 1..hi : buf[i] = sent[i]
  <2>1. Clear(e, items, lo, hi)
    BY <1>7, Zenon DEF Clear
  <2> QED
    BY <1>6, <2>1, Untouched
<1>9. ASSUME NEW j \in 1..4 PROVE buf[lo + j] = d[j]
  <2>1. lo + j \in lo + 1..hi
    <3>1. lo \in Nat /\ hi = lo + 4
      BY <1>6, Zenon
    <3> QED
      BY <3>1
  <2>2. sent[lo + j] = d[j]
    BY <1>3, <1>5, <1>6 DEF Holds
  <2> QED
    BY <1>8, <2>1, <2>2
<1> QED
  BY <1>2, <1>3, <1>4, <1>5, <1>6, <1>9

-----------------------------------------------------------------------------
(* The steps. *)

LEMMA RefuseStep ==
    ASSUME IInv, NEW who, Refuse(who), who = "writer" \/ damaged
    PROVE  IInv'
<1>1. /\ written' = written /\ stream' = stream /\ damaged' = damaged /\ got' = got /\ at' = at
      /\ left' = left /\ crc' = crc /\ refused' = who
  BY DEF Refuse, payload
<1>2. refused' = "reader" => damaged'
  BY <1>1
<1>3. /\ written' \in Seq(Item) /\ damaged' \in BOOLEAN /\ at' \in Nat
  BY <1>1 DEF IInv
<1>4. \E e, sent : Snapshot(e, sent, written', stream', damaged', got', at', left', crc')
  BY <1>1 DEF IInv
<1> QED
  BY <1>2, <1>3, <1>4 DEF IInv

LEMMA FirstPlace ==
    ASSUME NEW items \in Seq(Item), NEW e, NEW sent, Layout(e, sent, items), Len(items) >= 1
    PROVE  /\ HeaderOK(items[1]) /\ e[1] = 32 /\ 32 <= Len(sent)
           /\ Begins(sent, HeaderBytes(items[1]), 32)
<1>0. 1 \in 1..Len(items) /\ 1 \in 0..Len(items) /\ Len(items) \in 0..Len(items) /\ 1 <= Len(items)
  OBVIOUS
<1>1. Placed(e, sent, items, 1)
  BY <1>0 DEF Layout
<1>2. HeaderOK(items[1]) /\ BytesOf(items, 1) = HeaderBytes(items[1])
  BY <1>1 DEF Placed, ItemOK, BytesOf
<1>3. PICK r : r = HeaderBytes(items[1]) /\ Len(r) = 32
  BY <1>2, HeaderLayout
<1>4. PICK z : z = 1 - 1 /\ z = 0
  OBVIOUS
<1>5. e[1] = e[z] + 32 /\ Holds(sent, e[z], r)
  BY <1>1, <1>2, <1>3, <1>4, Zenon DEF Placed
<1>6. e[z] = 0 /\ e[1] <= e[Len(items)] /\ Len(sent) = e[Len(items)]
  BY <1>0, <1>4 DEF Layout
<1>7. e[1] = 32
  BY <1>5, <1>6
<1>8. ASSUME NEW i \in 1..32 PROVE sent[i] = r[i]
  <2>1. 0 + i = i
    OBVIOUS
  <2>2. sent[0 + i] = r[i]
    BY <1>3, <1>5, <1>6 DEF Holds
  <2> QED
    BY <2>1, <2>2
<1> QED
  BY <1>2, <1>3, <1>6, <1>7, <1>8 DEF Begins

\* What can have changed does not depend on how much was read after the header.
LEMMA TransitStays ==
    ASSUME NEW e, NEW sent, NEW items, NEW buf, NEW hurt, NEW done \in Nat \ {0}, NEW next,
           Transit(e, sent, items, buf, hurt, done)
    PROVE  Transit(e, sent, items, buf, hurt, next)
<1>1. \A i : Spot(e, items, done, i) => Spot(e, items, next, i)
  BY DEF Spot
<1> QED
  BY <1>1, Zenon DEF Transit

LEMMA ReadSessionHeaderStep ==
    ASSUME IInv, ReadSessionHeader
    PROVE  IInv'
<1>1. PICK e, sent : Snapshot(e, sent, written, stream, damaged, got, at, left, crc)
  BY DEF IInv
<1>2. /\ written \in Seq(Item) /\ damaged \in BOOLEAN /\ at \in Nat
      /\ refused = "reader" => damaged
  BY DEF IInv
<1>3. /\ Layout(e, sent, written) /\ Transit(e, sent, written, stream, damaged, 0)
      /\ Taken(e, written, damaged, got, at, left) /\ got = <<>> /\ left = NoFile
      /\ at = e[0] /\ e[0] = 0
  <2>1. got = <<>> /\ Len(got) = 0
    BY DEF ReadSessionHeader
  <2>2. left = NoFile
    BY <1>1, <2>1 DEF Snapshot, Underway
  <2> QED
    BY <1>1, <2>1, <2>2 DEF Snapshot, Taken, Layout
<1>4. stream \in Seq(Byte) /\ Len(stream) = Len(sent) /\ Len(stream) >= 32 /\ sent \in Seq(Byte) /\ at = 0
  BY <1>3 DEF ReadSessionHeader, Arrived, Transit, Layout
<1>5. Len(written) >= 1
  <2>1. Len(sent) = e[Len(written)]
    BY <1>3 DEF Layout
  <2>2. Len(written) # 0
    BY <1>3, <1>4, <2>1
  <2> QED
    BY <1>2, <2>2
<1>6. PICK h : h = written[1]
  OBVIOUS
<1>7. PICK r : r = HeaderBytes(h)
  OBVIOUS
<1>8. HeaderOK(h) /\ e[1] = 32 /\ Begins(sent, r, 32)
  BY <1>2, <1>3, <1>5, <1>6, <1>7, FirstPlace
<1>9. r \in Seq(Byte) /\ Len(r) = 32
  BY <1>7, <1>8, HeaderLayout
<1>10. PICK x \in Seq(Byte) : x = Here(32) /\ Len(x) = 32 /\ Begins(x, stream, 32)
  <2>1. /\ SubSeq(stream, at + 1, at + 32) \in Seq(Byte) /\ Len(SubSeq(stream, at + 1, at + 32)) = 32
        /\ \A i \in 1..32 : SubSeq(stream, at + 1, at + 32)[i] = stream[at + i]
    <3>1. PICK n \in Nat : n = 32
      OBVIOUS
    <3>2. at + n <= Len(stream)
      BY <1>4, <3>1
    <3>3. /\ SubSeq(stream, at + 1, at + n) \in Seq(Byte) /\ Len(SubSeq(stream, at + 1, at + n)) = n
          /\ \A i \in 1..n : SubSeq(stream, at + 1, at + n)[i] = stream[at + i]
      <4>1. stream \in Seq(Byte) /\ at \in Nat
        BY <1>2, <1>4
      <4> QED
        BY <3>2, <4>1, ReadHere
    <3> QED
      BY <3>1, <3>3, Zenon
  <2>2. at = 0
    BY <1>4, Zenon
  <2>3. \A i \in 1..32 : 0 + i = i
    OBVIOUS
  <2>4. PICK y : y = Here(32)
    OBVIOUS
  <2>5. y = SubSeq(stream, at + 1, at + 32)
    BY <2>4, Zenon DEF Here
  <2>6. Begins(y, stream, 32)
    BY <2>1, <2>2, <2>3, <2>5, Zenon DEF Begins
  <2> QED
    BY <2>1, <2>4, <2>5, <2>6, Zenon
<1>11. CASE \E i \in 1..32 : damaged /\ Hit(sent, stream, i)
  <2>1. PICK i \in 1..32 : damaged /\ Hit(sent, stream, i)
    BY <1>11
  <2>2. ASSUME NEW j \in 1..32 PROVE x[j] = stream[j] /\ sent[j] = r[j] /\ j \in 1..Len(sent)
    <3>1. x[j] = stream[j] /\ sent[j] = r[j]
      BY <1>8, <1>10, Zenon DEF Begins
    <3>2. j \in 1..Len(sent)
      BY <1>4
    <3> QED
      BY <3>1, <3>2
  <2>3. Hit(r, x, i)
    <3>1. x[i] # r[i]
      BY <2>1, <2>2 DEF Hit
    <3>2. ASSUME NEW j \in 1..Len(r), j # i PROVE x[j] = r[j]
      <4>1. j \in 1..32
        BY <1>9
      <4> QED
        BY <2>1, <2>2, <3>2, <4>1 DEF Hit
    <3> QED
      BY <3>1, <3>2 DEF Hit
  <2>4. ~GoodHeader(x)
    BY <1>7, <1>8, <1>10, <2>3, HeaderRefused
  <2>5. Refuse("reader")
    BY <1>10, <2>4 DEF ReadSessionHeader
  <2> QED
    BY <2>1, <2>5, RefuseStep
<1>12. CASE ~\E i \in 1..32 : damaged /\ Hit(sent, stream, i)
  <2>1. ASSUME damaged, NEW i \in 1..Len(sent), Hit(sent, stream, i) PROVE ~(i <= 32)
    <3>1. ~(i \in 1..32)
      BY <1>12, <2>1, Zenon
    <3>2. Len(sent) \in Nat
      BY <1>4
    <3> QED
      BY <3>1, <3>2
  <2>2. ASSUME NEW j \in 1..32 PROVE stream[j] = sent[j]
    <3>1. CASE ~damaged
      BY <1>3, <3>1 DEF Transit
    <3>2. CASE damaged
      <4>1. PICK i \in 1..Len(sent) : Hit(sent, stream, i)
        BY <1>3, <3>2 DEF Transit
      <4>2. j # i /\ j \in 1..Len(sent)
        BY <1>4, <2>1, <3>2, <4>1
      <4> QED
        BY <4>1, <4>2 DEF Hit
    <3> QED
      BY <3>1, <3>2
  <2>3. x = r
    <3>1. \A j \in 1..Len(r) : x[j] = r[j]
      BY <1>8, <1>9, <1>10, <2>2 DEF Begins
    <3> QED
      BY <1>9, <1>10, <3>1, SameBytes
  <2>4. /\ GoodHeader(x) /\ Decode(x, 4, 2) = h.version /\ Decode(x, 24, 4) = h.flags
        /\ Decode(x, 8, 8) = h.total_files /\ Decode(x, 16, 8) = h.total_bytes
    BY <1>7, <1>8, <2>3, HeaderRead
  <2>5. h = [version |-> h.version, flags |-> h.flags, total_files |-> h.total_files,
             total_bytes |-> h.total_bytes]
    BY <1>8 DEF HeaderOK
  <2>6. Got(h, 32) /\ UNCHANGED payload
    BY <1>10, <2>4, <2>5 DEF ReadSessionHeader
  <2>7. /\ got' = <<h>> /\ at' = 32 /\ written' = written /\ stream' = stream /\ damaged' = damaged
        /\ refused' = refused /\ left' = left /\ crc' = crc
    BY <1>3, <1>4, <2>6 DEF Got, payload
  <2>8. Transit(e, sent, written, stream, damaged, 1)
    <3>1. CASE ~damaged
      BY <1>3, <3>1 DEF Transit
    <3>2. CASE damaged
      <4>1. PICK i \in 1..Len(sent) : Spot(e, written, 0, i) /\ Hit(sent, stream, i)
        BY <1>3, <3>2 DEF Transit
      <4>2. Spot(e, written, 1, i)
        BY <2>1, <3>2, <4>1 DEF Spot
      <4> QED
        BY <1>4, <3>2, <4>1, <4>2 DEF Transit
    <3> QED
      BY <3>1, <3>2
  <2>9. Taken(e, written, damaged, <<h>>, 32, NoFile)
    <3>1. h \in Item
      BY <1>8, HeaderTypes
    <3>2. <<h>> \in Seq(Item) /\ Len(<<h>>) = 1 /\ <<h>>[1] = h
      BY <3>1
    <3>3. ASSUME NEW k \in 1..Len(<<h>>) PROVE <<h>>[k] = written[k]
      <4>1. k = 1
        BY <3>2
      <4> QED
        BY <1>6, <3>2, <4>1
    <3> QED
      BY <1>5, <1>6, <1>8, <3>2, <3>3 DEF Taken
  <2>10. Underway(e, written, stream, <<h>>, 32, NoFile, crc)
    BY DEF Underway
  <2>11. Snapshot(e, sent, written, stream, damaged, <<h>>, 32, NoFile, crc)
    <3>1. Len(<<h>>) = 1
      OBVIOUS
    <3> QED
      BY <1>3, <2>8, <2>9, <2>10, <3>1 DEF Snapshot
  <2>12. \E f, all : Snapshot(f, all, written', stream', damaged', got', at', left', crc')
    BY <1>3, <2>7, <2>11, Zenon
  <2>13. /\ written' \in Seq(Item) /\ damaged' \in BOOLEAN /\ at' \in Nat
         /\ refused' = "reader" => damaged'
    BY <1>2, <2>7
  <2> QED
    BY <2>12, <2>13 DEF IInv
<1> QED
  BY <1>11, <1>12

\* The item that is read next was written.
LEMMA NextItem ==
    ASSUME NEW e, NEW sent, Snapshot(e, sent, written, stream, damaged, got, at, left, crc), IInv,
           got # <<>>, left = NoFile, NEW n \in Nat \ {0}, Arrived(n)
    PROVE  /\ Len(got) \in Nat \ {0} /\ Len(got) + 1 \in 2..Len(written) /\ Len(got) \in 0..Len(written)
           /\ at = e[Len(got)] /\ got \in Seq(Item) /\ got[1] = written[1]
           /\ written[1].total_files \in Nat
           /\ stream \in Seq(Byte) /\ Len(stream) = Len(sent) /\ at + n <= Len(stream) /\ at \in Nat
           /\ \A k \in 1..Len(got) : got[k] = written[k] \/ (damaged /\ Unverified(got[k]))
<1>1. /\ Layout(e, sent, written) /\ Transit(e, sent, written, stream, damaged, Len(got))
      /\ Taken(e, written, damaged, got, at, left)
  BY DEF Snapshot
<1>2. /\ got \in Seq(Item) /\ Len(got) <= Len(written) /\ at = e[Len(got)]
      /\ \A k \in 1..Len(got) : got[k] = written[k] \/ (damaged /\ Unverified(got[k]))
      /\ Len(got) >= 1 => got[1] = written[1]
  BY <1>1 DEF Taken
<1>3. Len(got) \in Nat \ {0}
  BY <1>2
<1>4. /\ written \in Seq(Item) /\ Len(written) \in Nat /\ at \in Nat
  BY DEF IInv
<1>5. stream \in Seq(Byte) /\ Len(stream) = Len(sent) /\ Len(stream) \in Nat
  BY <1>1 DEF Transit
<1>6. at + n <= Len(stream)
  BY <1>4, <1>5 DEF Arrived
<1>7. Len(got) # Len(written)
  <2>1. Len(sent) = e[Len(written)]
    BY <1>1 DEF Layout
  <2>2. at # Len(sent)
    BY <1>4, <1>5, <1>6
  <2> QED
    BY <1>2, <2>1, <2>2
<1>8. Len(written) >= 1 /\ Len(got) >= 1
  BY <1>2, <1>3, <1>4
<1>9. written[1].total_files \in Nat
  BY <1>1, <1>4, <1>8, FirstPlace, HeaderTypes
<1> QED
  BY <1>2, <1>3, <1>4, <1>5, <1>6, <1>7, <1>8, <1>9

LEMMA ReadFileHeaderStep ==
    ASSUME IInv, ReadFileHeader
    PROVE  IInv'
<1>1. PICK e, sent : Snapshot(e, sent, written, stream, damaged, got, at, left, crc)
  BY DEF IInv
<1>2. got # <<>> /\ left = NoFile /\ Len(got) <= got[1].total_files /\ Arrived(18)
  BY DEF ReadFileHeader
<1>3. PICK n \in Nat : n = Len(got)
  BY <1>1 DEF Snapshot, Taken
<1>4. /\ n # 0 /\ n + 1 \in 2..Len(written) /\ n \in 0..Len(written)
      /\ at = e[n] /\ got \in Seq(Item) /\ got[1] = written[1]
      /\ written[1].total_files \in Nat
      /\ stream \in Seq(Byte) /\ Len(stream) = Len(sent) /\ at + 18 <= Len(stream) /\ at \in Nat
      /\ \A k \in 1..n : got[k] = written[k] \/ (damaged /\ Unverified(got[k]))
  <2>1. 18 \in Nat \ {0}
    OBVIOUS
  <2> QED
    BY <1>1, <1>2, <1>3, <2>1, NextItem
<1>5. /\ Layout(e, sent, written) /\ Transit(e, sent, written, stream, damaged, n)
      /\ Taken(e, written, damaged, got, at, left)
  BY <1>1, <1>3 DEF Snapshot
<1>6. written \in Seq(Item) /\ damaged \in BOOLEAN /\ (refused = "reader" => damaged)
  BY DEF IInv
<1>7. PICK k : k = n + 1
  OBVIOUS
<1>8. k \in 2..Len(written) /\ k - 1 = n /\ k <= written[1].total_files + 1 /\ k \in Nat
  BY <1>2, <1>3, <1>4, <1>7
<1>9. PICK f : f = written[k]
  OBVIOUS
<1>10. PICK p : p = Len(f.rel_path)
  OBVIOUS
<1>11. /\ FileOK(f) /\ e[k] \in Nat /\ e[k] = at + (18 + p + f.size) /\ e[k] <= Len(sent)
  BY <1>4, <1>5, <1>6, <1>8, <1>9, <1>10, RecordPlace
<1>12. /\ f \in FileRecord /\ f \in Item /\ f.size \in Nat /\ f.rel_path \in Seq(Byte) /\ p \in Nat
  BY <1>10, <1>11, FileTypes
<1>13. \A j \in 1..18 + p : stream[at + j] = Record(f)[j]
  <2>1. \A j \in 1..18 + Len(written[k].rel_path) : stream[e[k - 1] + j] = Record(written[k])[j]
    BY <1>4, <1>5, <1>6, <1>8, RecordArrives
  <2> QED
    BY <2>1, <1>4, <1>8, <1>9, <1>10
<1>14. PICK x : x = Here(18)
  OBVIOUS
<1>15. Begins(x, Record(f), 18)
  <2>1. PICK m \in Nat : m = 18
    OBVIOUS
  <2>2. at + m <= Len(stream)
    BY <1>4, <2>1
  <2>3. \A i \in 1..m : SubSeq(stream, at + 1, at + m)[i] = stream[at + i]
    BY <1>4, <2>2, ReadHere
  <2>4. ASSUME NEW i \in 1..18 PROVE x[i] = Record(f)[i]
    <3>1. x[i] = stream[at + i]
      BY <1>14, <2>1, <2>3 DEF Here
    <3>2. i \in 1..18 + p
      BY <1>12
    <3> QED
      BY <1>13, <3>1, <3>2
  <2> QED
    BY <2>4 DEF Begins
<1>16. /\ Decode(x, 0, 4) = Magic["FILE"] /\ Decode(x, 4, 2) = p
       /\ Decode(x, 6, 8) = f.size /\ DecodeSum(x, 14) = f.crc32
  BY <1>10, <1>11, <1>15, RecordRead
<1>17. SubSeq(stream, at + 19, at + 18 + p) = f.rel_path
  <2>1. PICK a \in Nat : a = at + 18
    BY <1>4
  <2>2. Holds(Record(f), 18, f.rel_path) /\ Len(Record(f)) = 18 + p + f.size
    BY <1>10, <1>11, RecordLayout, FileTypes
  <2>3. ASSUME NEW i \in 1..p PROVE stream[a + i] = f.rel_path[i]
    <3>1. PICK j : j = 18 + i
      OBVIOUS
    <3>2. j \in 1..18 + p /\ at + j = a + i
      <4>1. p \in Nat /\ at \in Nat
        BY <1>4, <1>12
      <4> QED
        BY <2>1, <3>1, <4>1
    <3>3. stream[at + j] = Record(f)[j]
      BY <1>13, <3>2
    <3>4. Record(f)[j] = f.rel_path[i]
      BY <1>10, <2>2, <3>1 DEF Holds
    <3> QED
      BY <3>2, <3>3, <3>4
  <2>4. Holds(stream, a, f.rel_path)
    BY <1>10, <2>3 DEF Holds
  <2>5. a + p <= Len(stream)
    <3>1. PICK m : m = Len(stream) /\ e[k] <= m
      BY <1>4, <1>11
    <3>2. PICK z \in Nat : z = f.size
      BY <1>12
    <3>3. at \in Nat /\ p \in Nat /\ m \in Nat /\ at + (18 + p + z) <= m
      BY <1>4, <1>11, <1>12, <3>1, <3>2
    <3>4. a + p <= m
      BY <2>1, <3>2, <3>3
    <3> QED
      BY <3>1, <3>4
  <2>6. SubSeq(stream, a + 1, a + Len(f.rel_path)) = f.rel_path
    BY <1>4, <1>10, <1>12, <2>4, <2>5, HeldPart
  <2>7. a + 1 = at + 19 /\ a + p = at + 18 + p
    BY <1>4, <1>12, <2>1
  <2> QED
    BY <1>10, <2>6, <2>7
<1>18. PICK g : g = [f EXCEPT !.payload = <<>>]
  OBVIOUS
<1>19. /\ g = [rel_path |-> f.rel_path, size |-> f.size, crc32 |-> f.crc32, payload |-> <<>>]
       /\ g \in Item /\ g.payload = <<>>
  <2>1. f = [rel_path |-> f.rel_path, size |-> f.size, crc32 |-> f.crc32, payload |-> f.payload]
    BY <1>12 DEF FileRecord
  <2>2. g = [rel_path |-> f.rel_path, size |-> f.size, crc32 |-> f.crc32, payload |-> <<>>]
    BY <1>18, <2>1
  <2>3. <<>> \in Seq(Byte)
    OBVIOUS
  <2>4. g \in FileRecord /\ g.payload = <<>>
    BY <1>12, <2>2, <2>3 DEF FileRecord
  <2> QED
    BY <2>2, <2>4 DEF Item
<1>20. Got(g, 18 + p) /\ left' = f.size /\ crc' = Fresh
  BY <1>14, <1>16, <1>17, <1>19, Zenon DEF ReadFileHeader
<1>21. /\ got' = Append(got, g) /\ at' = at + (18 + p) /\ written' = written /\ stream' = stream
       /\ damaged' = damaged /\ refused' = refused
  BY <1>20 DEF Got
<1>22. /\ Append(got, g) \in Seq(Item) /\ Len(Append(got, g)) = k /\ Append(got, g)[k] = g
       /\ \A j \in 1..n : Append(got, g)[j] = got[j]
  BY <1>3, <1>4, <1>7, <1>19
<1>23. PICK have : have = Append(got, g)
  OBVIOUS
<1>24. PICK pos \in Nat : pos = at + (18 + p)
  BY <1>4, <1>12
<1>25. f.size # NoFile /\ pos = e[k] - f.size
  <2>1. PICK z \in Nat : z = f.size
    BY <1>12
  <2>2. z # NoFile
    BY DEF NoFile
  <2>3. PICK b : b = e[k]
    OBVIOUS
  <2>4. b = at + (18 + p + z) /\ at \in Nat /\ p \in Nat
    BY <1>4, <1>11, <1>12, <2>1, <2>3
  <2>5. pos = b - z
    BY <1>24, <2>4
  <2> QED
    BY <2>1, <2>2, <2>3, <2>5
<1>26. Transit(e, sent, written, stream, damaged, k)
  BY <1>4, <1>5, TransitStays
<1>27. Taken(e, written, damaged, have, pos, f.size)
  <2>1. ASSUME NEW j \in 1..k, j < k PROVE have[j] = written[j] \/ (damaged /\ Unverified(have[j]))
    <3>1. j \in 1..n
      BY <1>7, <1>8, <2>1
    <3> QED
      BY <1>4, <1>22, <1>23, <3>1
  <2>2. have[1] = written[1] /\ k <= Len(written)
    <3>1. 1 \in 1..n
      BY <1>4
    <3> QED
      BY <1>4, <1>8, <1>22, <1>23, <3>1
  <2> QED
    BY <1>22, <1>23, <1>25, <2>1, <2>2 DEF Taken
<1>28. Underway(e, written, stream, have, pos, f.size, Fresh)
  <2>1. SubSeq(stream, e[k] - f.size + 1, pos) = <<>>
    <3>1. PICK a \in Int : a = e[k] - f.size + 1
      BY <1>24, <1>25
    <3>2. pos < a /\ pos \in Int
      BY <1>24, <1>25, <3>1
    <3> QED
      BY <3>1, <3>2, SubSeqEmpty
  <2>2. have[k] = [f EXCEPT !.payload = SubSeq(stream, e[k] - f.size + 1, pos)]
    BY <1>18, <1>22, <1>23, <2>1
  <2>3. Fresh = Updated(Fresh, have[k].payload)
    <3>1. Fresh \in SUBSET Bits
      BY DEF Fresh
    <3> QED
      BY <1>19, <1>22, <1>23, <3>1, UpdatedNothing
  <2>4. f.size <= f.size /\ k >= 2
    BY <1>8, <1>12
  <2> QED
    BY <1>8, <1>9, <1>12, <1>22, <1>23, <1>25, <2>2, <2>3, <2>4, Zenon DEF Underway
<1>29. Snapshot(e, sent, written, stream, damaged, have, pos, f.size, Fresh)
  BY <1>5, <1>22, <1>23, <1>26, <1>27, <1>28 DEF Snapshot
<1>30. \E b, all : Snapshot(b, all, written', stream', damaged', got', at', left', crc')
  BY <1>20, <1>21, <1>23, <1>24, <1>29, Zenon
<1>31. /\ written' \in Seq(Item) /\ damaged' \in BOOLEAN /\ at' \in Nat
       /\ refused' = "reader" => damaged'
  BY <1>6, <1>21, <1>24
<1> QED
  BY <1>30, <1>31 DEF IInv

\* The payload being read: record k, f as it was written, from byte a on.
Receiving(e, sent, k, f, a) ==
    /\ k \in 2..Len(written) /\ k = Len(got) /\ k <= written[1].total_files + 1
    /\ f = written[k] /\ FileOK(f) /\ f \in FileRecord /\ f.size \in Nat /\ f.size = Len(f.payload)
    /\ stream \in Seq(Byte) /\ Len(stream) = Len(sent) /\ e[k] \in Nat /\ e[k] <= Len(stream)
    /\ a \in Nat /\ e[k] = a + f.size /\ Holds(sent, a, f.payload) /\ Holds(sent, e[k - 1], Record(f))
    /\ left \in Nat /\ left <= f.size /\ at = e[k] - left /\ at \in Nat /\ a <= at /\ at <= e[k]
    /\ got \in Seq(Item) /\ got[1] = written[1]
    /\ \A j \in 1..k : j < k => got[j] = written[j] \/ (damaged /\ Unverified(got[j]))
    /\ got[k] = [f EXCEPT !.payload = SubSeq(stream, a + 1, at)]
    /\ crc = Updated(Fresh, got[k].payload)

LEMMA InPayload ==
    ASSUME NEW e, NEW sent, Snapshot(e, sent, written, stream, damaged, got, at, left, crc), IInv,
           left # NoFile
    PROVE  \E k, f, a : Receiving(e, sent, k, f, a)
<1>1. /\ Layout(e, sent, written) /\ Transit(e, sent, written, stream, damaged, Len(got))
      /\ Taken(e, written, damaged, got, at, left) /\ written \in Seq(Item)
      /\ Underway(e, written, stream, got, at, left, crc)
  BY DEF Snapshot, IInv
<1>2. PICK k \in Nat : k = Len(got)
  BY <1>1 DEF Taken
<1>3. PICK f : f = written[k]
  OBVIOUS
<1>4. /\ left \in Nat /\ k >= 2 /\ k <= written[1].total_files + 1
      /\ left <= f.size /\ at = e[k] - left
      /\ got[k] = [f EXCEPT !.payload = SubSeq(stream, e[k] - f.size + 1, at)]
      /\ crc = Updated(Fresh, got[k].payload)
  BY <1>1, <1>2, <1>3, Zenon DEF Underway
<1>5. /\ got \in Seq(Item) /\ k <= Len(written) /\ got[1] = written[1]
      /\ \A j \in 1..k : j < k => got[j] = written[j] \/ (damaged /\ Unverified(got[j]))
  <2>1. k >= 1
    BY <1>4
  <2> QED
    BY <1>1, <1>2, <2>1 DEF Taken
<1>6. k \in 2..Len(written)
  <2>1. k \in Nat /\ k >= 2 /\ k <= Len(written)
    BY <1>2, <1>4, <1>5, Zenon
  <2>2. Len(written) \in Nat
    BY <1>1
  <2> QED
    BY <2>1, <2>2
<1>7. /\ FileOK(f) /\ e[k - 1] \in Nat /\ e[k] \in Nat /\ e[k] <= Len(sent)
      /\ e[k] = e[k - 1] + (18 + Len(f.rel_path) + f.size)
      /\ Holds(sent, e[k - 1], Record(f))
  <2>1. written \in Seq(Item) /\ Layout(e, sent, written) /\ k <= written[1].total_files + 1
    BY <1>1, <1>4, Zenon
  <2> QED
    BY <1>3, <1>6, <2>1, RecordPlace
<1>8. /\ f \in FileRecord /\ f.size \in Nat /\ f.size = Len(f.payload) /\ f.payload \in Seq(Byte)
      /\ Len(f.rel_path) \in Nat
  BY <1>7, FileTypes
<1>9. PICK m \in Nat, p \in Nat, z \in Nat, b \in Nat :
          m = e[k - 1] /\ p = Len(f.rel_path) /\ z = f.size /\ b = e[k]
  BY <1>7, <1>8, Zenon
<1>10. PICK a : a = m + (18 + p)
  OBVIOUS
<1>11. a \in Nat /\ b = a + z /\ b - z + 1 = a + 1
  <2>1. e[k] = e[k - 1] + (18 + Len(f.rel_path) + f.size)
    BY <1>7
  <2>2. b = m + (18 + p + z)
    BY <1>9, <2>1, Zenon
  <2>3. m \in Nat /\ p \in Nat /\ z \in Nat
    BY <1>9, Zenon
  <2> QED
    BY <1>10, <2>2, <2>3
<1>12. Holds(sent, a, f.payload)
  <2>1. PICK c \in Nat : c = 18 + p /\ a = m + c
    BY <1>9, <1>10
  <2>2. /\ Record(f) \in Seq(Byte) /\ Len(Record(f)) = 18 + p + z
        /\ Holds(Record(f), 18 + p, f.payload)
    BY <1>7, <1>8, <1>9, RecordLayout
  <2>3. Holds(Record(f), c, f.payload) /\ c + Len(f.payload) <= Len(Record(f))
    BY <1>8, <1>9, <2>1, <2>2
  <2>4. Holds(sent, m, Record(f))
    BY <1>7, <1>9
  <2> QED
    BY <1>8, <1>9, <2>1, <2>2, <2>3, <2>4, HoldsPart
<1>13. at \in Nat /\ a <= at /\ at <= b
  <2>1. left \in Nat /\ left <= f.size /\ at = e[k] - left
    BY <1>4
  <2>2. left \in Nat /\ left <= z /\ at = b - left
    BY <1>9, <2>1, Zenon
  <2>3. z \in Nat /\ b = a + z /\ a \in Nat
    BY <1>9, <1>11, Zenon
  <2> QED
    BY <2>2, <2>3
<1>14. stream \in Seq(Byte) /\ Len(stream) = Len(sent)
  BY <1>1 DEF Transit
<1>15. got[k] = [f EXCEPT !.payload = SubSeq(stream, a + 1, at)]
  BY <1>4, <1>9, <1>11
<1>16. Receiving(e, sent, k, f, a)
  <2>1. e[k] = a + f.size /\ e[k] <= Len(stream) /\ at <= e[k]
    BY <1>7, <1>9, <1>11, <1>13, <1>14
  <2> QED
    BY <1>2, <1>3, <1>4, <1>5, <1>6, <1>7, <1>8, <1>11, <1>12, <1>13, <1>14, <1>15, <2>1, Zenon
       DEF Receiving
<1> QED
  BY <1>16

LEMMA ReceivePayloadStep ==
    ASSUME IInv, ReceivePayload
    PROVE  IInv'
<1>1. PICK e, sent : Snapshot(e, sent, written, stream, damaged, got, at, left, crc)
  BY DEF IInv
<1>2. left > 0 /\ left # NoFile
  BY DEF ReceivePayload, NoFile
<1>3. PICK k, f, a : Receiving(e, sent, k, f, a)
  BY <1>1, <1>2, InPayload
<1>4. /\ k \in 2..Len(written) /\ k = Len(got) /\ k <= written[1].total_files + 1 /\ k \in Nat
      /\ f = written[k] /\ f \in FileRecord /\ f.size \in Nat
      /\ stream \in Seq(Byte) /\ e[k] \in Nat /\ e[k] <= Len(stream)
      /\ a \in Nat /\ e[k] = a + f.size
      /\ left \in Nat /\ left <= f.size /\ at = e[k] - left /\ at \in Nat /\ a <= at /\ at <= e[k]
      /\ got \in Seq(Item) /\ got[1] = written[1]
      /\ \A j \in 1..k : j < k => got[j] = written[j] \/ (damaged /\ Unverified(got[j]))
      /\ got[k] = [f EXCEPT !.payload = SubSeq(stream, a + 1, at)]
      /\ crc = Updated(Fresh, got[k].payload)
  BY <1>3 DEF Receiving
<1>5. PICK want : /\ want = IF left < Buf THEN left ELSE Buf
                  /\ got' = [got EXCEPT ![Len(got)].payload = @ \o Here(want)]
                  /\ crc' = Updated(crc, Here(want)) /\ left' = left - want /\ at' = at + want
                  /\ written' = written /\ stream' = stream /\ damaged' = damaged /\ refused' = refused
  BY DEF ReceivePayload, Absorb
<1>6. want \in Nat \ {0} /\ want <= left
  <2>1. left \in Nat /\ left > 0 /\ want = IF left < Buf THEN left ELSE Buf
    BY <1>2, <1>4, <1>5, Zenon
  <2>2. Buf \in Nat \ {0}
    BY CodecAssumption, Zenon
  <2> QED
    BY <2>1, <2>2
<1>7. PICK pos \in Nat, rest \in Nat :
          /\ pos = at + want /\ rest = left - want /\ at <= pos /\ pos = e[k] - rest /\ rest <= f.size
          /\ pos <= Len(stream) /\ pos <= e[k]
  <2>1. PICK b \in Nat : b = e[k]
    BY <1>4, Zenon
  <2>2. PICK z \in Nat : z = f.size
    BY <1>4, Zenon
  <2>3. PICK n \in Nat : n = Len(stream)
    <3>1. stream \in Seq(Byte)
      BY <1>4, Zenon
    <3> QED
      BY <3>1
  <2>4. left <= z /\ at = b - left /\ left \in Nat /\ at \in Nat /\ b <= n
    <3>1. left <= f.size /\ at = e[k] - left /\ left \in Nat /\ at \in Nat /\ e[k] <= Len(stream)
      BY <1>4, Zenon
    <3> QED
      BY <2>1, <2>2, <2>3, <3>1, Zenon
  <2>5. /\ at + want \in Nat /\ left - want \in Nat /\ at <= at + want /\ at + want = b - (left - want)
        /\ left - want <= z /\ at + want <= n /\ at + want <= b
    BY <1>6, <2>4
  <2> QED
    BY <2>1, <2>2, <2>3, <2>5, Zenon
<1>8. PICK p \in Seq(Byte) : p = SubSeq(stream, a + 1, at)
  <2>1. stream \in Seq(Byte) /\ a \in Nat /\ at \in Nat /\ a <= at /\ at <= pos /\ pos <= Len(stream)
    BY <1>4, <1>7, Zenon
  <2>2. at <= Len(stream)
    BY <2>1
  <2> QED
    BY <2>1, <2>2, PartOfStream, Zenon
<1>9. PICK q \in Seq(Byte) : q = Here(want) /\ q = SubSeq(stream, at + 1, pos)
  <2>1. SubSeq(stream, at + 1, pos) \in Seq(Byte)
    BY <1>4, <1>7, PartOfStream
  <2> QED
    BY <1>7, <2>1 DEF Here
<1>10. p \o q = SubSeq(stream, a + 1, pos) /\ p \o q \in Seq(Byte)
  <2>1. stream \in Seq(Byte) /\ a \in Nat /\ at \in Nat /\ a <= at
    BY <1>4, Zenon
  <2>2. pos \in Nat /\ at <= pos /\ pos <= Len(stream)
    BY <1>7, Zenon
  <2>3. SubSeq(stream, a + 1, at) \o SubSeq(stream, at + 1, pos) = SubSeq(stream, a + 1, pos)
    BY <2>1, <2>2, JoinParts
  <2>4. p \o q \in Seq(Byte)
    BY Cat
  <2> QED
    BY <1>8, <1>9, <2>3, <2>4, Zenon
<1>11. got[k].payload = p /\ f = [rel_path |-> f.rel_path, size |-> f.size, crc32 |-> f.crc32, payload |-> f.payload]
  BY <1>4, <1>8 DEF FileRecord
<1>12. PICK g : g = [f EXCEPT !.payload = p \o q]
  OBVIOUS
<1>13. g \in Item /\ g.payload = p \o q
  <2>1. g = [rel_path |-> f.rel_path, size |-> f.size, crc32 |-> f.crc32, payload |-> p \o q]
    BY <1>11, <1>12
  <2>2. g \in FileRecord /\ g.payload = p \o q
    BY <1>4, <1>10, <2>1 DEF FileRecord
  <2> QED
    BY <2>2 DEF Item
<1>14. [got[k] EXCEPT !.payload = p \o q] = g
  BY <1>4, <1>8, <1>11, <1>12
<1>15. PICK have : have = got'
  OBVIOUS
<1>16. /\ have \in Seq(Item) /\ Len(have) = k /\ have[k] = g /\ \A j \in 1..k : j # k => have[j] = got[j]
  <2>1. have = [got EXCEPT ![k] = [got[k] EXCEPT !.payload = got[k].payload \o q]]
    BY <1>4, <1>5, <1>9, <1>15
  <2>2. have = [got EXCEPT ![k] = g]
    BY <1>11, <1>14, <2>1
  <2>3. k \in 1..Len(got)
    BY <1>4
  <2> QED
    BY <1>4, <1>13, <2>2, <2>3
<1>17. PICK word : word = Updated(Fresh, p \o q)
  OBVIOUS
<1>18. crc' = word
  <2>1. Fresh \in SUBSET Bits
    BY DEF Fresh
  <2>2. crc = Updated(Fresh, p)
    BY <1>4, <1>11
  <2>3. Updated(Updated(Fresh, p), q) = Updated(Fresh, p \o q)
    BY <2>1, UpdatedConcat
  <2> QED
    BY <1>5, <1>9, <1>17, <2>2, <2>3
<1>19. /\ Layout(e, sent, written) /\ Transit(e, sent, written, stream, damaged, k)
       /\ Taken(e, written, damaged, got, at, left)
  BY <1>1, <1>4 DEF Snapshot
<1>20. rest # NoFile
  BY DEF NoFile
<1>21. Taken(e, written, damaged, have, pos, rest)
  <2>1. ASSUME NEW j \in 1..k, j < k PROVE have[j] = written[j] \/ (damaged /\ Unverified(have[j]))
    BY <1>4, <1>16, <2>1
  <2>2. have[1] = written[1]
    <3>1. 1 \in 1..k /\ 1 # k
      <4>1. k \in 2..Len(written)
        BY <1>4, Zenon
      <4> QED
        BY <4>1
    <3>2. got[1] = written[1]
      BY <1>4, Zenon
    <3> QED
      BY <1>16, <3>1, <3>2, Zenon
  <2>3. k <= Len(written)
    <3>1. k \in 2..Len(written)
      BY <1>4, Zenon
    <3> QED
      BY <3>1
  <2> QED
    BY <1>16, <1>20, <2>1, <2>2, <2>3 DEF Taken
<1>22. Underway(e, written, stream, have, pos, rest, word)
  <2>1. e[k] - f.size + 1 = a + 1 /\ k >= 2
    <3>1. PICK b \in Nat, z \in Nat : b = e[k] /\ z = f.size
      BY <1>4
    <3>2. b = a + z /\ a \in Nat
      BY <1>4, <3>1
    <3>3. b - z + 1 = a + 1
      BY <3>2
    <3> QED
      BY <1>4, <3>1, <3>3
  <2>2. have[k] = [f EXCEPT !.payload = SubSeq(stream, e[k] - f.size + 1, pos)]
    BY <1>10, <1>12, <1>16, <2>1
  <2>3. word = Updated(Fresh, have[k].payload)
    BY <1>13, <1>16, <1>17
  <2> QED
    BY <1>4, <1>7, <1>16, <2>1, <2>2, <2>3, Zenon DEF Underway
<1>23. Snapshot(e, sent, written, stream, damaged, have, pos, rest, word)
  BY <1>16, <1>19, <1>21, <1>22 DEF Snapshot
<1>24. \E b, all : Snapshot(b, all, written', stream', damaged', got', at', left', crc')
  BY <1>5, <1>7, <1>15, <1>18, <1>23, Zenon
<1>25. /\ written' \in Seq(Item) /\ damaged' \in BOOLEAN /\ at' \in Nat
       /\ refused' = "reader" => damaged'
  BY <1>5, <1>7 DEF IInv
<1> QED
  BY <1>24, <1>25 DEF IInv

\* A payload arrives as it was written or with one wrong byte, which its
\* checksum tells.
LEMMA PayloadArrives ==
    ASSUME NEW e, NEW sent \in Seq(Byte), NEW items, NEW buf, NEW hurt, NEW done,
           Transit(e, sent, items, buf, hurt, done),
           NEW c \in Seq(Byte), NEW a \in Nat, Holds(sent, a, c), a + Len(c) <= Len(sent),
           NEW part, part = SubSeq(buf, a + 1, a + Len(c)), part # c
    PROVE  Compute(part) # Compute(c)
<1>1. buf \in Seq(Byte) /\ Len(buf) = Len(sent)
  BY DEF Transit
<1>2. PICK n \in Nat : n = Len(c)
  OBVIOUS
<1>3. a + n <= Len(buf) /\ a + n <= Len(sent)
  BY <1>1, <1>2
<1>4. PICK x \in Seq(Byte) : /\ x = SubSeq(buf, a + 1, a + n) /\ Len(x) = n
                             /\ \A i \in 1..n : x[i] = buf[a + i]
  BY <1>1, <1>3, ReadHere
<1>5. \A i \in 1..n : sent[a + i] = c[i]
  BY <1>2 DEF Holds
<1>6. CASE ~hurt
  <2>1. buf = sent
    BY <1>6 DEF Transit
  <2>2. part = c
    BY <2>1, HeldPart
  <2> QED
    BY <2>2
<1>7. CASE hurt
  <2>1. PICK p \in 1..Len(sent) : Hit(sent, buf, p)
    BY <1>7, Zenon DEF Transit
  <2>2. PICK m \in Nat : m = Len(sent)
    OBVIOUS
  <2>3. p \in Nat /\ a + n <= m /\ buf[p] # sent[p] /\ \A j \in 1..m : j # p => buf[j] = sent[j]
    BY <1>3, <2>1, <2>2 DEF Hit
  <2>4. ASSUME NEW i \in 1..n, a + i # p PROVE x[i] = c[i]
    <3>1. a + i \in 1..m
      BY <2>3
    <3> QED
      BY <1>4, <1>5, <2>3, <2>4, <3>1
  <2>5. CASE p \in a + 1..a + n
    <3>1. PICK i \in 1..n : a + i = p
      <4>1. p - a \in 1..n /\ a + (p - a) = p
        BY <2>3, <2>5
      <4> QED
        BY <4>1
    <3>2. x[i] # c[i]
      <4>1. x[i] = buf[p] /\ c[i] = sent[p]
        BY <1>4, <1>5, <3>1
      <4> QED
        BY <2>3, <4>1
    <3>3. \A j \in 1..n : j # i => x[j] = c[j]
      <4>1. ASSUME NEW j \in 1..n, j # i PROVE a + j # p
        BY <3>1, <4>1
      <4> QED
        BY <2>4, <4>1
    <3>4. Compute(x) # Compute(c)
      BY <1>2, <1>4, <3>2, <3>3, OneWrongByte
    <3>5. part = x
      BY <1>2, <1>4
    <3> QED
      BY <1>7, <3>4, <3>5, Zenon
  <2>6. CASE p \notin a + 1..a + n
    <3>1. \A i \in 1..n : x[i] = c[i]
      <4>1. ASSUME NEW i \in 1..n PROVE a + i # p
        BY <2>6, <4>1
      <4> QED
        BY <2>4, <4>1
    <3>2. x = c
      BY <1>2, <1>4, <3>1, SameBytes
    <3>3. part = x
      BY <1>2, <1>4
    <3> QED
      BY <3>2, <3>3, Zenon
  <2> QED
    BY <2>5, <2>6
<1> QED
  BY <1>6, <1>7

LEMMA FinishPayloadStep ==
    ASSUME IInv, FinishPayload
    PROVE  IInv'
<1>1. PICK e, sent : Snapshot(e, sent, written, stream, damaged, got, at, left, crc)
  BY DEF IInv
<1>2. left = 0 /\ left # NoFile
  BY DEF FinishPayload, NoFile
<1>3. PICK k, f, a : Receiving(e, sent, k, f, a)
  BY <1>1, <1>2, InPayload
<1>4. /\ k \in 2..Len(written) /\ k = Len(got) /\ f = written[k] /\ FileOK(f) /\ f \in FileRecord
      /\ f.size \in Nat /\ f.size = Len(f.payload)
      /\ stream \in Seq(Byte) /\ Len(stream) = Len(sent) /\ e[k] \in Nat /\ e[k] <= Len(stream)
      /\ a \in Nat /\ e[k] = a + f.size /\ Holds(sent, a, f.payload)
      /\ left \in Nat /\ at = e[k] - left
      /\ got \in Seq(Item) /\ got[1] = written[1]
      /\ \A j \in 1..k : j < k => got[j] = written[j] \/ (damaged /\ Unverified(got[j]))
      /\ got[k] = [f EXCEPT !.payload = SubSeq(stream, a + 1, at)]
      /\ crc = Updated(Fresh, got[k].payload)
  BY <1>3, Zenon DEF Receiving
<1>5. /\ Layout(e, sent, written) /\ Transit(e, sent, written, stream, damaged, k)
      /\ Taken(e, written, damaged, got, at, left) /\ written \in Seq(Item)
  BY <1>1, <1>4, Zenon DEF Snapshot, IInv
<1>6. sent \in Seq(Byte)
  BY <1>5 DEF Layout
<1>7. PICK z \in Nat, b \in Nat : z = Len(f.payload) /\ b = e[k] /\ b = a + z /\ b <= Len(sent) /\ at = b
  <2>1. at = e[k]
    BY <1>2, <1>4
  <2>2. e[k] \in Nat /\ Len(f.payload) \in Nat /\ e[k] = a + Len(f.payload) /\ e[k] <= Len(sent)
    BY <1>4, Zenon
  <2> QED
    BY <2>1, <2>2, Zenon
<1>8. PICK c \in Seq(Byte) : c = f.payload /\ Compute(c) = f.crc32
  BY <1>4, FileTypes
<1>9. PICK x : x = SubSeq(stream, a + 1, a + Len(c))
  OBVIOUS
<1>10. x = c \/ (damaged /\ Compute(x) # Compute(c))
  <2>1. Holds(sent, a, c) /\ a + Len(c) <= Len(sent) /\ a \in Nat
    BY <1>4, <1>7, <1>8, Zenon
  <2> QED
    <3>1. Transit(e, sent, written, stream, damaged, k) /\ sent \in Seq(Byte) /\ c \in Seq(Byte)
      BY <1>5, <1>6, <1>8, Zenon
    <3>2. ASSUME x # c PROVE Compute(x) # Compute(c)
      BY <1>9, <2>1, <3>1, <3>2, PayloadArrives
    <3>3. ASSUME ~damaged PROVE x = c
      <4>1. stream = sent
        BY <1>5, <3>3 DEF Transit
      <4> QED
        BY <1>9, <2>1, <3>1, <4>1, HeldPart
    <3> QED
      BY <3>2, <3>3
<1>11. got[k] = [f EXCEPT !.payload = x]
  BY <1>4, <1>7, <1>8, <1>9, Zenon
<1>12. f = [rel_path |-> f.rel_path, size |-> f.size, crc32 |-> f.crc32, payload |-> f.payload]
  BY <1>4 DEF FileRecord
<1>13. got[k] = [rel_path |-> f.rel_path, size |-> f.size, crc32 |-> f.crc32, payload |-> x]
  BY <1>11, <1>12
<1>14. got[k].crc32 = Compute(c) /\ got[k].payload = x /\ "crc32" \in DOMAIN got[k]
  BY <1>8, <1>13
<1>15. Final(crc) = Compute(x)
  BY <1>4, <1>14 DEF Compute
<1>16. x = c => got[k] = f
  BY <1>8, <1>12, <1>13
<1>17. CASE got[k].crc32 \notin {{}, Final(crc)}
  <2>1. Refuse("reader")
    BY <1>4, <1>17 DEF FinishPayload
  <2>2. damaged
    BY <1>10, <1>14, <1>15, <1>17
  <2> QED
    BY <2>1, <2>2, RefuseStep
<1>18. CASE got[k].crc32 \in {{}, Final(crc)}
  <2>1. /\ left' = NoFile /\ written' = written /\ stream' = stream /\ damaged' = damaged
        /\ got' = got /\ at' = at /\ crc' = crc /\ refused' = refused
    BY <1>4, <1>18 DEF FinishPayload
  <2>2. got[k] = written[k] \/ (damaged /\ Unverified(got[k]))
    <3>1. CASE x = c
      BY <1>4, <1>16, <3>1
    <3>2. CASE x # c
      <4>1. damaged /\ Compute(x) # Compute(c)
        BY <1>10, <3>2
      <4>2. got[k].crc32 = {}
        BY <1>14, <1>15, <1>18, <4>1
      <4> QED
        BY <1>14, <4>1, <4>2 DEF Unverified
    <3> QED
      BY <3>1, <3>2
  <2>3. \A j \in 1..k : got[j] = written[j] \/ (damaged /\ Unverified(got[j]))
    <3>1. ASSUME NEW j \in 1..k PROVE j < k \/ j = k
      BY <1>4
    <3>2. \A j \in 1..k : j < k => got[j] = written[j] \/ (damaged /\ Unverified(got[j]))
      BY <1>4, Zenon
    <3> QED
      BY <2>2, <3>1, <3>2
  <2>4. Taken(e, written, damaged, got, at, NoFile)
    <3>1. at = e[k]
      BY <1>7
    <3>2. got \in Seq(Item) /\ Len(got) <= Len(written) /\ got[1] = written[1]
      BY <1>4, <1>5 DEF Taken
    <3> QED
      BY <1>4, <2>3, <3>1, <3>2, Zenon DEF Taken
  <2>5. Underway(e, written, stream, got, at, NoFile, crc)
    BY DEF Underway
  <2>6. Snapshot(e, sent, written, stream, damaged, got, at, NoFile, crc)
    BY <1>4, <1>5, <2>4, <2>5, Zenon DEF Snapshot
  <2>7. \E g, all : Snapshot(g, all, written', stream', damaged', got', at', left', crc')
    BY <2>1, <2>6, Zenon
  <2>8. /\ written' \in Seq(Item) /\ damaged' \in BOOLEAN /\ at' \in Nat
        /\ refused' = "reader" => damaged'
    BY <2>1 DEF IInv
  <2> QED
    BY <2>7, <2>8 DEF IInv
<1> QED
  BY <1>17, <1>18

LEMMA ReadDoneStep ==
    ASSUME IInv, ReadDone
    PROVE  IInv'
<1>1. PICK e, sent : Snapshot(e, sent, written, stream, damaged, got, at, left, crc)
  BY DEF IInv
<1>2. got # <<>> /\ left = NoFile /\ Len(got) = got[1].total_files + 1 /\ Arrived(4)
  BY DEF ReadDone
<1>3. PICK n \in Nat : n = Len(got)
  BY <1>1 DEF Snapshot, Taken
<1>4. /\ n # 0 /\ n + 1 \in 2..Len(written) /\ n \in 0..Len(written)
      /\ at = e[n] /\ got \in Seq(Item) /\ got[1] = written[1]
      /\ written[1].total_files \in Nat
      /\ stream \in Seq(Byte) /\ Len(stream) = Len(sent) /\ at + 4 <= Len(stream) /\ at \in Nat
      /\ \A k \in 1..n : got[k] = written[k] \/ (damaged /\ Unverified(got[k]))
  <2>1. 4 \in Nat \ {0}
    OBVIOUS
  <2> QED
    BY <1>1, <1>2, <1>3, <2>1, NextItem
<1>5. /\ Layout(e, sent, written) /\ Transit(e, sent, written, stream, damaged, n)
      /\ Taken(e, written, damaged, got, at, left)
  BY <1>1, <1>3 DEF Snapshot
<1>6. written \in Seq(Item) /\ damaged \in BOOLEAN /\ (refused = "reader" => damaged)
  BY DEF IInv
<1>7. PICK k : k = n + 1
  OBVIOUS
<1>8. k \in 2..Len(written) /\ k - 1 = n /\ ~(k <= written[1].total_files + 1) /\ k \in Nat
  <2>1. PICK m \in Nat : m = written[1].total_files
    BY <1>4, Zenon
  <2>2. n = m + 1
    BY <1>2, <1>3, <1>4, <2>1, Zenon
  <2>3. k \in 2..Len(written)
    BY <1>4, <1>7, Zenon
  <2>4. k - 1 = n /\ ~(k <= m + 1) /\ k \in Nat
    BY <1>7, <2>1, <2>2
  <2> QED
    BY <2>1, <2>3, <2>4, Zenon
<1>9. PICK d : d = Encode(Magic["DONE"], 4) /\ Len(d) = 4
  BY DoneBytes
<1>10. written[k] = Done /\ e[k] = at + 4 /\ \A j \in 1..4 : stream[at + j] = d[j]
  BY <1>4, <1>5, <1>6, <1>8, <1>9, DoneArrives
<1>11. PICK x : x = Here(4)
  OBVIOUS
<1>12. Holds(x, 0, d)
  <2>1. PICK m \in Nat : m = 4
    OBVIOUS
  <2>2. at + m <= Len(stream)
    BY <1>4, <2>1
  <2>3. \A i \in 1..m : SubSeq(stream, at + 1, at + m)[i] = stream[at + i]
    BY <1>4, <2>2, ReadHere
  <2>4. ASSUME NEW i \in 1..4 PROVE x[0 + i] = d[i]
    <3>1. 0 + i = i
      OBVIOUS
    <3>2. x[i] = stream[at + i]
      BY <1>11, <2>1, <2>3 DEF Here
    <3> QED
      BY <1>10, <3>1, <3>2
  <2> QED
    BY <1>9, <2>4 DEF Holds
<1>13. Decode(x, 0, 4) = Magic["DONE"]
  <2>1. Magic["DONE"] \in 0..Worth[4] - 1
    BY NumberTypes, MagicTypes, Zenon
  <2> QED
    BY <1>9, <1>12, <2>1, DecodeHeld
<1>14. /\ got' = Append(got, Done) /\ at' = at + 4 /\ written' = written /\ stream' = stream
       /\ damaged' = damaged /\ refused' = refused /\ left' = left /\ crc' = crc
  BY <1>11, <1>13 DEF ReadDone, Got, payload
<1>15. PICK have : have = Append(got, Done)
  OBVIOUS
<1>16. /\ have \in Seq(Item) /\ Len(have) = k /\ have[k] = Done /\ \A j \in 1..n : have[j] = got[j]
  <2>1. Done \in Item
    BY DEF Item
  <2> QED
    BY <1>3, <1>4, <1>7, <1>15, <2>1
<1>17. PICK pos \in Nat : pos = at + 4 /\ pos = e[k]
  BY <1>4, <1>10
<1>18. Transit(e, sent, written, stream, damaged, k)
  BY <1>4, <1>5, TransitStays
<1>19. Taken(e, written, damaged, have, pos, NoFile)
  <2>1. ASSUME NEW j \in 1..k PROVE have[j] = written[j] \/ (damaged /\ Unverified(have[j]))
    <3>1. CASE j = k
      BY <1>10, <1>16, <3>1
    <3>2. CASE j # k
      <4>1. j \in 1..n
        BY <1>7, <3>2
      <4> QED
        BY <1>4, <1>16, <4>1
    <3> QED
      BY <3>1, <3>2
  <2>2. have[1] = written[1] /\ k <= Len(written)
    <3>1. 1 \in 1..n
      BY <1>4
    <3> QED
      BY <1>4, <1>8, <1>16, <3>1
  <2> QED
    BY <1>16, <1>17, <2>1, <2>2, Zenon DEF Taken
<1>20. Underway(e, written, stream, have, pos, NoFile, crc)
  BY DEF Underway
<1>21. Snapshot(e, sent, written, stream, damaged, have, pos, NoFile, crc)
  BY <1>5, <1>16, <1>18, <1>19, <1>20, Zenon DEF Snapshot
<1>22. \E b, all : Snapshot(b, all, written', stream', damaged', got', at', left', crc')
  BY <1>2, <1>14, <1>15, <1>17, <1>21, Zenon
<1>23. /\ written' \in Seq(Item) /\ damaged' \in BOOLEAN /\ at' \in Nat
       /\ refused' = "reader" => damaged'
  BY <1>6, <1>14, <1>17, Zenon
<1> QED
  BY <1>22, <1>23 DEF IInv

LEMMA PutStep ==
    ASSUME IInv, NEW item \in Item, NEW b, Put(item, b),
           ItemOK(Append(written, item), 1), ItemOK(Append(written, item), Len(written) + 1),
           b = BytesOf(Append(written, item), Len(written) + 1)
    PROVE  IInv'
<1>1. PICK e, sent : Snapshot(e, sent, written, stream, damaged, got, at, left, crc)
  BY DEF IInv
<1>2. /\ written \in Seq(Item) /\ damaged \in BOOLEAN /\ at \in Nat
      /\ refused = "reader" => damaged
  BY DEF IInv
<1>3. /\ written' = Append(written, item) /\ stream' = stream \o b /\ damaged' = damaged
      /\ got' = got /\ at' = at /\ left' = left /\ crc' = crc /\ refused' = refused
  BY DEF Put, payload
<1>4. \E f, all : Snapshot(f, all, Append(written, item), stream \o b, damaged, got, at, left, crc)
  BY <1>1, <1>2, WritePreserves
<1>5. \E f, all : Snapshot(f, all, written', stream', damaged', got', at', left', crc')
  BY <1>3, <1>4, Zenon
<1>6. /\ written' \in Seq(Item) /\ damaged' \in BOOLEAN /\ at' \in Nat
      /\ refused' = "reader" => damaged'
  BY <1>2, <1>3
<1> QED
  BY <1>5, <1>6 DEF IInv

LEMMA WriteSessionHeaderStep ==
    ASSUME IInv, WriteSessionHeader
    PROVE  IInv'
<1>1. PICK h \in Header : Put(h, HeaderBytes(h))
  BY DEF WriteSessionHeader
<1>2. written = <<>> /\ Len(written) + 1 = 1
  BY DEF WriteSessionHeader
<1>3. HeaderOK(h)
  <2>1. h \in [version : U16, flags : U32, total_files : 0..MaxFiles, total_bytes : U64]
    BY CodecAssumption
  <2>2. 0..MaxFiles \subseteq U64
    <3>1. PICK w \in Nat : w = Worth[8] - 1 /\ U64 = 0..w
      <4>1. Worth[8] \in Nat \ {0}
        BY WorthSteps
      <4>2. Worth[8] - 1 \in Nat
        BY <4>1
      <4> QED
        BY <4>2, NumberTypes
    <3>2. MaxFiles \in 0..w
      BY <3>1, CodecAssumption, Zenon
    <3>3. 0..MaxFiles \subseteq 0..w
      BY <3>2
    <3> QED
      BY <3>1, <3>3, Zenon
  <2> QED
    BY <2>1, <2>2 DEF HeaderOK
<1>4. h \in Item
  BY <1>3, HeaderTypes
<1>5. PICK more : more = Append(written, h) /\ more[1] = h
  <2>1. written \in Seq(Item) /\ Len(written) = 0
    BY <1>2
  <2>2. Append(written, h)[Len(written) + 1] = h
    BY <1>4, <2>1, AppendProperties
  <2>3. Append(written, h)[1] = h
    BY <1>2, <2>2, Zenon
  <2> QED
    BY <2>3, Zenon
<1>6. ItemOK(more, 1) /\ BytesOf(more, 1) = HeaderBytes(h)
  BY <1>3, <1>5 DEF ItemOK, BytesOf
<1> QED
  BY <1>1, <1>2, <1>4, <1>5, <1>6, PutStep

\* The session header lies before what is added.
LEMMA MoreItems ==
    ASSUME IInv, written # <<>>, NEW item \in Item
    PROVE  /\ Len(written) \in Nat \ {0} /\ ItemOK(Append(written, item), 1)
           /\ Append(written, item)[1] = written[1] /\ written[1].total_files \in Nat
           /\ Append(written, item)[Len(written) + 1] = item
<1>1. PICK e, sent : Layout(e, sent, written)
  BY DEF IInv, Snapshot
<1>2. written \in Seq(Item)
  BY DEF IInv
<1>3. Len(written) \in Nat \ {0} /\ Len(written) >= 1 /\ 1 \in 1..Len(written)
  BY <1>2
<1>4. HeaderOK(written[1]) /\ written[1].total_files \in Nat
  BY <1>1, <1>2, <1>3, FirstPlace, HeaderTypes
<1>5. /\ Append(written, item)[1] = written[1]
      /\ Append(written, item)[Len(written) + 1] = item
  BY <1>2, <1>3
<1> QED
  BY <1>3, <1>4, <1>5 DEF ItemOK

LEMMA WriteFileHeaderStep ==
    ASSUME IInv, WriteFileHeader
    PROVE  IInv'
<1>1. written # <<>> /\ Len(written) - 1 < written[1].total_files
  BY DEF WriteFileHeader, Records
<1>2. PICK path \in Path, bytes \in Payload :
          IF PathFits(path)
          THEN \E n \in 0..Len(bytes) :
                  LET f == [rel_path |-> path, size |-> Len(bytes), crc32 |-> CrcOfFd(bytes, n),
                            payload |-> bytes]
                  IN  Put(f, FileBytes(f) \o bytes)
          ELSE Refuse("writer")
  BY DEF WriteFileHeader
<1>3. CASE ~PathFits(path)
  BY <1>2, <1>3, RefuseStep
<1>4. CASE PathFits(path)
  <2>1. PICK n \in 0..Len(bytes) :
            LET f == [rel_path |-> path, size |-> Len(bytes), crc32 |-> CrcOfFd(bytes, n),
                      payload |-> bytes]
            IN  Put(f, FileBytes(f) \o bytes)
    BY <1>2, <1>4
  <2>2. PICK f : f = [rel_path |-> path, size |-> Len(bytes), crc32 |-> CrcOfFd(bytes, n),
                      payload |-> bytes]
    OBVIOUS
  <2>3. Put(f, Record(f))
    <3>1. f.payload = bytes
      BY <2>2
    <3> QED
      BY <2>1, <2>2, <3>1, Zenon DEF Record
  <2>4. path \in Seq(Byte) /\ bytes \in Seq(Byte) /\ Len(bytes) \in U64
    BY CodecAssumption
  <2>5. Len(path) \in U16
    <3>1. Len(path) \in Nat /\ Len(path) <= Worth[2] - 1
      BY <1>4, <2>4 DEF PathFits
    <3> QED
      BY <3>1, NumberTypes
  <2>6. CrcOfFd(bytes, n) = Compute(bytes) /\ Compute(bytes) \in SUBSET Bits
    <3>1. Fresh \in SUBSET Bits /\ Bits \in SUBSET Bits
      BY DEF Fresh
    <3>2. Compute(bytes) \in SUBSET Bits
      BY <2>4, <3>1, UpdatedType, WordType DEF Compute, Final
    <3> QED
      BY <2>4, <3>2, CrcOfParts
  <2>7. FileOK(f)
    BY <2>2, <2>4, <2>5, <2>6 DEF FileOK
  <2>8. f \in Item
    BY <2>7, FileTypes
  <2>9. PICK more, k : more = Append(written, f) /\ k = Len(written) + 1
    OBVIOUS
  <2>10. /\ Len(written) \in Nat \ {0} /\ ItemOK(more, 1) /\ more[1] = written[1]
         /\ written[1].total_files \in Nat /\ more[k] = f
    BY <1>1, <2>8, <2>9, MoreItems
  <2>11. k # 1 /\ k <= more[1].total_files + 1
    <3>1. PICK m \in Nat, n2 \in Nat : m = written[1].total_files /\ n2 = Len(written) /\ n2 # 0
      BY <2>10
    <3>2. n2 - 1 < m
      BY <1>1, <3>1, Zenon
    <3>3. n2 + 1 # 1 /\ n2 + 1 <= m + 1
      BY <3>1, <3>2
    <3> QED
      BY <2>9, <2>10, <3>1, <3>3, Zenon
  <2>12. ItemOK(more, k) /\ BytesOf(more, k) = Record(f)
    BY <2>7, <2>10, <2>11 DEF ItemOK, BytesOf
  <2> QED
    BY <2>3, <2>8, <2>9, <2>10, <2>12, PutStep
<1> QED
  BY <1>3, <1>4

LEMMA WriteDoneStep ==
    ASSUME IInv, WriteDone
    PROVE  IInv'
<1>1. /\ written # <<>> /\ Len(written) - 1 = written[1].total_files
      /\ Put(Done, Encode(Magic["DONE"], 4))
  BY DEF WriteDone, Records
<1>2. Done \in Item
  BY DEF Item
<1>3. PICK more, k : more = Append(written, Done) /\ k = Len(written) + 1
  OBVIOUS
<1>4. /\ Len(written) \in Nat \ {0} /\ ItemOK(more, 1) /\ more[1] = written[1]
      /\ written[1].total_files \in Nat /\ more[k] = Done
  BY <1>1, <1>2, <1>3, MoreItems
<1>5. k # 1 /\ ~(k <= more[1].total_files + 1)
  <2>1. PICK m \in Nat, n \in Nat : m = written[1].total_files /\ n = Len(written) /\ n # 0
    BY <1>4
  <2>2. n - 1 = m
    BY <1>1, <2>1, Zenon
  <2>3. n + 1 # 1 /\ ~(n + 1 <= m + 1)
    BY <2>1, <2>2
  <2> QED
    BY <1>3, <1>4, <2>1, <2>3, Zenon
<1>6. ItemOK(more, k) /\ BytesOf(more, k) = Encode(Magic["DONE"], 4)
  BY <1>4, <1>5 DEF ItemOK, BytesOf
<1> QED
  BY <1>1, <1>2, <1>3, <1>4, <1>6, PutStep

LEMMA DamageStep ==
    ASSUME IInv, Damage
    PROVE  IInv'
<1>1. PICK e, sent : Snapshot(e, sent, written, stream, damaged, got, at, left, crc)
  BY DEF IInv
<1>2. PICK i \in Covered, b \in Wrong :
          i > at /\ b # stream[i] /\ stream' = [stream EXCEPT ![i] = b]
  BY DEF Damage
<1>3. /\ ~damaged /\ damaged' /\ damaged' = TRUE /\ written' = written /\ got' = got /\ at' = at
      /\ left' = left /\ crc' = crc /\ refused' = refused
  BY DEF Damage, payload
<1>4. /\ Layout(e, sent, written) /\ Transit(e, sent, written, stream, damaged, Len(got))
      /\ Taken(e, written, damaged, got, at, left)
      /\ Underway(e, written, stream, got, at, left, crc)
      /\ written \in Seq(Item) /\ at \in Nat
  BY <1>1 DEF Snapshot, IInv
<1>5. stream = sent /\ stream \in Seq(Byte) /\ sent \in Seq(Byte)
  BY <1>3, <1>4 DEF Transit
<1>6. PICK n \in Nat : n = Len(written)
  BY <1>4
<1>7. e[n] = Len(sent)
  BY <1>4, <1>6 DEF Layout
<1>8. i \in 1..Len(sent) /\ Spot(e, written, Len(got), i)
  <2>1. CASE n = 1
    <3>1. i \in 1..32
      BY <1>2, <1>6, <2>1 DEF Covered
    <3>2. n >= 1
      BY <2>1
    <3>3. e[1] = 32
      BY <1>4, <1>6, <3>2, FirstPlace
    <3>4. Len(sent) = 32
      BY <1>7, <2>1, <3>3
    <3>5. Len(got) = 0
      <4>1. PICK m \in Nat : m = Len(got) /\ m <= 1
        BY <1>4, <1>6, <2>1 DEF Taken
      <4>2. ASSUME m = 1 PROVE FALSE
        <5>1. left = NoFile
          BY <1>4, <4>1, <4>2 DEF Underway
        <5>2. at = e[1]
          BY <1>4, <4>1, <4>2, <5>1 DEF Taken
        <5> QED
          BY <1>2, <3>1, <3>3, <5>2
      <4> QED
        BY <4>1, <4>2
    <3> QED
      BY <3>1, <3>4, <3>5 DEF Spot
  <2>2. CASE n # 1
    <3>1. /\ written # <<>> /\ written[n] # Done
          /\ i \in Len(stream) - written[n].size + 1..Len(stream)
      BY <1>2, <1>6, <2>2 DEF Covered
    <3>2. n # 0
      BY <1>4, <1>6, <3>1
    <3>3. n \in 2..Len(written) /\ n \in 1..Len(written)
      BY <1>6, <2>2, <3>2
    <3>4. Placed(e, sent, written, n)
      BY <1>4, <3>3 DEF Layout
    <3>5. n <= written[1].total_files + 1
      BY <2>2, <3>1, <3>4 DEF Placed, ItemOK
    <3>6. PICK f : f = written[n]
      OBVIOUS
    <3>7. /\ FileOK(f) /\ e[n - 1] \in Nat /\ e[n] \in Nat
          /\ e[n] = e[n - 1] + (18 + Len(f.rel_path) + f.size)
      BY <1>4, <3>3, <3>5, <3>6, RecordPlace
    <3>8. Len(f.rel_path) \in Nat /\ f.size \in Nat
      BY <3>7, FileTypes
    <3>9. PICK m \in Nat, p \in Nat, z \in Nat, c \in Nat :
              m = e[n - 1] /\ p = Len(f.rel_path) /\ z = f.size /\ c = e[n]
      BY <3>7, <3>8, Zenon
    <3>10. c = m + (18 + p + z)
      BY <3>7, <3>9, Zenon
    <3>11. i \in c - z + 1..c
      BY <1>5, <1>7, <3>1, <3>6, <3>9, Zenon
    <3>12. i \in 1..c /\ c - z < i /\ i <= c
      <4>1. m \in Nat /\ p \in Nat /\ z \in Nat /\ c \in Nat
        BY <3>9, Zenon
      <4> QED
        BY <3>10, <3>11, <4>1
    <3>13. e[n] - written[n].size < i /\ i <= e[n]
      BY <3>6, <3>9, <3>12, Zenon
    <3>14. Spot(e, written, Len(got), i)
      BY <3>3, <3>5, <3>13, Zenon DEF Spot
    <3> QED
      BY <1>7, <3>9, <3>12, <3>14, Zenon
  <2> QED
    BY <2>1, <2>2
<1>9. PICK buf : buf = [sent EXCEPT ![i] = b]
  OBVIOUS
<1>10. /\ buf \in Seq(Byte) /\ Len(buf) = Len(sent) /\ buf[i] = b
       /\ \A j \in 1..Len(sent) : j # i => buf[j] = sent[j]
  <2>1. b \in Byte
    BY CodecAssumption
  <2> QED
    BY <1>5, <1>8, <1>9, <2>1
<1>11. stream' = buf /\ Hit(sent, buf, i)
  BY <1>2, <1>5, <1>9, <1>10 DEF Hit
<1>12. Transit(e, sent, written, buf, damaged', Len(got))
  BY <1>3, <1>8, <1>10, <1>11 DEF Transit
<1>13. Taken(e, written, damaged', got, at, left)
  BY <1>3, <1>4 DEF Taken
<1>14. Underway(e, written, buf, got, at, left, crc)
  <2>1. CASE left = NoFile
    BY <2>1 DEF Underway
  <2>2. CASE left # NoFile
    <3>1. PICK k, f, a : Receiving(e, sent, k, f, a)
      BY <1>1, <2>2, InPayload
    <3>2. /\ k = Len(got) /\ f = written[k] /\ a \in Nat /\ e[k] = a + f.size
          /\ e[k] \in Nat /\ e[k] <= Len(stream) /\ a <= at /\ at <= e[k] /\ f.size \in Nat
          /\ got[k] = [f EXCEPT !.payload = SubSeq(stream, a + 1, at)]
      BY <3>1, Zenon DEF Receiving
    <3>3. PICK c \in Nat, z \in Nat : c = e[k] /\ z = f.size
      BY <3>2, Zenon
    <3>4. c = a + z /\ c <= Len(sent) /\ at <= c
      BY <1>5, <3>2, <3>3, Zenon
    <3>5. c - z + 1 = a + 1 /\ at <= Len(sent)
      <4>1. c \in Nat /\ z \in Nat /\ a \in Nat /\ at \in Nat /\ Len(sent) \in Nat
        BY <1>4, <1>5, <3>2, <3>3
      <4> QED
        BY <3>4, <4>1
    <3>6. ASSUME NEW j \in a + 1..at PROVE sent[j] = buf[j]
      <4>1. j \in 1..Len(sent) /\ j # i
        <5>1. i > at /\ a \in Nat /\ at \in Nat /\ at <= Len(sent) /\ i \in 1..Len(sent)
          BY <1>2, <1>4, <1>8, <3>2, <3>5, Zenon
        <5>2. PICK m \in Nat : m = Len(sent)
          BY <1>5
        <5>3. j \in 1..m /\ j # i
          BY <3>6, <5>1, <5>2
        <5> QED
          BY <5>2, <5>3, Zenon
      <4> QED
        BY <1>10, <4>1
    <3>7. SubSeq(sent, a + 1, at) = SubSeq(buf, a + 1, at)
      <4>1. a \in Nat /\ at \in Nat /\ a <= at
        BY <1>4, <3>2, Zenon
      <4> QED
        BY <1>5, <1>10, <3>5, <3>6, <4>1, SameParts
    <3>8. /\ SubSeq(stream, e[k] - f.size + 1, at) = SubSeq(sent, a + 1, at)
          /\ SubSeq(buf, e[k] - f.size + 1, at) = SubSeq(buf, a + 1, at)
      BY <1>5, <3>3, <3>5, Zenon
    <3>9. SubSeq(stream, e[Len(got)] - written[Len(got)].size + 1, at)
              = SubSeq(buf, e[Len(got)] - written[Len(got)].size + 1, at)
      BY <3>2, <3>7, <3>8, Zenon
    <3> QED
      BY <1>4, <3>9, Zenon DEF Underway
  <2> QED
    BY <2>1, <2>2
<1>15. Snapshot(e, sent, written, buf, damaged', got, at, left, crc)
  BY <1>4, <1>12, <1>13, <1>14, Zenon DEF Snapshot
<1>16. \E g, all : Snapshot(g, all, written', stream', damaged', got', at', left', crc')
  BY <1>3, <1>11, <1>15, Zenon
<1>17. /\ written' \in Seq(Item) /\ damaged' \in BOOLEAN /\ at' \in Nat
       /\ refused' = "reader" => damaged'
  BY <1>3, <1>4
<1> QED
  BY <1>16, <1>17 DEF IInv

LEMMA InitHolds ==
    ASSUME Init
    PROVE  IInv
<1>1. /\ written = <<>> /\ stream = <<>> /\ damaged = FALSE /\ got = <<>> /\ at = 0
      /\ left = NoFile /\ crc = Fresh /\ refused = "nobody"
  BY DEF Init
<1>2. PICK e : e = [k \in 0..0 |-> 0]
  OBVIOUS
<1>3. e \in [0..0 -> Nat] /\ e[0] = 0
  BY <1>2
<1>4. /\ <<>> \in Seq(Byte) /\ <<>> \in Seq(Item) /\ Len(<<>>) = 0
  OBVIOUS
<1>5. Layout(e, <<>>, <<>>)
  <2>1. \A j, k \in 0..0 : j <= k => e[j] <= e[k]
    BY <1>3
  <2>2. \A k \in 1..0 : FALSE
    OBVIOUS
  <2> QED
    BY <1>3, <1>4, <2>1, <2>2 DEF Layout
<1>6. Transit(e, <<>>, <<>>, <<>>, FALSE, 0)
  BY <1>4 DEF Transit
<1>7. Taken(e, <<>>, FALSE, <<>>, 0, NoFile)
  <2>1. \A k \in 1..0 : FALSE
    OBVIOUS
  <2> QED
    BY <1>3, <1>4, <2>1 DEF Taken
<1>8. Underway(e, <<>>, <<>>, <<>>, 0, NoFile, Fresh)
  BY DEF Underway
<1>9. Snapshot(e, <<>>, <<>>, <<>>, FALSE, <<>>, 0, NoFile, Fresh)
  BY <1>4, <1>5, <1>6, <1>7, <1>8 DEF Snapshot
<1>10. \E f, all : Snapshot(f, all, written, stream, damaged, got, at, left, crc)
  BY <1>1, <1>9, Zenon
<1> QED
  BY <1>1, <1>4, <1>10 DEF IInv

\* The inductive invariant of what both ends of protocol.cpp hold: Snapshot.
THEOREM Invariance == Spec => []IInv
<1>1. Init => IInv
  BY InitHolds
<1>2. IInv /\ [Next]_vars => IInv'
  <2> SUFFICES ASSUME IInv, [Next]_vars PROVE IInv'
    OBVIOUS
  <2>1. CASE WriteSessionHeader
    BY <2>1, WriteSessionHeaderStep
  <2>2. CASE WriteFileHeader
    BY <2>2, WriteFileHeaderStep
  <2>3. CASE WriteDone
    BY <2>3, WriteDoneStep
  <2>4. CASE Damage
    BY <2>4, DamageStep
  <2>5. CASE ReadSessionHeader
    BY <2>5, ReadSessionHeaderStep
  <2>6. CASE ReadFileHeader
    BY <2>6, ReadFileHeaderStep
  <2>7. CASE ReceivePayload
    BY <2>7, ReceivePayloadStep
  <2>8. CASE FinishPayload
    BY <2>8, FinishPayloadStep
  <2>9. CASE ReadDone
    BY <2>9, ReadDoneStep
  <2>10. CASE UNCHANGED vars
    <3>1. /\ written' = written /\ stream' = stream /\ damaged' = damaged /\ got' = got /\ at' = at
          /\ left' = left /\ crc' = crc /\ refused' = refused
      BY <2>10 DEF vars, payload
    <3>2. \E e, sent : Snapshot(e, sent, written', stream', damaged', got', at', left', crc')
      BY <3>1 DEF IInv
    <3> QED
      BY <3>1, <3>2 DEF IInv
  <2> QED
    BY <2>1, <2>2, <2>3, <2>4, <2>5, <2>6, <2>7, <2>8, <2>9, <2>10 DEF Next
<1> QED
  BY <1>1, <1>2, PTL DEF Spec

-----------------------------------------------------------------------------
(* What follows. *)

\* ReadsWhatWasWritten for every stream: for numbers of any size that fits its
\* field, for paths, payloads and buffers of every length, for sessions of any
\* number of records and for a wrong byte anywhere in a header or a payload,
\* what protocol.cpp's Read functions return is what its Write functions were
\* given, a payload that is accepted unverified excepted.
THEOREM ReadsTheWritten == Spec => []ReadsWhatWasWritten
<1>1. IInv => ReadsWhatWasWritten
  <2> SUFFICES ASSUME IInv PROVE ReadsWhatWasWritten
    OBVIOUS
  <2>1. PICK e : Taken(e, written, damaged, got, at, left)
    BY DEF IInv, Snapshot
  <2> QED
    BY <2>1 DEF Taken, ReadsWhatWasWritten, Finished
<1> QED
  BY <1>1, Invariance, PTL

\* RefusesOnlyDamage for every stream: a check of ReadSessionHeader,
\* ReadFileHeader, ReadDone or the receiver's payload loop fails only when a
\* byte was changed on the way.
THEOREM RefusedMeansDamaged == Spec => []RefusesOnlyDamage
<1>1. IInv => RefusesOnlyDamage
  BY DEF IInv, RefusesOnlyDamage
<1> QED
  BY <1>1, Invariance, PTL

\* SumIsCrc32c for every payload, however the reads cut it: what
\* common/crc32.cpp computes with its table of 256 words is the remainder of
\* the division that defines CRC-32C.
THEOREM SumIsDivision == Spec => []SumIsCrc32c
<1>1. IInv => SumIsCrc32c
  <2> SUFFICES ASSUME IInv, left = 0 PROVE Final(crc) = Remainder(got[Len(got)].payload)
    BY DEF SumIsCrc32c
  <2>1. PICK e, sent : Snapshot(e, sent, written, stream, damaged, got, at, left, crc)
    BY DEF IInv
  <2>2. left # NoFile
    BY DEF NoFile
  <2>3. PICK k, f, a : Receiving(e, sent, k, f, a)
    BY <2>1, <2>2, InPayload
  <2>4. /\ stream \in Seq(Byte) /\ a \in Nat /\ at \in Nat /\ a <= at /\ k = Len(got)
        /\ at <= e[k] /\ e[k] <= Len(stream) /\ e[k] \in Nat /\ f \in FileRecord
        /\ got[k] = [f EXCEPT !.payload = SubSeq(stream, a + 1, at)]
        /\ crc = Updated(Fresh, got[k].payload)
    BY <2>3, Zenon DEF Receiving
  <2>5. SubSeq(stream, a + 1, at) \in Seq(Byte)
    <3>1. at <= Len(stream)
      BY <2>4
    <3> QED
      BY <2>4, <3>1, PartOfStream
  <2>6. PICK bytes \in Seq(Byte) : bytes = SubSeq(stream, a + 1, at)
    BY <2>5, Zenon
  <2>7. got[k].payload = bytes
    BY <2>4, <2>6 DEF FileRecord
  <2>8. Final(crc) = Compute(bytes)
    BY <2>4, <2>7, Zenon DEF Compute
  <2> QED
    BY <2>4, <2>7, <2>8, ComputeIsRemainder, Zenon
<1> QED
  BY <1>1, Invariance, PTL
=============================================================================
