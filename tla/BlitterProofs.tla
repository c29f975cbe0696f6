--------------------------- MODULE BlitterProofs ---------------------------
(***************************************************************************)
(* Proofs about Blitter for every size of screen, every content of VRAM,   *)
(* every command and every pixel format.                                   *)
(***************************************************************************)
EXTENDS Blitter, FiniteSetTheorems, WellFoundedInduction, TLAPS

-----------------------------------------------------------------------------
(* A byte and its pixels *)

\* A byte with the pixel of column x replaced: what every write does to it.
Put(byte, m, x, c) == byte + (c - Part(byte, m, x)) * Weight(m, x)

\* The modes: how many columns share a byte, and the weights they may have.
LEMMA Modes03 ==
  ASSUME NEW m \in 0..3
  PROVE  /\ m \in {0, 1, 2, 3}
         /\ m = 0 => PerByte(m) = 1 /\ Depth(m) = 256
         /\ m = 1 => PerByte(m) = 2 /\ Depth(m) = 16
         /\ m = 2 => PerByte(m) = 4 /\ Depth(m) = 4
         /\ m = 3 => PerByte(m) = 8 /\ Depth(m) = 2
         /\ PerByte(m) \in {1, 2, 4, 8} /\ Depth(m) \in {256, 16, 4, 2}
BY DEF PerByte, Depth

LEMMA WeightOf ==
  ASSUME NEW m \in 0..3, NEW x \in Int
  PROVE  /\ m = 0 => Weight(m, x) = 1 /\ x % PerByte(m) = 0
         /\ m = 1 => /\ x % PerByte(m) \in 0..1
                     /\ x % PerByte(m) = 0 => Weight(m, x) = 16
                     /\ x % PerByte(m) = 1 => Weight(m, x) = 1
         /\ m = 2 => /\ x % PerByte(m) \in 0..3
                     /\ x % PerByte(m) = 0 => Weight(m, x) = 64
                     /\ x % PerByte(m) = 1 => Weight(m, x) = 16
                     /\ x % PerByte(m) = 2 => Weight(m, x) = 4
                     /\ x % PerByte(m) = 3 => Weight(m, x) = 1
         /\ m = 3 => /\ x % PerByte(m) \in 0..7
                     /\ x % PerByte(m) = 0 => Weight(m, x) = 128
                     /\ x % PerByte(m) = 1 => Weight(m, x) = 64
                     /\ x % PerByte(m) = 2 => Weight(m, x) = 32
                     /\ x % PerByte(m) = 3 => Weight(m, x) = 16
                     /\ x % PerByte(m) = 4 => Weight(m, x) = 8
                     /\ x % PerByte(m) = 5 => Weight(m, x) = 4
                     /\ x % PerByte(m) = 6 => Weight(m, x) = 2
                     /\ x % PerByte(m) = 7 => Weight(m, x) = 1
<1>0. x % PerByte(m) \in 0..PerByte(m) - 1
  BY DEF PerByte
<1>1. CASE m = 0
  BY <1>0, <1>1 DEF PerByte, Weight, Weights
<1>2. CASE m = 1
  BY <1>0, <1>2 DEF PerByte, Weight, Weights
<1>3. CASE m = 2
  BY <1>0, <1>3 DEF PerByte, Weight, Weights
<1>4. CASE m = 3
  BY <1>0, <1>4 DEF PerByte, Weight, Weights
<1> QED
  BY <1>1, <1>2, <1>3, <1>4

\* What putting c in the place of weight w does, among the places of weights ws.
Replaces(byte, c, w, depth, ws) ==
    LET q == byte + (c - ((byte \div w) % depth)) * w
    IN  /\ q \in Byte /\ (q \div w) % depth = c
        /\ \A z \in ws \ {w} : (q \div z) % depth = (byte \div z) % depth

LEMMA FourBits ==
  ASSUME NEW byte \in Byte, NEW c \in 0..15, NEW w \in {1, 16}
  PROVE  Replaces(byte, c, w, 16, {1, 16})
<1>1. CASE w = 1
  BY <1>1 DEF Byte, Replaces
<1>2. CASE w = 16
  BY <1>2 DEF Byte, Replaces
<1> QED
  BY <1>1, <1>2

LEMMA TwoBits ==
  ASSUME NEW byte \in Byte, NEW c \in 0..3, NEW w \in {1, 4, 16, 64}
  PROVE  Replaces(byte, c, w, 4, {1, 4, 16, 64})
<1>1. CASE w = 1
  BY SMTT(30), <1>1 DEF Byte, Replaces
<1>2. CASE w = 4
  <2> DEFINE q == byte + (c - ((byte \div 4) % 4)) * 4
  <2>1. q = 16 * (byte \div 16) + 4 * c + (byte % 4) /\ byte \div 16 \in 0..15
    BY DEF Byte
  <2>2. q \in Byte /\ q \div 16 = byte \div 16 /\ q % 4 = byte % 4 /\ (q \div 4) % 4 = c
    BY <2>1 DEF Byte
  <2>3. q \div 64 = (q \div 16) \div 4 /\ byte \div 64 = (byte \div 16) \div 4
    BY <2>2 DEF Byte
  <2> HIDE DEF q
  <2>4. \A z \in {1, 16, 64} : (q \div z) % 4 = (byte \div z) % 4
    BY <2>2, <2>3 DEF Byte
  <2>5. Replaces(byte, c, 4, 4, {1, 4, 16, 64}) <=>
          /\ q \in Byte /\ (q \div 4) % 4 = c
          /\ \A z \in {1, 4, 16, 64} \ {4} : (q \div z) % 4 = (byte \div z) % 4
    BY Zenon DEF Replaces, q
  <2> QED
    BY <1>2, <2>2, <2>4, <2>5
<1>3. CASE w = 16
  BY SMTT(30), <1>3 DEF Byte, Replaces
<1>4. CASE w = 64
  BY <1>4 DEF Byte, Replaces
<1> QED
  BY <1>1, <1>2, <1>3, <1>4

\* The eight bits of a byte, and the byte of eight bits.
LEMMA BitsOfSum ==
  ASSUME NEW a \in 0..1, NEW b \in 0..1, NEW c \in 0..1, NEW d \in 0..1,
         NEW e \in 0..1, NEW f \in 0..1, NEW g \in 0..1, NEW h \in 0..1
  PROVE  LET s == a + 2 * b + 4 * c + 8 * d + 16 * e + 32 * f + 64 * g + 128 * h
         IN  /\ s \in Byte
             /\ BitOf(s, 1) = a /\ BitOf(s, 2) = b /\ BitOf(s, 4) = c /\ BitOf(s, 8) = d
             /\ BitOf(s, 16) = e /\ BitOf(s, 32) = f /\ BitOf(s, 64) = g /\ BitOf(s, 128) = h
BY SMTT(30) DEF BitOf, Byte

LEMMA ByteIsBits ==
  ASSUME NEW v \in Byte
  PROVE  /\ \A w \in {1, 2, 4, 8, 16, 32, 64, 128} : BitOf(v, w) \in 0..1
         /\ v = BitOf(v, 1) + 2 * BitOf(v, 2) + 4 * BitOf(v, 4) + 8 * BitOf(v, 8)
                + 16 * BitOf(v, 16) + 32 * BitOf(v, 32) + 64 * BitOf(v, 64) + 128 * BitOf(v, 128)
BY SMTT(30) DEF BitOf, Byte

LEMMA OneBit ==
  ASSUME NEW byte \in Byte, NEW c \in 0..1, NEW w \in {1, 2, 4, 8, 16, 32, 64, 128}
  PROVE  Replaces(byte, c, w, 2, {1, 2, 4, 8, 16, 32, 64, 128})
<1> DEFINE ws == {1, 2, 4, 8, 16, 32, 64, 128}
           b(z) == BitOf(byte, z)
           n(z) == IF z = w THEN c ELSE b(z)
           q == byte + (c - b(w)) * w
<1>1. /\ \A z \in ws : b(z) \in 0..1
      /\ byte = b(1) + 2 * b(2) + 4 * b(4) + 8 * b(8) + 16 * b(16) + 32 * b(32) + 64 * b(64) + 128 * b(128)
  BY ByteIsBits
<1>2. \A z \in ws : n(z) \in 0..1
  BY <1>1
<1> HIDE DEF b
<1>3. q = n(1) + 2 * n(2) + 4 * n(4) + 8 * n(8) + 16 * n(16) + 32 * n(32) + 64 * n(64) + 128 * n(128)
  BY <1>1
<1> HIDE DEF n, q
<1>4. /\ n(1) \in 0..1 /\ n(2) \in 0..1 /\ n(4) \in 0..1 /\ n(8) \in 0..1
      /\ n(16) \in 0..1 /\ n(32) \in 0..1 /\ n(64) \in 0..1 /\ n(128) \in 0..1
  BY <1>2
<1>5. /\ q \in Byte
      /\ BitOf(q, 1) = n(1) /\ BitOf(q, 2) = n(2) /\ BitOf(q, 4) = n(4) /\ BitOf(q, 8) = n(8)
      /\ BitOf(q, 16) = n(16) /\ BitOf(q, 32) = n(32) /\ BitOf(q, 64) = n(64) /\ BitOf(q, 128) = n(128)
  BY <1>3, <1>4, BitsOfSum
<1>6. \A z \in ws : BitOf(q, z) = n(z)
  BY <1>5
<1>7. q \in Byte /\ BitOf(q, w) = c /\ \A z \in ws \ {w} : BitOf(q, z) = BitOf(byte, z)
  BY <1>5, <1>6 DEF n, b
<1>8. Replaces(byte, c, w, 2, ws) <=>
        /\ q \in Byte /\ BitOf(q, w) = c
        /\ \A z \in ws \ {w} : BitOf(q, z) = BitOf(byte, z)
  BY Zenon DEF Replaces, BitOf, q, b
<1> QED
  BY <1>7, <1>8

\* Replacing one pixel of a byte leaves a byte, with that pixel as given and
\* the others as they were.
LEMMA PutOne ==
  ASSUME NEW m \in 0..3, NEW byte \in Byte, NEW x \in Int, NEW c \in 0..Depth(m) - 1
  PROVE  /\ Part(byte, m, x) \in 0..Depth(m) - 1
         /\ Put(byte, m, x, c) \in Byte
         /\ Part(Put(byte, m, x, c), m, x) = c
         /\ \A z \in Int : z % PerByte(m) # x % PerByte(m)
                             => Part(Put(byte, m, x, c), m, z) = Part(byte, m, z)
<1>1. CASE m = 0
  <2>1. Weight(m, x) = 1 /\ Depth(m) = 256
    BY <1>1, WeightOf, Modes03
  <2>2. \A z \in Int : z % PerByte(m) = 0
    BY <1>1, WeightOf
  <2> QED
    BY <1>1, <2>1, <2>2 DEF Byte, Put, Part
<1>2. CASE m = 1
  <2>1. Depth(m) = 16 /\ Weight(m, x) \in {1, 16}
    BY <1>2, WeightOf, Modes03
  <2>2. ASSUME NEW z \in Int, z % PerByte(m) # x % PerByte(m)
        PROVE  Weight(m, z) \in {1, 16} \ {Weight(m, x)}
    <3>1. /\ Weight(m, z) \in {1, 16}
          /\ Weight(m, z) = Weight(m, x) => z % PerByte(m) = x % PerByte(m)
      BY <1>2, WeightOf
    <3> QED
      BY <3>1, <2>2
  <2>3. Replaces(byte, c, Weight(m, x), 16, {1, 16})
    BY <2>1, FourBits
  <2>4. /\ Put(byte, m, x, c) \in Byte
        /\ Part(Put(byte, m, x, c), m, x) = c
        /\ \A z \in Int : Weight(m, z) \in {1, 16} \ {Weight(m, x)}
                             => Part(Put(byte, m, x, c), m, z) = Part(byte, m, z)
    BY <2>1, <2>3 DEF Put, Part, Replaces
  <2>5. Part(byte, m, x) \in 0..Depth(m) - 1
    BY <2>1 DEF Part, Byte
  <2> QED
    BY <2>2, <2>4, <2>5
<1>3. CASE m = 2
  <2>1. Depth(m) = 4 /\ Weight(m, x) \in {1, 4, 16, 64}
    BY <1>3, WeightOf, Modes03
  <2>2. ASSUME NEW z \in Int, z % PerByte(m) # x % PerByte(m)
        PROVE  Weight(m, z) \in {1, 4, 16, 64} \ {Weight(m, x)}
    <3>1. /\ Weight(m, z) \in {1, 4, 16, 64}
          /\ Weight(m, z) = Weight(m, x) => z % PerByte(m) = x % PerByte(m)
      BY <1>3, WeightOf
    <3> QED
      BY <3>1, <2>2
  <2>3. Replaces(byte, c, Weight(m, x), 4, {1, 4, 16, 64})
    BY <2>1, TwoBits
  <2>4. /\ Put(byte, m, x, c) \in Byte
        /\ Part(Put(byte, m, x, c), m, x) = c
        /\ \A z \in Int : Weight(m, z) \in {1, 4, 16, 64} \ {Weight(m, x)}
                             => Part(Put(byte, m, x, c), m, z) = Part(byte, m, z)
    BY <2>1, <2>3 DEF Put, Part, Replaces
  <2>5. Part(byte, m, x) \in 0..Depth(m) - 1
    BY <2>1 DEF Part, Byte
  <2> QED
    BY <2>2, <2>4, <2>5
<1>4. CASE m = 3
  <2>1. Depth(m) = 2 /\ Weight(m, x) \in {1, 2, 4, 8, 16, 32, 64, 128}
    BY <1>4, WeightOf, Modes03
  <2>2. ASSUME NEW z \in Int, z % PerByte(m) # x % PerByte(m)
        PROVE  Weight(m, z) \in {1, 2, 4, 8, 16, 32, 64, 128} \ {Weight(m, x)}
    <3>1. /\ Weight(m, z) \in {1, 2, 4, 8, 16, 32, 64, 128}
          /\ Weight(m, z) = Weight(m, x) => z % PerByte(m) = x % PerByte(m)
      BY <1>4, WeightOf
    <3> QED
      BY <3>1, <2>2
  <2>3. Replaces(byte, c, Weight(m, x), 2, {1, 2, 4, 8, 16, 32, 64, 128})
    BY <2>1, OneBit
  <2>4. /\ Put(byte, m, x, c) \in Byte
        /\ Part(Put(byte, m, x, c), m, x) = c
        /\ \A z \in Int : Weight(m, z) \in {1, 2, 4, 8, 16, 32, 64, 128} \ {Weight(m, x)}
                             => Part(Put(byte, m, x, c), m, z) = Part(byte, m, z)
    BY <2>1, <2>3 DEF Put, Part, Replaces
  <2>5. Part(byte, m, x) \in 0..Depth(m) - 1
    BY <2>1 DEF Part, Byte
  <2> QED
    BY <2>2, <2>4, <2>5
<1> QED
  BY <1>1, <1>2, <1>3, <1>4

LEMMA PartFits ==
  ASSUME NEW m \in 0..3, NEW byte \in Byte, NEW x \in Int
  PROVE  Part(byte, m, x) \in 0..Depth(m) - 1 /\ Part(byte, m, x) \in Byte
<1>1. 0 \in 0..Depth(m) - 1
  BY Modes03
<1>2. Part(byte, m, x) \in 0..Depth(m) - 1
  BY <1>1, PutOne
<1> QED
  BY <1>2, Modes03 DEF Byte

-----------------------------------------------------------------------------
(* XOR *)

LEMMA XorBits ==
  ASSUME NEW x \in Byte, NEW y \in Byte
  PROVE  /\ x ^^ y \in Byte
         /\ \A w \in {1, 2, 4, 8, 16, 32, 64, 128} :
              BitOf(x ^^ y, w) = (BitOf(x, w) + BitOf(y, w)) % 2
<1> DEFINE p(w) == (BitOf(x, w) + BitOf(y, w)) % 2
<1>1. \A w \in {1, 2, 4, 8, 16, 32, 64, 128} : p(w) \in 0..1
  BY ByteIsBits
<1>2. x ^^ y = p(1) + 2 * p(2) + 4 * p(4) + 8 * p(8) + 16 * p(16) + 32 * p(32) + 64 * p(64) + 128 * p(128)
  BY DEF ^^, ByteOf
<1> HIDE DEF p
<1>3. p(1) \in 0..1 /\ p(2) \in 0..1 /\ p(4) \in 0..1 /\ p(8) \in 0..1
      /\ p(16) \in 0..1 /\ p(32) \in 0..1 /\ p(64) \in 0..1 /\ p(128) \in 0..1
  BY <1>1
<1>4. /\ x ^^ y \in Byte
      /\ BitOf(x ^^ y, 1) = p(1) /\ BitOf(x ^^ y, 2) = p(2) /\ BitOf(x ^^ y, 4) = p(4) /\ BitOf(x ^^ y, 8) = p(8)
      /\ BitOf(x ^^ y, 16) = p(16) /\ BitOf(x ^^ y, 32) = p(32) /\ BitOf(x ^^ y, 64) = p(64)
      /\ BitOf(x ^^ y, 128) = p(128)
  BY <1>2, <1>3, BitsOfSum
<1> QED
  BY <1>4 DEF p

\* Two bytes with the same bits are the same.
LEMMA SameBits ==
  ASSUME NEW x \in Byte, NEW y \in Byte,
         \A w \in {1, 2, 4, 8, 16, 32, 64, 128} : BitOf(x, w) = BitOf(y, w)
  PROVE  x = y
<1>1. /\ BitOf(x, 1) = BitOf(y, 1) /\ BitOf(x, 2) = BitOf(y, 2) /\ BitOf(x, 4) = BitOf(y, 4)
      /\ BitOf(x, 8) = BitOf(y, 8) /\ BitOf(x, 16) = BitOf(y, 16) /\ BitOf(x, 32) = BitOf(y, 32)
      /\ BitOf(x, 64) = BitOf(y, 64) /\ BitOf(x, 128) = BitOf(y, 128)
  OBVIOUS
<1> QED
  BY <1>1, ByteIsBits, SMT

LEMMA XorTwice ==
  ASSUME NEW x \in Byte, NEW y \in Byte
  PROVE  (x ^^ y) ^^ y = x
<1>1. x ^^ y \in Byte /\ (x ^^ y) ^^ y \in Byte
  BY XorBits
<1>2. ASSUME NEW w \in {1, 2, 4, 8, 16, 32, 64, 128}
      PROVE  BitOf((x ^^ y) ^^ y, w) = BitOf(x, w)
  <2>1. BitOf(x, w) \in 0..1 /\ BitOf(y, w) \in 0..1
    BY ByteIsBits
  <2>2. BitOf(x ^^ y, w) = (BitOf(x, w) + BitOf(y, w)) % 2
    BY XorBits
  <2>3. BitOf((x ^^ y) ^^ y, w) = (BitOf(x ^^ y, w) + BitOf(y, w)) % 2
    BY <1>1, XorBits
  <2> QED
    BY <2>1, <2>2, <2>3
<1> QED
  BY <1>1, <1>2, SameBits

\* XOR stays within the pixels of a mode.
LEMMA XorFits ==
  ASSUME NEW m \in 0..3, NEW x \in 0..Depth(m) - 1, NEW y \in 0..Depth(m) - 1
  PROVE  x \in Byte /\ y \in Byte /\ x ^^ y \in 0..Depth(m) - 1
<1>0. x \in Byte /\ y \in Byte /\ x ^^ y \in Byte
  <2>1. x \in Byte /\ y \in Byte
    BY Modes03 DEF Byte
  <2> QED
    BY <2>1, XorBits
<1>1. CASE m = 0
  BY <1>0, <1>1, Modes03 DEF Byte
<1>2. ASSUME NEW w \in {1, 2, 4, 8, 16, 32, 64, 128}, x < w, y < w
      PROVE  BitOf(x ^^ y, w) = 0
  <2>1. BitOf(x, w) = 0 /\ BitOf(y, w) = 0
    BY SMTT(30), <1>0, <1>2 DEF BitOf, Byte
  <2> QED
    BY <2>1, <1>0, XorBits
<1> DEFINE b(w) == BitOf(x ^^ y, w)
<1>3. /\ b(1) \in 0..1 /\ b(2) \in 0..1 /\ b(4) \in 0..1 /\ b(8) \in 0..1
      /\ x ^^ y = b(1) + 2 * b(2) + 4 * b(4) + 8 * b(8) + 16 * b(16) + 32 * b(32) + 64 * b(64) + 128 * b(128)
  <2> DEFINE z == x ^^ y
  <2>1. z \in Byte
    BY <1>0
  <2> HIDE DEF z
  <2>2. /\ BitOf(z, 1) \in 0..1 /\ BitOf(z, 2) \in 0..1 /\ BitOf(z, 4) \in 0..1 /\ BitOf(z, 8) \in 0..1
        /\ z = BitOf(z, 1) + 2 * BitOf(z, 2) + 4 * BitOf(z, 4) + 8 * BitOf(z, 8)
               + 16 * BitOf(z, 16) + 32 * BitOf(z, 32) + 64 * BitOf(z, 64) + 128 * BitOf(z, 128)
    BY <2>1, ByteIsBits
  <2> QED
    BY <2>2 DEF z
<1>4. CASE m = 1
  <2>1. x < 16 /\ y < 16
    BY <1>4, Modes03
  <2>2. b(16) = 0 /\ b(32) = 0 /\ b(64) = 0 /\ b(128) = 0
    BY <2>1, <1>0, <1>2 DEF Byte
  <2> HIDE DEF b
  <2> QED
    BY <1>0, <1>3, <1>4, <2>2, Modes03 DEF Byte
<1>5. CASE m = 2
  <2>1. x < 4 /\ y < 4
    BY <1>5, Modes03
  <2>2. b(4) = 0 /\ b(8) = 0 /\ b(16) = 0 /\ b(32) = 0 /\ b(64) = 0 /\ b(128) = 0
    BY <2>1, <1>0, <1>2 DEF Byte
  <2> HIDE DEF b
  <2> QED
    BY <1>0, <1>3, <1>5, <2>2, Modes03 DEF Byte
<1>6. CASE m = 3
  <2>1. x < 2 /\ y < 2
    BY <1>6, Modes03
  <2>2. b(2) = 0 /\ b(4) = 0 /\ b(8) = 0 /\ b(16) = 0 /\ b(32) = 0 /\ b(64) = 0 /\ b(128) = 0
    BY <2>1, <1>0, <1>2 DEF Byte
  <2> HIDE DEF b
  <2> QED
    BY <1>0, <1>3, <1>6, <2>2, Modes03 DEF Byte
<1> QED
  BY <1>1, <1>4, <1>5, <1>6

-----------------------------------------------------------------------------
(* Induction and the recursive functions *)

\* Induction on the natural numbers, for a set instead of a predicate.
LEMMA SetInduction ==
  ASSUME NEW S, 0 \in S, \A n \in Nat : n \in S => n + 1 \in S
  PROVE  Nat \subseteq S
<1> SUFFICES ASSUME ~(Nat \subseteq S) PROVE FALSE
  OBVIOUS
<1> DEFINE T == Nat \ S
<1>1. PICK R : IsWellFoundedOn(R, Nat) /\ \A x, y \in Nat : x < y => <<x, y>> \in R
  <2>1. \A x, y \in Nat : x < y => <<x, y>> \in OpToRel(<, Nat)
    BY DEF OpToRel
  <2>2. IsWellFoundedOn(OpToRel(<, Nat), Nat)
    BY NatLessThanWellFounded
  <2> HIDE DEF OpToRel
  <2> QED
    BY <2>1, <2>2, Zenon
<1>2. T \subseteq Nat /\ T # {}
  OBVIOUS
<1>. IsWellFoundedOn(R, Nat)
  BY <1>1
<1>3. PICK x \in T : \A y \in T : <<y, x>> \notin R
  BY <1>2, WFMin
<1>4. x \in Nat /\ x # 0
  BY <1>2, <1>3
<1>5. x - 1 \in T
  BY <1>3, <1>4
<1>6. <<x - 1, x>> \in R
  BY <1>1, <1>4
<1> QED
  BY <1>3, <1>5, <1>6

\* Up to a bound: what holds at 0 and passes from each n to n + 1 holds throughout.
LEMMA UpTo ==
  ASSUME NEW k \in Nat, NEW S, 0 \in S, \A n \in 0..k - 1 : n \in S => n + 1 \in S
  PROVE  0..k \subseteq S
<1> DEFINE T == {n \in Nat : n <= k => n \in S}
<1>1. 0 \in T /\ \A n \in Nat : n \in T => n + 1 \in T
  OBVIOUS
<1>2. Nat \subseteq T
  <2> HIDE DEF T
  <2> QED
    BY <1>1, SetInduction
<1> QED
  BY <1>2

\* f is VRAM after each of the first k dots.
Runs(f, v, m, b, path, k) == f = [n \in 0..k |-> IF n = 0 THEN v ELSE Dot(f[n - 1], m, b, path[n])]

LEMMA AfterExists ==
  ASSUME NEW v, NEW m, NEW b, NEW path, NEW k \in Nat
  PROVE  \E f : Runs(f, v, m, b, path, k)
<1> DEFINE P(f, j) == f = [n \in 0..j |-> IF n = 0 THEN v ELSE Dot(f[n - 1], m, b, path[n])]
           S == {j \in Nat : \E f : P(f, j)}
<1>1. 0 \in S
  <2> DEFINE g == [n \in 0..0 |-> v]
  <2>1. P(g, 0)
    OBVIOUS
  <2> HIDE DEF P, g
  <2> QED
    BY <2>1
<1>2. ASSUME NEW j \in Nat, j \in S PROVE j + 1 \in S
  <2>1. PICK f : P(f, j)
    BY <1>2
  <2> DEFINE g == [n \in 0..(j + 1) |-> IF n = j + 1 THEN Dot(f[j], m, b, path[n]) ELSE f[n]]
  <2>2. P(g, j + 1)
    <3>1. \A n \in 0..(j + 1) : g[n] = IF n = 0 THEN v ELSE Dot(g[n - 1], m, b, path[n])
      BY <2>1
    <3> QED
      BY <3>1
  <2>3. j + 1 \in Nat
    OBVIOUS
  <2> HIDE DEF P, g
  <2> QED
    BY <2>2, <2>3
<1> HIDE DEF S
<1>3. k \in S
  BY <1>1, <1>2, SetInduction
<1>4. \E f : P(f, k)
  BY <1>3 DEF S
<1> QED
  BY <1>4 DEF Runs

LEMMA AfterSteps ==
  ASSUME NEW v, NEW m, NEW b, NEW path, Len(path) \in Nat
  PROVE  /\ After(v, m, b, path)[0] = v
         /\ \A n \in 1..Len(path) :
              After(v, m, b, path)[n] = Dot(After(v, m, b, path)[n - 1], m, b, path[n])
<1> DEFINE P(f) == Runs(f, v, m, b, path, Len(path))
<1>1. \E f : P(f)
  BY AfterExists
<1>2. After(v, m, b, path) = CHOOSE f : P(f)
  BY DEF After, Runs
<1> HIDE DEF P
<1>3. P(CHOOSE f : P(f))
  BY <1>1, Zenon
<1>4. P(After(v, m, b, path))
  BY <1>2, <1>3, Zenon
<1> DEFINE a == After(v, m, b, path)
<1>5. a = [n \in 0..Len(path) |-> IF n = 0 THEN v ELSE Dot(a[n - 1], m, b, path[n])]
  BY <1>4 DEF P, Runs
<1> HIDE DEF a
<1>6. a[0] = v /\ \A n \in 1..Len(path) : a[n] = Dot(a[n - 1], m, b, path[n])
  BY <1>5
<1> QED
  BY <1>6 DEF a

-----------------------------------------------------------------------------
(* One dot *)

Vrams == [0..VramSize - 1 -> Byte]
Dots == [x : Int, y : Int, cx : Nat, cy : Nat]
\* What a dot writes, where, and whether it writes.
Source(v, m, b, d) ==
    IF b.cmd \in MemCopy..VramKeyed THEN get_source_pixel(v, m, b, d.cx, d.cy) ELSE b.color
Skips(v, m, b, d) ==
    \/ d.x \notin Clip(b).x \/ d.y \notin Clip(b).y
    \/ b.cmd \in {MemKeyed, VramKeyed} /\ Source(v, m, b, d) = b.color
Address(m, b, d) == AddressOf(m, d.x, d.y, DstStride(b)) % VramSize
NewPart(v, m, b, d) == Combined(m, b, Part(v[Address(m, b, d)], m, d.x), Source(v, m, b, d))

LEMMA CommandTypes ==
  ASSUME NEW b \in Commands
  PROVE  /\ b.cmd \in Byte /\ b.sx \in Nat /\ b.sy \in Nat /\ b.dx \in Int /\ b.dy \in Int
         /\ b.w \in Nat /\ b.h \in Nat /\ b.color \in Byte /\ b.alpha \in Byte
         /\ b.flipx \in BOOLEAN /\ b.flipy \in BOOLEAN /\ b.blend \in BOOLEAN
         /\ DstStride(b) \in Nat /\ SrcStride(b) \in Nat
         /\ Clip(b).x \subseteq Nat /\ Clip(b).y \subseteq Nat
<1>1. /\ b.cmd \in Byte /\ b.sx \in Word /\ b.sy \in Word
      /\ b.dx \in Short /\ b.dy \in Short
      /\ b.w \in Word /\ b.h \in Word /\ b.color \in Byte /\ b.alpha \in Byte
      /\ b.sstride \in Word /\ b.dstride \in Word
      /\ b.clip = <<>> \/ b.clip \in [1..4 -> Word]
      /\ b.flipx \in BOOLEAN /\ b.flipy \in BOOLEAN /\ b.blend \in BOOLEAN
  BY DEF Commands, Clips
<1>2. Word \subseteq Nat /\ Short \subseteq Int
  BY DEF Word, Short
<1>3. DstStride(b) \in Nat /\ SrcStride(b) \in Nat
  <2>1. ResW \in Nat
    BY BlitterAssumption
  <2> QED
    BY <1>1, <1>2, <2>1 DEF DstStride, SrcStride
<1>4. Clip(b).x \subseteq Nat /\ Clip(b).y \subseteq Nat
  <2>1. CASE b.clip = <<>>
    <3>1. 0..ResW - 1 \subseteq Nat /\ 0..ResH - 1 \subseteq Nat
      BY BlitterAssumption
    <3> QED
      BY <2>1, <3>1 DEF Clip
  <2>2. CASE b.clip # <<>>
    <3>1. b.clip \in [1..4 -> Word]
      BY <1>1, <2>2
    <3>2. b.clip[1] \in Nat /\ b.clip[2] \in Nat /\ b.clip[3] \in Nat /\ b.clip[4] \in Nat
      <4>1. \A f \in [1..4 -> Word] : f[1] \in Word /\ f[2] \in Word /\ f[3] \in Word /\ f[4] \in Word
        OBVIOUS
      <4> QED
        BY <1>2, <3>1, <4>1
    <3>3. b.clip[1]..b.clip[2] \subseteq Nat /\ b.clip[3]..b.clip[4] \subseteq Nat
      BY <3>2
    <3> QED
      BY <2>2, <3>3 DEF Clip
  <2> QED
    BY <2>1, <2>2
<1> QED
  BY <1>1, <1>2, <1>3, <1>4

LEMMA MixFits ==
  ASSUME NEW s \in 0..7, NEW d \in 0..7, NEW alpha \in Byte
  PROVE  /\ s <= d => Mix(s, d, alpha) \in s..d
         /\ d <= s => Mix(s, d, alpha) \in d..s
         /\ alpha = 0 => Mix(s, d, alpha) = d
         /\ alpha = 255 => Mix(s, d, alpha) = s
<1>1. \A n \in 0..7 : n * alpha \in Nat /\ n * (255 - alpha) = 255 * n - n * alpha
  BY DEF Byte
<1>2. s * alpha + d * (255 - alpha) = 255 * d + (s - d) * alpha
  BY DEF Byte
<1>3. s <= d => s * 255 <= s * alpha + d * (255 - alpha) /\ s * alpha + d * (255 - alpha) <= d * 255
  BY DEF Byte
<1>4. d <= s => d * 255 <= s * alpha + d * (255 - alpha) /\ s * alpha + d * (255 - alpha) <= s * 255
  BY DEF Byte
<1>5. alpha = 0 => s * alpha + d * (255 - alpha) = 255 * d
  BY DEF Byte
<1>6. alpha = 255 => s * alpha + d * (255 - alpha) = 255 * s
  BY DEF Byte
<1> DEFINE q == s * alpha + d * (255 - alpha)
<1>7. q \in Int
  BY DEF Byte
<1>8. Mix(s, d, alpha) = q \div 255
  BY DEF Mix
<1> HIDE DEF q
<1>9. /\ s <= d => s * 255 <= q /\ q <= d * 255
      /\ d <= s => d * 255 <= q /\ q <= s * 255
      /\ alpha = 0 => q = 255 * d
      /\ alpha = 255 => q = 255 * s
  BY <1>3, <1>4, <1>5, <1>6 DEF q
<1> QED
  BY <1>7, <1>8, <1>9

LEMMA ChannelsFit ==
  ASSUME NEW c \in Byte
  PROVE  /\ Channels(c)[1] \in 0..7 /\ Channels(c)[2] \in 0..7 /\ Channels(c)[3] \in 0..3
         /\ c = 32 * Channels(c)[1] + 4 * Channels(c)[2] + Channels(c)[3]
BY DEF Channels, Byte

LEMMA BlendFits ==
  ASSUME NEW src \in Byte, NEW dst \in Byte, NEW alpha \in Byte
  PROVE  /\ Blend(src, dst, alpha) \in Byte
         /\ \A i \in 1..3 : Channels(Blend(src, dst, alpha))[i]
                               = Mix(Channels(src)[i], Channels(dst)[i], alpha)
         /\ alpha = 0 => Blend(src, dst, alpha) = dst
         /\ alpha = 255 => Blend(src, dst, alpha) = src
<1> DEFINE x(i) == Mix(Channels(src)[i], Channels(dst)[i], alpha)
<1>1. x(1) \in 0..7 /\ x(2) \in 0..7 /\ x(3) \in 0..3
  BY ChannelsFit, MixFits
<1>2. Blend(src, dst, alpha) = 32 * x(1) + 4 * x(2) + x(3)
  BY DEF Blend
<1>3. /\ alpha = 0 => x(1) = Channels(dst)[1] /\ x(2) = Channels(dst)[2] /\ x(3) = Channels(dst)[3]
      /\ alpha = 255 => x(1) = Channels(src)[1] /\ x(2) = Channels(src)[2] /\ x(3) = Channels(src)[3]
  BY ChannelsFit, MixFits
<1> HIDE DEF x
<1>4. Blend(src, dst, alpha) \in Byte
  BY <1>1, <1>2 DEF Byte
<1>5. /\ Channels(Blend(src, dst, alpha))[1] = x(1)
      /\ Channels(Blend(src, dst, alpha))[2] = x(2)
      /\ Channels(Blend(src, dst, alpha))[3] = x(3)
  BY <1>1, <1>2 DEF Channels
<1>6. \A i \in 1..3 : Channels(Blend(src, dst, alpha))[i] = x(i)
  BY <1>5
<1>7. /\ alpha = 0 => Blend(src, dst, alpha) = dst
      /\ alpha = 255 => Blend(src, dst, alpha) = src
  BY <1>2, <1>3, ChannelsFit
<1> QED
  BY <1>4, <1>6, <1>7 DEF x

LEMMA CombinedFits ==
  ASSUME NEW m \in 0..3, NEW b \in Commands, NEW old \in 0..Depth(m) - 1, NEW color \in Byte
  PROVE  /\ color % Depth(m) \in 0..Depth(m) - 1
         /\ Combined(m, b, old, color) \in 0..Depth(m) - 1
<1>1. color % Depth(m) \in 0..Depth(m) - 1
  BY Modes03 DEF Byte
<1>2. old ^^ (color % Depth(m)) \in 0..Depth(m) - 1
  BY <1>1, XorFits
<1>3. m = 0 => Blend(color, old, b.alpha) \in 0..Depth(m) - 1
  <2>1. m = 0 => old \in Byte /\ Depth(m) = 256
    BY Modes03 DEF Byte
  <2>2. b.alpha \in Byte
    BY CommandTypes
  <2>3. m = 0 => Blend(color, old, b.alpha) \in Byte
    BY <2>1, <2>2, BlendFits
  <2> QED
    BY <2>1, <2>3 DEF Byte
<1> QED
  BY <1>1, <1>2, <1>3 DEF Combined

LEMMA AddressTypes ==
  ASSUME NEW m \in 0..3, NEW x \in Nat, NEW y \in Nat, NEW stride \in Nat
  PROVE  AddressOf(m, x, y, stride) \in Nat
<1>1. \A n \in {1, 2, 4, 8}, z \in Nat : z \div n \in Nat
  OBVIOUS
<1>2. y * (stride \div PerByte(m)) \in Nat
  BY <1>1, Modes03
<1> QED
  BY <1>1, <1>2, Modes03 DEF AddressOf

LEMMA SourceTypes ==
  ASSUME NEW m \in 0..3, NEW b \in Commands, NEW d \in Dots, NEW v \in Vrams
  PROVE  Source(v, m, b, d) \in Byte
<1>1. /\ b.sx \in Nat /\ b.sy \in Nat /\ d.cx \in Nat /\ d.cy \in Nat
      /\ SrcStride(b) \in Nat /\ b.color \in Byte
  BY CommandTypes DEF Dots
<1>2. \A k \in Nat : Memory[1 + (k % Len(Memory))] \in Byte
  <2>0. Memory \in Seq(Byte) /\ Memory # <<>>
    BY GuestAssumption
  <2>1. Len(Memory) \in Nat \ {0} /\ \A i \in 1..Len(Memory) : Memory[i] \in Byte
    BY <2>0
  <2>2. \A k \in Nat, n \in Nat \ {0} : 1 + (k % n) \in 1..n
    OBVIOUS
  <2> QED
    BY <2>1, <2>2
<1>3. b.sx + d.cy * SrcStride(b) + d.cx \in Nat
  BY <1>1
<1>4. \A x \in Nat, y \in Nat, stride \in Nat : read_pixel_vram(v, m, x, y, stride) \in Byte
  <2> TAKE x \in Nat, y \in Nat, stride \in Nat
  <2> DEFINE a == AddressOf(m, x, y, stride)
             q == IF a \in DOMAIN v THEN v[a] ELSE Behind
  <2>1. q \in Byte
    BY GuestAssumption DEF Vrams
  <2>2. read_pixel_vram(v, m, x, y, stride) = Part(q, m, x)
    BY DEF read_pixel_vram
  <2> HIDE DEF q
  <2> QED
    <3>1. x \in Int
      OBVIOUS
    <3>2. Part(q, m, x) \in Byte
      BY <2>1, <3>1, PartFits, Zenon
    <3> QED
      BY <2>2, <3>2
<1>5. get_source_pixel(v, m, b, d.cx, d.cy) \in Byte
  <2>1. b.sx + d.cx \in Nat /\ b.sy + d.cy \in Nat /\ 0 \in Byte
    BY <1>1 DEF Byte
  <2>2. Memory[1 + ((b.sx + d.cy * SrcStride(b) + d.cx) % Len(Memory))] \in Byte
    BY <1>2, <1>3
  <2>3. read_pixel_vram(v, m, b.sx + d.cx, b.sy + d.cy, SrcStride(b)) \in Byte
    BY <1>1, <1>4, <2>1
  <2> QED
    BY <2>1, <2>2, <2>3 DEF get_source_pixel
<1> QED
  BY <1>1, <1>5 DEF Source

\* A dot leaves VRAM alone, or replaces one pixel.
LEMMA DotPuts ==
  ASSUME NEW m \in 0..3, NEW b \in Commands, NEW d \in Dots, NEW v \in Vrams
  PROVE  /\ Skips(v, m, b, d) => Dot(v, m, b, d) = v
         /\ ~Skips(v, m, b, d) =>
              /\ d.x \in Nat /\ d.y \in Nat
              /\ Address(m, b, d) \in 0..VramSize - 1
              /\ NewPart(v, m, b, d) \in 0..Depth(m) - 1
              /\ Dot(v, m, b, d) = [v EXCEPT ![Address(m, b, d)] =
                                       Put(v[Address(m, b, d)], m, d.x, NewPart(v, m, b, d))]
         /\ Dot(v, m, b, d) \in Vrams
<1> DEFINE a == Address(m, b, d)
<1>1. CASE Skips(v, m, b, d)
  <2>1. Dot(v, m, b, d) = v
    BY <1>1 DEF Dot, Skips, Source
  <2> QED
    BY <1>1, <2>1
<1>2. CASE ~Skips(v, m, b, d)
  <2>1. d.x \in Nat /\ d.y \in Nat
    BY <1>2, CommandTypes DEF Skips
  <2>2. a \in 0..VramSize - 1
    <3>1. AddressOf(m, d.x, d.y, DstStride(b)) \in Nat
      BY <2>1, AddressTypes, CommandTypes
    <3>2. VramSize \in Nat /\ VramSize > 0
      <4>1. ResW * ResH \in Nat
        BY BlitterAssumption
      <4> QED
        BY <4>1, BlitterAssumption
    <3> QED
      BY <3>1, <3>2 DEF Address
  <2>3. v[a] \in Byte
    BY <2>2 DEF Vrams
  <2>4. NewPart(v, m, b, d) \in 0..Depth(m) - 1
    <3>1. Part(v[a], m, d.x) \in 0..Depth(m) - 1
      <4>1. d.x \in Int
        BY <2>1
      <4> QED
        BY <4>1, <2>3, PartFits, Zenon
    <3> QED
      BY <3>1, SourceTypes, CombinedFits DEF NewPart
  <2>5. Dot(v, m, b, d) = [v EXCEPT ![a] = Put(v[a], m, d.x, NewPart(v, m, b, d))]
    BY <1>2 DEF Dot, Skips, Source, write_pixel_vram, Put, NewPart, Address
  <2>6. Put(v[a], m, d.x, NewPart(v, m, b, d)) \in Byte
    BY <2>1, <2>3, <2>4, PutOne
  <2>7. Dot(v, m, b, d) \in Vrams
    BY <2>2, <2>5, <2>6 DEF Vrams
  <2> QED
    BY <1>2, <2>1, <2>2, <2>4, <2>5, <2>7
<1> QED
  BY <1>1, <1>2

-----------------------------------------------------------------------------
(* The track of a line *)

\* f is the place after each of the first k steps.
Walks(f, b, k) ==
    f = [n \in 0..k |-> IF n = 0 THEN [x |-> b.sx, y |-> b.sy, err |-> DeltaX(b) + DeltaY(b)]
                         ELSE NextPlace(b, f[n - 1])]

LEMMA TrackExists ==
  ASSUME NEW b, NEW k \in Nat
  PROVE  \E f : Walks(f, b, k)
<1> DEFINE first == [x |-> b.sx, y |-> b.sy, err |-> DeltaX(b) + DeltaY(b)]
<1> HIDE DEF first
<1> DEFINE P(f, j) == f = [n \in 0..j |-> IF n = 0 THEN first ELSE NextPlace(b, f[n - 1])]
           S == {j \in Nat : \E f : P(f, j)}
<1>1. 0 \in S
  <2> DEFINE g == [n \in 0..0 |-> first]
  <2>1. P(g, 0)
    OBVIOUS
  <2> HIDE DEF P, g
  <2> QED
    BY <2>1
<1>2. ASSUME NEW j \in Nat, j \in S PROVE j + 1 \in S
  <2>1. PICK f : P(f, j)
    BY <1>2
  <2> DEFINE g == [n \in 0..(j + 1) |-> IF n = j + 1 THEN NextPlace(b, f[j]) ELSE f[n]]
  <2>2. P(g, j + 1)
    <3>1. \A n \in 0..(j + 1) : g[n] = IF n = 0 THEN first ELSE NextPlace(b, g[n - 1])
      BY <2>1
    <3> QED
      BY <3>1
  <2>3. j + 1 \in Nat
    OBVIOUS
  <2> HIDE DEF P, g
  <2> QED
    BY <2>2, <2>3
<1> HIDE DEF S
<1>3. k \in S
  BY <1>1, <1>2, SetInduction
<1>4. \E f : P(f, k)
  BY <1>3 DEF S
<1> QED
  BY <1>4 DEF Walks, first

LEMMA TrackSteps ==
  ASSUME NEW b, DeltaX(b) - DeltaY(b) \in Nat
  PROVE  /\ DOMAIN Track(b) = 0..(DeltaX(b) - DeltaY(b))
         /\ Track(b)[0] = [x |-> b.sx, y |-> b.sy, err |-> DeltaX(b) + DeltaY(b)]
         /\ \A n \in 1..(DeltaX(b) - DeltaY(b)) : Track(b)[n] = NextPlace(b, Track(b)[n - 1])
<1> DEFINE k == DeltaX(b) - DeltaY(b)
           P(f) == Walks(f, b, k)
<1>1. \E f : P(f)
  BY TrackExists
<1>2. Track(b) = CHOOSE f : P(f)
  BY DEF Track, Walks
<1> HIDE DEF P, k
<1>3. P(CHOOSE f : P(f))
  BY <1>1, Zenon
<1>4. P(Track(b))
  BY <1>2, <1>3, Zenon
<1> DEFINE t == Track(b)
<1>5. t = [n \in 0..k |-> IF n = 0 THEN [x |-> b.sx, y |-> b.sy, err |-> DeltaX(b) + DeltaY(b)]
                          ELSE NextPlace(b, t[n - 1])]
  BY <1>4 DEF P, Walks
<1> HIDE DEF t
<1>6. k \in Nat
  BY DEF k
<1>7. /\ DOMAIN t = 0..k
      /\ t[0] = [x |-> b.sx, y |-> b.sy, err |-> DeltaX(b) + DeltaY(b)]
      /\ \A n \in 1..k : t[n] = NextPlace(b, t[n - 1])
  BY <1>5, <1>6
<1> QED
  BY <1>7 DEF t, k

\* The longer axis, and how far the line has come along the other after n steps:
\* within half a pixel of the true line, and the error term says how far.
Steps(b) == Greater(DeltaX(b), -DeltaY(b))
OnTrack(b, n) ==
    \E i \in 0..DeltaX(b), j \in 0..-DeltaY(b) :
        LET off == j * DeltaX(b) + i * DeltaY(b)      \* minus the distance, times the axis
        IN  /\ n = IF DeltaX(b) >= -DeltaY(b) THEN i ELSE j
            /\ -Steps(b) <= 2 * off /\ 2 * off <= Steps(b)
            /\ Track(b)[n] = [x |-> b.sx + i * StepX(b), y |-> b.sy + j * StepY(b),
                              err |-> DeltaX(b) + DeltaY(b) + off]

LEMMA DeltaTypes ==
  ASSUME NEW b \in Commands
  PROVE  /\ DeltaX(b) \in Nat /\ -DeltaY(b) \in Nat /\ DeltaY(b) \in Int
         /\ b.sx \in Int /\ b.sy \in Int /\ b.dx \in Int /\ b.dy \in Int
         /\ StepX(b) \in {-1, 1} /\ StepY(b) \in {-1, 1}
         /\ DeltaX(b) * StepX(b) = b.dx - b.sx /\ (-DeltaY(b)) * StepY(b) = b.dy - b.sy
         /\ Steps(b) \in Nat /\ Steps(b) <= DeltaX(b) - DeltaY(b)
         /\ DeltaX(b) - DeltaY(b) \in Nat
         /\ Steps(b) = IF DeltaX(b) >= -DeltaY(b) THEN DeltaX(b) ELSE -DeltaY(b)
<1>1. b.sx \in Int /\ b.sy \in Int /\ b.dx \in Int /\ b.dy \in Int
  BY CommandTypes
<1>2. \A p \in Int, q \in Int :
        /\ Abs(q - p) \in Nat
        /\ Abs(q - p) * (IF p < q THEN 1 ELSE -1) = q - p
  BY DEF Abs
<1>3. /\ DeltaX(b) \in Nat /\ -DeltaY(b) \in Nat /\ DeltaY(b) \in Int
      /\ StepX(b) \in {-1, 1} /\ StepY(b) \in {-1, 1}
      /\ DeltaX(b) * StepX(b) = b.dx - b.sx
  <2>1. DeltaX(b) \in Nat /\ -DeltaY(b) \in Nat /\ DeltaY(b) \in Int
    <3>1. Abs(b.dx - b.sx) \in Nat /\ Abs(b.dy - b.sy) \in Nat
      BY <1>1, <1>2
    <3>2. \A n \in Nat : -(-n) \in Nat /\ -n \in Int
      OBVIOUS
    <3> QED
      BY <3>1, <3>2 DEF DeltaX, DeltaY
  <2>2. StepX(b) \in {-1, 1} /\ StepY(b) \in {-1, 1}
    BY DEF StepX, StepY
  <2>3. DeltaX(b) * StepX(b) = b.dx - b.sx
    BY <1>1, <1>2 DEF DeltaX, StepX
  <2> QED
    BY <2>1, <2>2, <2>3
<1>4. (-DeltaY(b)) * StepY(b) = b.dy - b.sy
  <2>1. -DeltaY(b) = Abs(b.dy - b.sy)
    BY <1>1, <1>2 DEF DeltaY
  <2> QED
    BY <1>1, <1>2, <2>1 DEF StepY
<1>5. /\ Steps(b) \in Nat /\ Steps(b) <= DeltaX(b) - DeltaY(b)
      /\ DeltaX(b) - DeltaY(b) \in Nat
      /\ Steps(b) = IF DeltaX(b) >= -DeltaY(b) THEN DeltaX(b) ELSE -DeltaY(b)
  BY <1>3 DEF Steps, Greater
<1> QED
  BY <1>1, <1>3, <1>4, <1>5

LEMMA OneStepAlong ==
  ASSUME NEW b \in Commands, NEW n \in 0..Steps(b) - 1, OnTrack(b, n)
  PROVE  OnTrack(b, n + 1)
<1> DEFINE dX == DeltaX(b)
           dY == -DeltaY(b)
<1>0. dX \in Nat /\ dY \in Nat /\ DeltaY(b) = -dY /\ Steps(b) \in Nat /\ Steps(b) <= dX + dY
      /\ Steps(b) = IF dX >= dY THEN dX ELSE dY
  BY DeltaTypes
<1>1. PICK i \in 0..dX, j \in 0..dY :
        LET off == j * DeltaX(b) + i * DeltaY(b)
        IN  /\ n = IF dX >= dY THEN i ELSE j
            /\ -Steps(b) <= 2 * off /\ 2 * off <= Steps(b)
            /\ Track(b)[n] = [x |-> b.sx + i * StepX(b), y |-> b.sy + j * StepY(b),
                              err |-> DeltaX(b) + DeltaY(b) + off]
  BY DEF OnTrack
<1> DEFINE off == j * DeltaX(b) + i * DeltaY(b)
           err == dX - dY + off
           goX == 2 * err >= DeltaY(b)
           goY == 2 * err <= DeltaX(b)
           ni == IF goX THEN i + 1 ELSE i
           nj == IF goY THEN j + 1 ELSE j
<1>2. off \in Int /\ off = j * dX - i * dY
  BY <1>0
<1>3. Track(b)[n + 1] = [x |-> b.sx + ni * StepX(b), y |-> b.sy + nj * StepY(b),
                         err |-> DeltaX(b) + DeltaY(b) + (nj * DeltaX(b) + ni * DeltaY(b))]
  <2> DEFINE p == Track(b)[n]
  <2>1. p.x = b.sx + i * StepX(b) /\ p.y = b.sy + j * StepY(b) /\ p.err = err
    BY <1>0, <1>1
  <2>2. Track(b)[n + 1] = NextPlace(b, p)
    <3>1. n + 1 \in 1..(DeltaX(b) - DeltaY(b)) /\ (n + 1) - 1 = n
      BY <1>0
    <3> QED
      BY <3>1, TrackSteps, DeltaTypes
  <2> HIDE DEF p
  <2>3. NextPlace(b, p) = [x |-> IF goX THEN p.x + StepX(b) ELSE p.x,
                           y |-> IF goY THEN p.y + StepY(b) ELSE p.y,
                           err |-> p.err + (IF goX THEN DeltaY(b) ELSE 0) + (IF goY THEN DeltaX(b) ELSE 0)]
    BY <2>1 DEF NextPlace
  <2>4. /\ (i + 1) * StepX(b) = i * StepX(b) + StepX(b) /\ (j + 1) * StepY(b) = j * StepY(b) + StepY(b)
        /\ (i + 1) * DeltaY(b) = i * DeltaY(b) + DeltaY(b) /\ (j + 1) * DeltaX(b) = j * DeltaX(b) + DeltaX(b)
    BY <1>0, DeltaTypes
  <2>5. /\ i * StepX(b) \in Int /\ j * StepY(b) \in Int /\ i * DeltaY(b) \in Int /\ j * DeltaX(b) \in Int
        /\ StepX(b) \in Int /\ StepY(b) \in Int /\ b.sx \in Int /\ b.sy \in Int
    BY <1>0, DeltaTypes
  <2>6. (IF goX THEN p.x + StepX(b) ELSE p.x) = b.sx + ni * StepX(b)
    BY <2>1, <2>4, <2>5
  <2>7. (IF goY THEN p.y + StepY(b) ELSE p.y) = b.sy + nj * StepY(b)
    BY <2>1, <2>4, <2>5
  <2>8. p.err + (IF goX THEN DeltaY(b) ELSE 0) + (IF goY THEN DeltaX(b) ELSE 0)
          = DeltaX(b) + DeltaY(b) + (nj * DeltaX(b) + ni * DeltaY(b))
    BY <1>0, <2>1, <2>4, <2>5
  <2> QED
    BY <2>2, <2>3, <2>6, <2>7, <2>8
<1>4. nj * DeltaX(b) + ni * DeltaY(b) = off + (IF goY THEN dX ELSE 0) - (IF goX THEN dY ELSE 0)
  <2>1. /\ (i + 1) * DeltaY(b) = i * DeltaY(b) - dY /\ (j + 1) * DeltaX(b) = j * DeltaX(b) + dX
    BY <1>0
  <2>2. i * DeltaY(b) \in Int /\ j * DeltaX(b) \in Int
    BY <1>0
  <2> QED
    BY <1>0, <2>1, <2>2
<1>5. n \in Nat /\ n < Steps(b) /\ -Steps(b) <= 2 * off /\ 2 * off <= Steps(b)
  BY <1>0, <1>1
<1>6. goX <=> 2 * off >= dY - 2 * dX
  <2> HIDE DEF off
  <2> QED
    BY <1>0, <1>2
<1>7. goY <=> 2 * off <= 2 * dY - dX
  <2> HIDE DEF off
  <2> QED
    BY <1>0, <1>2
<1> DEFINE noff == nj * DeltaX(b) + ni * DeltaY(b)
<1>8. CASE dX >= dY
  <2>1. n = i /\ i < dX /\ Steps(b) = dX /\ -dX <= 2 * off /\ 2 * off <= dX
    BY <1>0, <1>1, <1>5, <1>8
  <2>2. goX
    <3> HIDE DEF off
    <3> QED
      BY <1>0, <1>2, <1>6, <1>8, <2>1
  <2>3. -dX <= 2 * noff /\ 2 * noff <= dX
    <3> HIDE DEF off, goX, goY, noff
    <3>1. noff = off + (IF goY THEN dX ELSE 0) - dY
      BY <1>4, <2>2 DEF noff
    <3> QED
      BY <1>0, <1>2, <1>7, <1>8, <2>1, <3>1
  <2>4. nj \in 0..dY
    <3>1. CASE goY /\ j = dY
      <4>1. off = dY * dX - i * dY /\ i * dY <= dX * dY - dY
        <5>1. i * dY <= (dX - 1) * dY /\ (dX - 1) * dY = dX * dY - dY
          BY <1>0, <2>1
        <5> QED
          BY <1>0, <1>2, <3>1, <5>1
      <4>2. off >= dY
        <5> HIDE DEF off
        <5> QED
          BY <1>0, <1>2, <4>1
      <4> HIDE DEF off
      <4> QED
        BY <1>0, <1>2, <1>7, <2>1, <3>1, <4>2
    <3>2. CASE ~(goY /\ j = dY)
      <4> HIDE DEF goY
      <4> QED
        BY <1>0, <3>2
    <3> QED
      BY <3>1, <3>2
  <2>5. ni \in 0..dX /\ n + 1 = ni
    BY <1>0, <2>1, <2>2
  <2>6. /\ ni \in 0..DeltaX(b) /\ nj \in 0..-DeltaY(b)
        /\ n + 1 = IF DeltaX(b) >= -DeltaY(b) THEN ni ELSE nj
        /\ -Steps(b) <= 2 * noff /\ 2 * noff <= Steps(b)
    <3> HIDE DEF ni, nj, noff
    <3> QED
      BY <1>0, <1>8, <2>1, <2>3, <2>4, <2>5
  <2> HIDE DEF ni, nj, off, goX, goY
  <2> QED
    BY <1>3, <2>6 DEF OnTrack
<1>9. CASE dX < dY
  <2>1. n = j /\ j < dY /\ Steps(b) = dY /\ -dY <= 2 * off /\ 2 * off <= dY
    BY <1>0, <1>1, <1>5, <1>9
  <2>2. goY
    <3> HIDE DEF off
    <3> QED
      BY <1>0, <1>2, <1>7, <1>9, <2>1
  <2>3. -dY <= 2 * noff /\ 2 * noff <= dY
    <3> HIDE DEF off, goX, goY, noff
    <3>1. noff = off + dX - (IF goX THEN dY ELSE 0)
      BY <1>4, <2>2 DEF noff
    <3> QED
      BY <1>0, <1>2, <1>6, <1>9, <2>1, <3>1
  <2>4. ni \in 0..dX
    <3>1. CASE goX /\ i = dX
      <4>1. off = j * dX - dX * dY /\ j * dX <= dX * dY - dX
        <5>1. j * dX <= (dY - 1) * dX /\ (dY - 1) * dX = dX * dY - dX
          BY <1>0, <2>1
        <5> QED
          BY <1>0, <1>2, <3>1, <5>1
      <4>2. off <= -dX
        <5> HIDE DEF off
        <5> QED
          BY <1>0, <1>2, <4>1
      <4> HIDE DEF off
      <4> QED
        BY <1>0, <1>2, <1>6, <1>9, <2>1, <3>1, <4>2
    <3>2. CASE ~(goX /\ i = dX)
      <4> HIDE DEF goX
      <4> QED
        BY <1>0, <3>2
    <3> QED
      BY <3>1, <3>2
  <2>5. nj \in 0..dY /\ n + 1 = nj
    BY <1>0, <2>1, <2>2
  <2>6. /\ ni \in 0..DeltaX(b) /\ nj \in 0..-DeltaY(b)
        /\ n + 1 = IF DeltaX(b) >= -DeltaY(b) THEN ni ELSE nj
        /\ -Steps(b) <= 2 * noff /\ 2 * noff <= Steps(b)
    <3> HIDE DEF ni, nj, noff
    <3> QED
      BY <1>0, <1>9, <2>1, <2>3, <2>4, <2>5
  <2> HIDE DEF ni, nj, off, goX, goY
  <2> QED
    BY <1>3, <2>6 DEF OnTrack
<1> QED
  BY <1>0, <1>8, <1>9

\* The loop of a line ends after exactly Steps(b) steps, at the other end.
LEMMA LineTrack ==
  ASSUME NEW b \in Commands
  PROVE  /\ Last(b) = Steps(b) /\ Steps(b) \in Nat /\ Ends(b, Steps(b))
         /\ \A n \in 0..Steps(b) : OnTrack(b, n)
<1> DEFINE dX == DeltaX(b)
           dY == -DeltaY(b)
<1>0. /\ dX \in Nat /\ dY \in Nat /\ DeltaY(b) = -dY /\ Steps(b) \in Nat /\ Steps(b) <= dX + dY
      /\ Steps(b) = IF dX >= dY THEN dX ELSE dY
      /\ StepX(b) \in {-1, 1} /\ StepY(b) \in {-1, 1}
      /\ b.sx \in Int /\ b.sy \in Int /\ b.dx \in Int /\ b.dy \in Int
      /\ dX * StepX(b) = b.dx - b.sx /\ dY * StepY(b) = b.dy - b.sy
  BY DeltaTypes
<1>1. OnTrack(b, 0)
  <2>1. Track(b)[0] = [x |-> b.sx, y |-> b.sy, err |-> DeltaX(b) + DeltaY(b)]
    BY DeltaTypes, TrackSteps
  <2>2. /\ 0 * StepX(b) = 0 /\ 0 * StepY(b) = 0 /\ 0 * DeltaX(b) + 0 * DeltaY(b) = 0
        /\ b.sx + 0 = b.sx /\ b.sy + 0 = b.sy /\ DeltaX(b) + DeltaY(b) + 0 = DeltaX(b) + DeltaY(b)
    BY <1>0
  <2>3. 0 \in 0..DeltaX(b) /\ 0 \in 0..-DeltaY(b) /\ -Steps(b) <= 2 * 0 /\ 2 * 0 <= Steps(b)
    BY <1>0
  <2> DEFINE zero == 0
  <2> HIDE DEF zero
  <2>4. /\ Track(b)[zero] = [x |-> b.sx + zero * StepX(b), y |-> b.sy + zero * StepY(b),
                             err |-> DeltaX(b) + DeltaY(b) + (zero * DeltaX(b) + zero * DeltaY(b))]
        /\ zero \in 0..DeltaX(b) /\ zero \in 0..-DeltaY(b)
        /\ -Steps(b) <= 2 * (zero * DeltaX(b) + zero * DeltaY(b))
        /\ 2 * (zero * DeltaX(b) + zero * DeltaY(b)) <= Steps(b)
        /\ zero = IF DeltaX(b) >= -DeltaY(b) THEN zero ELSE zero
    BY <2>1, <2>2, <2>3 DEF zero
  <2>5. OnTrack(b, zero)
    BY <2>4 DEF OnTrack
  <2> QED
    BY <2>5 DEF zero
<1>2. \A n \in 0..Steps(b) : OnTrack(b, n)
  <2> DEFINE S == {n \in 0..Steps(b) : OnTrack(b, n)}
  <2>1. 0 \in S
    BY <1>0, <1>1
  <2>2. \A n \in 0..Steps(b) - 1 : n \in S => n + 1 \in S
    <3>1. \A n \in 0..Steps(b) - 1 : n + 1 \in 0..Steps(b)
      BY <1>0
    <3> QED
      BY <3>1, OneStepAlong
  <2> HIDE DEF S
  <2>3. 0..Steps(b) \subseteq S
    BY <1>0, <2>1, <2>2, UpTo
  <2> QED
    BY <2>3 DEF S
<1>3. Ends(b, Steps(b))
  <2>1. PICK i \in 0..dX, j \in 0..dY :
          LET off == j * DeltaX(b) + i * DeltaY(b)
          IN  /\ Steps(b) = IF dX >= dY THEN i ELSE j
              /\ -Steps(b) <= 2 * off /\ 2 * off <= Steps(b)
              /\ Track(b)[Steps(b)] = [x |-> b.sx + i * StepX(b), y |-> b.sy + j * StepY(b),
                                       err |-> DeltaX(b) + DeltaY(b) + off]
    <3>1. Steps(b) \in 0..Steps(b)
      BY <1>0
    <3> QED
      BY <1>2, <3>1 DEF OnTrack
  <2>2. i = dX /\ j = dY
    <3> DEFINE off == j * dX - i * dY
    <3>1. off \in Int /\ -Steps(b) <= 2 * off /\ 2 * off <= Steps(b)
      BY <1>0, <2>1
    <3>2. CASE dX >= dY
      <4>1. i = dX /\ Steps(b) = dX
        BY <1>0, <2>1, <3>2
      <4>2. CASE j < dY
        <5>1. j * dX <= (dY - 1) * dX /\ (dY - 1) * dX = dX * dY - dX
          BY <1>0, <4>2
        <5>2. off <= -dX
          BY <1>0, <4>1, <5>1
        <5> HIDE DEF off
        <5> QED
          BY <1>0, <3>1, <3>2, <4>1, <4>2, <5>2
      <4> QED
        BY <1>0, <4>1, <4>2
    <3>3. CASE dX < dY
      <4>1. j = dY /\ Steps(b) = dY
        BY <1>0, <2>1, <3>3
      <4>2. CASE i < dX
        <5>1. i * dY <= (dX - 1) * dY /\ (dX - 1) * dY = dX * dY - dY
          BY <1>0, <4>2
        <5>2. off >= dY
          BY <1>0, <4>1, <5>1
        <5> HIDE DEF off
        <5> QED
          BY <1>0, <3>1, <3>3, <4>1, <4>2, <5>2
      <4> QED
        BY <1>0, <4>1, <4>2
    <3> QED
      BY <1>0, <3>2, <3>3
  <2>3. /\ Track(b)[Steps(b)].x = b.sx + dX * StepX(b)
        /\ Track(b)[Steps(b)].y = b.sy + dY * StepY(b)
    BY <2>1, <2>2
  <2> QED
    BY <1>0, <2>3 DEF Ends
<1>4. \A n \in 0..Steps(b) - 1 : ~Ends(b, n)
  <2> SUFFICES ASSUME NEW n \in 0..Steps(b) - 1, Ends(b, n) PROVE FALSE
    OBVIOUS
  <2>1. PICK i \in 0..dX, j \in 0..dY :
          LET off == j * DeltaX(b) + i * DeltaY(b)
          IN  /\ n = IF dX >= dY THEN i ELSE j
              /\ Track(b)[n] = [x |-> b.sx + i * StepX(b), y |-> b.sy + j * StepY(b),
                                err |-> DeltaX(b) + DeltaY(b) + off]
    <3>1. n \in 0..Steps(b)
      BY <1>0
    <3> QED
      BY <1>2, <3>1 DEF OnTrack
  <2>2. b.sx + i * StepX(b) = b.dx /\ b.sy + j * StepY(b) = b.dy
    BY <2>1 DEF Ends
  <2>3. i = dX /\ j = dY
    BY <1>0, <2>2
  <2> QED
    BY SMTT(30), <1>0, <2>1, <2>3
<1>5. Last(b) = Steps(b)
  <2> DEFINE P(n) == Ends(b, n) /\ \A k \in 0..n - 1 : ~Ends(b, k)
  <2>1. DOMAIN Track(b) = 0..(dX + dY)
    BY DeltaTypes, TrackSteps
  <2>2. Steps(b) \in DOMAIN Track(b) /\ P(Steps(b))
    BY <1>0, <1>3, <1>4, <2>1
  <2>3. ASSUME NEW n \in DOMAIN Track(b), P(n) PROVE n = Steps(b)
    <3> DEFINE s == Steps(b)
    <3>1. n \in Int /\ n >= 0 /\ s \in Int /\ s >= 0
      BY <1>0, <2>1
    <3>2. Ends(b, s) /\ \A k \in 0..s - 1 : ~Ends(b, k)
      BY <1>3, <1>4
    <3>3. Ends(b, n) /\ \A k \in 0..n - 1 : ~Ends(b, k)
      BY <2>3
    <3> HIDE DEF P, s
    <3>4. ~(s < n)
      <4> SUFFICES ASSUME s < n PROVE FALSE
        OBVIOUS
      <4>1. s \in 0..n - 1
        BY <3>1
      <4> QED  BY <3>2, <3>3, <4>1
    <3>5. ~(n < s)
      <4> SUFFICES ASSUME n < s PROVE FALSE
        OBVIOUS
      <4>1. n \in 0..s - 1
        BY <3>1
      <4> QED  BY <3>2, <3>3, <4>1
    <3>6. n = s
      BY <3>1, <3>4, <3>5
    <3> QED  BY <3>6 DEF s
  <2>4. Last(b) = CHOOSE n \in DOMAIN Track(b) : P(n)
    BY DEF Last
  <2> HIDE DEF P
  <2> QED
    BY <2>2, <2>3, <2>4
<1> QED
  BY <1>0, <1>2, <1>3, <1>5

\* Where a line goes: inside the box of its ends, another place at each step,
\* and never further than half a pixel from the true line.
LEMMA LinePlaces ==
  ASSUME NEW b \in Commands, NEW n \in 0..Steps(b)
  PROVE  LET p == Track(b)[n]
         IN  /\ p.x \in Smaller(b.sx, b.dx)..Greater(b.sx, b.dx)
             /\ p.y \in Smaller(b.sy, b.dy)..Greater(b.sy, b.dy)
             /\ 2 * Abs((p.x - b.sx) * (b.dy - b.sy) - (p.y - b.sy) * (b.dx - b.sx)) <= Steps(b)
             /\ n = IF DeltaX(b) >= -DeltaY(b) THEN (p.x - b.sx) * StepX(b)
                                               ELSE (p.y - b.sy) * StepY(b)
<1> DEFINE dX == DeltaX(b)
           dY == -DeltaY(b)
           p == Track(b)[n]
           e == StepX(b)
           f == StepY(b)
<1>0. /\ dX \in Nat /\ dY \in Nat /\ DeltaY(b) = -dY /\ Steps(b) \in Nat
      /\ e \in {-1, 1} /\ f \in {-1, 1}
      /\ b.sx \in Int /\ b.sy \in Int /\ b.dx \in Int /\ b.dy \in Int
      /\ dX * e = b.dx - b.sx /\ dY * f = b.dy - b.sy
  BY DeltaTypes
<1>1. PICK i \in 0..dX, j \in 0..dY :
        LET off == j * DeltaX(b) + i * DeltaY(b)
        IN  /\ n = IF dX >= dY THEN i ELSE j
            /\ -Steps(b) <= 2 * off /\ 2 * off <= Steps(b)
            /\ p = [x |-> b.sx + i * e, y |-> b.sy + j * f,
                    err |-> DeltaX(b) + DeltaY(b) + off]
  BY LineTrack DEF OnTrack
<1> DEFINE off == j * dX - i * dY
<1>2. off \in Int /\ -Steps(b) <= 2 * off /\ 2 * off <= Steps(b)
  BY <1>0, <1>1
<1>3. p.x = b.sx + i * e /\ p.y = b.sy + j * f
  BY <1>1
<1> HIDE DEF p
<1>4. p.x \in Smaller(b.sx, b.dx)..Greater(b.sx, b.dx)
  <2>1. CASE e = 1
    BY <1>0, <1>3, <2>1 DEF Smaller, Greater
  <2>2. CASE e = -1
    BY <1>0, <1>3, <2>2 DEF Smaller, Greater
  <2> QED
    BY <1>0, <2>1, <2>2
<1>5. p.y \in Smaller(b.sy, b.dy)..Greater(b.sy, b.dy)
  <2>1. CASE f = 1
    BY <1>0, <1>3, <2>1 DEF Smaller, Greater
  <2>2. CASE f = -1
    BY <1>0, <1>3, <2>2 DEF Smaller, Greater
  <2> QED
    BY <1>0, <2>1, <2>2
<1>6. p.x - b.sx = i * e /\ p.y - b.sy = j * f
  BY <1>0, <1>3
<1>7. (p.x - b.sx) * e = i /\ (p.y - b.sy) * f = j
  <2>1. (i * e) * e = i
    BY <1>0
  <2>2. (j * f) * f = j
    BY <1>0
  <2> QED
    BY <1>6, <2>1, <2>2
<1>8. 2 * Abs((p.x - b.sx) * (b.dy - b.sy) - (p.y - b.sy) * (b.dx - b.sx)) <= Steps(b)
  <2> DEFINE q == (i * e) * (dY * f) - (j * f) * (dX * e)
  <2>1. (p.x - b.sx) * (b.dy - b.sy) - (p.y - b.sy) * (b.dx - b.sx) = q
    BY <1>0, <1>6
  <2>2. q = off \/ q = -off
    <3>1. CASE e = 1 /\ f = 1
      BY <1>0, <3>1
    <3>2. CASE e = 1 /\ f = -1
      BY <1>0, <3>2
    <3>3. CASE e = -1 /\ f = 1
      BY <1>0, <3>3
    <3>4. CASE e = -1 /\ f = -1
      BY <1>0, <3>4
    <3> QED
      BY <1>0, <3>1, <3>2, <3>3, <3>4
  <2> HIDE DEF q, off
  <2>3. 2 * Abs(q) <= Steps(b)
    BY <1>0, <1>2, <2>2 DEF Abs
  <2> QED
    BY <2>1, <2>3
<1>9. n = IF dX >= dY THEN (p.x - b.sx) * e ELSE (p.y - b.sy) * f
  BY <1>1, <1>7
<1> QED
  BY <1>4, <1>5, <1>8, <1>9 DEF p

-----------------------------------------------------------------------------
(* VRAM and the registers stay what they are *)

LEMMA DivMod ==
  ASSUME NEW n \in Nat, NEW w \in Nat \ {0}
  PROVE  /\ n \div w \in Nat /\ n % w \in 0..w - 1 /\ n = w * (n \div w) + (n % w)
         /\ \A q \in Int, r \in 0..w - 1 : n = w * q + r => q = n \div w /\ r = n % w
<1>1. n \div w \in Nat /\ n % w \in 0..w - 1 /\ n = w * (n \div w) + (n % w)
  OBVIOUS
<1>2. ASSUME NEW q \in Int, NEW r \in 0..w - 1, n = w * q + r
      PROVE  q = n \div w /\ r = n % w
  <2> DEFINE k == n \div w
             t == n % w
  <2>1. k \in Nat /\ t \in 0..w - 1 /\ w * q + r = w * k + t
    BY <1>1, <1>2
  <2> HIDE DEF k, t
  <2>2. q = k
    <3>1. CASE q < k
      <4>1. w * q + w <= w * k
        BY <2>1, <3>1
      <4> QED
        BY <2>1, <4>1
    <3>2. CASE q > k
      <4>1. w * k + w <= w * q
        BY <2>1, <3>2
      <4> QED
        BY <2>1, <4>1
    <3> QED
      BY <2>1, <3>1, <3>2
  <2>3. r = t
    BY <2>1, <2>2
  <2> QED
    BY <2>2, <2>3 DEF k, t
<1> QED
  BY <1>1, <1>2

LEMMA PathTypes ==
  ASSUME NEW b \in Commands
  PROVE  /\ RectanglePath(b) \in Seq(Dots) /\ Len(RectanglePath(b)) = b.w * b.h
         /\ LinePath(b) \in Seq(Dots) /\ Len(LinePath(b)) = Steps(b) + 1
<1>0. /\ b.w \in Nat /\ b.h \in Nat /\ b.dx \in Int /\ b.dy \in Int /\ b.w * b.h \in Nat
      /\ b.flipx \in BOOLEAN /\ b.flipy \in BOOLEAN
  BY CommandTypes
<1>1. \A n \in 1..b.w * b.h : RectanglePath(b)[n] \in Dots
  <2> SUFFICES ASSUME NEW n \in 1..b.w * b.h PROVE RectanglePath(b)[n] \in Dots
    OBVIOUS
  <2> DEFINE cx == (n - 1) % b.w
             cy == (n - 1) \div b.w
  <2>1. n - 1 \in Nat /\ b.w \in Nat \ {0}
    BY <1>0
  <2>2. cx \in Nat /\ cy \in Nat
    <3>1. cy \in Nat /\ cx \in 0..b.w - 1
      BY <2>1, DivMod, Zenon
    <3> QED
      BY <1>0, <3>1
  <2>3. \A c \in Nat : OutX(b, c) \in Int /\ OutY(b, c) \in Int
    BY <1>0 DEF OutX, OutY
  <2>4. RectanglePath(b)[n] = [x |-> OutX(b, cx), y |-> OutY(b, cy), cx |-> cx, cy |-> cy]
    BY DEF RectanglePath
  <2> HIDE DEF cx, cy
  <2> QED
    BY <2>2, <2>3, <2>4 DEF Dots
<1>2. RectanglePath(b) \in Seq(Dots) /\ Len(RectanglePath(b)) = b.w * b.h
  <2>1. RectanglePath(b) = [n \in 1..b.w * b.h |-> RectanglePath(b)[n]]
    BY DEF RectanglePath
  <2> HIDE DEF Dots
  <2> DEFINE N == b.w * b.h
  <2>2. N \in Nat
    BY <1>0
  <2> HIDE DEF N
  <2>3. RectanglePath(b) = [n \in 1..N |-> RectanglePath(b)[n]]
    BY <2>1 DEF N
  <2>4. \A n \in 1..N : RectanglePath(b)[n] \in Dots
    BY <1>1 DEF N
  <2>5. RectanglePath(b) \in Seq(Dots) /\ Len(RectanglePath(b)) = N
    BY <2>2, <2>3, <2>4
  <2> QED
    BY <2>5 DEF N
<1>3. LinePath(b) \in Seq(Dots) /\ Len(LinePath(b)) = Steps(b) + 1
  <2> DEFINE N == Steps(b) + 1
  <2>1. N \in Nat /\ LinePath(b) = [n \in 1..N |-> LinePath(b)[n]]
    BY LineTrack DEF LinePath
  <2>2. \A n \in 1..N : LinePath(b)[n] \in Dots
    <3> SUFFICES ASSUME NEW n \in 1..N PROVE LinePath(b)[n] \in Dots
      OBVIOUS
    <3>1. n - 1 \in 0..Steps(b)
      BY LineTrack
    <3>2. b.sx \in Int /\ b.sy \in Int /\ b.dx \in Int /\ b.dy \in Int
      BY CommandTypes
    <3>3. Track(b)[n - 1].x \in Int /\ Track(b)[n - 1].y \in Int
      BY <3>1, <3>2, LinePlaces DEF Smaller, Greater
    <3>4. LinePath(b)[n] = [x |-> Track(b)[n - 1].x, y |-> Track(b)[n - 1].y, cx |-> 0, cy |-> 0]
      BY LineTrack DEF LinePath
    <3> QED
      BY <3>3, <3>4 DEF Dots
  <2> HIDE DEF N, Dots
  <2>3. LinePath(b) \in Seq(Dots) /\ Len(LinePath(b)) = N
    BY <2>1, <2>2
  <2> QED
    BY <2>3 DEF N
<1> QED
  BY <1>2, <1>3

\* VRAM after any number of dots is VRAM.
LEMMA AfterTypes ==
  ASSUME NEW m \in 0..3, NEW b \in Commands, NEW v \in Vrams, NEW path \in Seq(Dots)
  PROVE  /\ Len(path) \in Nat
         /\ \A n \in 0..Len(path) : After(v, m, b, path)[n] \in Vrams
         /\ Drawn(v, m, b, path) \in Vrams
<1>0. Len(path) \in Nat /\ \A n \in 1..Len(path) : path[n] \in Dots
  OBVIOUS
<1> DEFINE S == {n \in 0..Len(path) : After(v, m, b, path)[n] \in Vrams}
<1>1. 0 \in S
  BY <1>0, AfterSteps
<1>2. \A n \in 0..Len(path) - 1 : n \in S => n + 1 \in S
  <2> SUFFICES ASSUME NEW n \in 0..Len(path) - 1, n \in S PROVE n + 1 \in S
    OBVIOUS
  <2>1. n + 1 \in 1..Len(path) /\ n + 1 \in 0..Len(path) /\ (n + 1) - 1 = n
    BY <1>0
  <2>2. After(v, m, b, path)[n + 1] = Dot(After(v, m, b, path)[n], m, b, path[n + 1])
    BY <1>0, <2>1, AfterSteps
  <2>3. Dot(After(v, m, b, path)[n], m, b, path[n + 1]) \in Vrams
    BY <1>0, <2>1, DotPuts
  <2> QED
    BY <2>1, <2>2, <2>3
<1>3. 0..Len(path) \subseteq S
  <2> HIDE DEF S
  <2> QED
    BY <1>0, <1>1, <1>2, UpTo
<1> QED
  BY <1>0, <1>3 DEF Drawn

LEMMA BlitTypes ==
  ASSUME NEW m \in 0..3, NEW b \in Commands, NEW v \in Vrams
  PROVE  execute_blit(v, m, b) \in Vrams
<1>1. General(v, m, b) \in Vrams /\ blit_line(v, m, b) \in Vrams
  BY PathTypes, AfterTypes DEF General, blit_line
<1>2. FastFill(v, b) \in Vrams
  BY CommandTypes DEF FastFill, Vrams
<1> QED
  BY <1>1, <1>2 DEF execute_blit, blit_rectangle

\* What the variables are, whatever the jobs: a frame's pixels are always
\* numbers its palette has.
BlitterTypes ==
    /\ vram \in Vrams /\ mode \in 0..3 /\ job \in Seq(Commands)
    /\ row \in -1..ResH
    /\ colors \in [0..Depth(mode) - 1 -> Byte]
    /\ processed \in [Screen -> 0..Depth(mode) - 1]
    /\ frame \in [Screen -> Byte]

LEMMA ColorTypes ==
  ASSUME vram \in Vrams, mode \in 0..3
  PROVE  update_colors \in [0..Depth(mode) - 1 -> Byte]
<1>1. ASSUME NEW c \in 0..Depth(mode) - 1
      PROVE  (IF mode = 0 THEN c ELSE vram[PaletteStart + c]) \in Byte
  <2>1. CASE mode = 0
    BY <2>1, Modes03 DEF Byte
  <2>2. CASE mode # 0
    <3>1. c \in 0..15
      BY <2>2, Modes03
    <3>2. ResW * ResH \in Nat
      BY BlitterAssumption
    <3>3. PaletteStart + c \in 0..VramSize - 1
      BY <3>1, <3>2, BlitterAssumption DEF PaletteStart
    <3> QED
      BY <2>2, <3>3 DEF Vrams
  <2> QED
    BY <2>1, <2>2
<1> QED
  BY <1>1 DEF update_colors

\* The byte of a pixel on the screen is VRAM's and not the palette's, in every mode.
LEMMA PixelsOnScreen ==
  ASSUME NEW m \in 0..3, NEW x \in 0..ResW - 1, NEW y \in 0..ResH - 1
  PROVE  LET n == PerByte(m)
         IN  /\ (y * ResW + x) \div n = AddressOf(m, x, y, ResW)
             /\ (y * ResW + x) % n = x % n
             /\ AddressOf(m, x, y, ResW) \in 0..VramSize - 17
             /\ AddressOf(m, x, y, ResW) < (ResW * ResH) \div n
             /\ \A p \in 0..ResW - 1, q \in 0..ResH - 1 :
                  /\ AddressOf(m, p, q, ResW) = AddressOf(m, x, y, ResW) /\ p % n = x % n
                  => p = x /\ q = y
<1> DEFINE n == PerByte(m)
           W == ResW \div n
<1>1. n \in {1, 2, 4, 8} /\ ResW \in Nat \ {0} /\ ResH \in Nat \ {0} /\ VramSize \in Nat
  BY Modes03, BlitterAssumption
<1>2. W \in Nat \ {0} /\ ResW = n * W
  <2>1. ResW % 8 = 0 /\ ResW > 0
    BY BlitterAssumption
  <2> QED
    BY <1>1, <2>1
<1> HIDE DEF W
<1>3. \A p \in 0..ResW - 1 : /\ p \div n \in 0..W - 1 /\ p % n \in 0..n - 1
                             /\ p = n * (p \div n) + (p % n)
  BY <1>1, <1>2
<1>4. AddressOf(m, x, y, ResW) = y * W + (x \div n)
  BY DEF AddressOf, W
<1>5. \A k \in Nat : k * W \in Nat /\ k * ResW = n * (k * W)
  <2> HIDE DEF n
  <2> SUFFICES ASSUME NEW k \in Nat PROVE k * W \in Nat /\ k * (n * W) = n * (k * W)
    BY <1>2
  <2> QED
    BY <1>1, <1>2
<1>51. y \in Nat /\ y * W \in Nat /\ y * ResW = n * (y * W)
  BY <1>1, <1>5
<1>6. /\ (y * ResW + x) \div n = AddressOf(m, x, y, ResW)
      /\ (y * ResW + x) % n = x % n
  <2> DEFINE a == y * W
             k == x \div n
             r == x % n
  <2>1. a \in Nat /\ k \in Nat /\ r \in 0..n - 1 /\ y * ResW + x = n * (a + k) + r
    BY <1>1, <1>2, <1>3, <1>51
  <2>2. AddressOf(m, x, y, ResW) = a + k
    BY <1>4
  <2> HIDE DEF a, k, r, n
  <2>3. (n * (a + k) + r) \div n = a + k /\ (n * (a + k) + r) % n = r
    BY <1>1, <2>1
  <2> QED
    BY <2>1, <2>2, <2>3 DEF r
<1>7. y * W + (x \div n) < ResH * W
  <2> DEFINE N == ResH
  <2>1. \A k \in 0..N - 1 : k * W <= N * W - W
    <3> HIDE DEF N
    <3> TAKE k \in 0..N - 1
    <3>1. N \in Nat /\ k + 1 <= N
      BY <1>1 DEF N
    <3>2. (k + 1) * W <= N * W /\ (k + 1) * W = k * W + W
      BY <1>2, <3>1
    <3> QED
      BY <1>2, <3>1, <3>2
  <2>2. y * W <= ResH * W - W /\ ResH * W \in Nat
    BY <1>1, <1>5, <2>1
  <2> QED
    BY <1>2, <1>3, <1>51, <2>2
<1>8. ResH * W = (ResW * ResH) \div n /\ ResH * W \in Nat /\ ResH * W <= ResW * ResH
  <2>1. ResH * W \in Nat /\ ResH * ResW = n * (ResH * W) /\ ResH * ResW = ResW * ResH
    BY <1>1, <1>5
  <2> QED
    BY <1>1, <2>1
<1>9. AddressOf(m, x, y, ResW) \in 0..VramSize - 17
  <2>1. ResW * ResH \in Nat /\ ResW * ResH + 16 <= VramSize
    BY <1>1, BlitterAssumption
  <2> QED
    BY <1>1, <1>3, <1>4, <1>51, <1>7, <1>8, <2>1
<1>10. ASSUME NEW p \in 0..ResW - 1, NEW q \in 0..ResH - 1,
              AddressOf(m, p, q, ResW) = AddressOf(m, x, y, ResW), p % n = x % n
       PROVE  p = x /\ q = y
  <2>1. W * q + (p \div n) = W * y + (x \div n)
    <3>1. AddressOf(m, p, q, ResW) = q * W + (p \div n)
      BY DEF AddressOf, W
    <3>2. q * W = W * q /\ y * W = W * y
      BY <1>1, <1>2
    <3> QED
      BY <1>4, <1>10, <3>1, <3>2
  <2> DEFINE c == W * y + (x \div n)
             k == p \div n
             l == x \div n
  <2>2. /\ c \in Nat /\ W \in Nat \ {0} /\ k \in 0..W - 1 /\ l \in 0..W - 1
        /\ q \in Int /\ y \in Int /\ c = W * q + k /\ c = W * y + l
    BY <1>1, <1>2, <1>3, <2>1
  <2> HIDE DEF c, k, l
  <2>3. q = c \div W /\ k = c % W /\ y = c \div W /\ l = c % W
    <3>1. \A g \in Int, r \in 0..W - 1 : c = W * g + r => g = c \div W /\ r = c % W
      BY <2>2, DivMod, Zenon
    <3> QED
      BY <2>2, <3>1, Zenon
  <2>4. q = y /\ p \div n = x \div n
    BY <2>3 DEF k, l
  <2> QED
    BY <1>3, <1>10, <2>4
<1> QED
  BY <1>4, <1>6, <1>7, <1>8, <1>9, <1>10

\* Type correctness: VRAM stays 64 kB of bytes through every command, and no
\* frame reads a pixel or a colour there is not.
THEOREM Types == Spec => []BlitterTypes
<1>1. Init => BlitterTypes
  <2> SUFFICES ASSUME Init PROVE BlitterTypes
    OBVIOUS
  <2>1. vram \in Vrams /\ mode \in 0..3 /\ job \in Seq(Commands)
    BY GuestAssumption DEF Init, Vrams
  <2>2. row \in -1..ResH
    BY BlitterAssumption DEF Init
  <2>3. colors \in [0..Depth(mode) - 1 -> Byte]
    BY <2>1, ColorTypes DEF Init
  <2>4. processed \in [Screen -> 0..Depth(mode) - 1] /\ frame \in [Screen -> Byte]
    <3>1. 0 \in 0..Depth(mode) - 1 /\ 0 \in Byte
      BY <2>1, Modes03 DEF Byte
    <3> QED
      BY <3>1 DEF Init, Screen
  <2> QED
    BY <2>1, <2>2, <2>3, <2>4 DEF BlitterTypes
<1>2. BlitterTypes /\ [Next]_vars => BlitterTypes'
  <2> SUFFICES ASSUME BlitterTypes, [Next]_vars PROVE BlitterTypes'
    OBVIOUS
  <2> USE DEF BlitterTypes
  <2>1. CASE Command
    <3>1. Head(job) \in Commands /\ Tail(job) \in Seq(Commands)
      BY <2>1 DEF Command
    <3>2. vram' \in Vrams
      BY <2>1, <3>1, BlitTypes DEF Command
    <3> QED
      BY <2>1, <3>1, <3>2 DEF Command
  <2>2. CASE BeginFrame
    <3>1. 0 \in -1..ResH
      BY BlitterAssumption
    <3> QED
      BY <2>2, <3>1, ColorTypes DEF BeginFrame
  <2>3. CASE UnpackRow
    <3>1. ASSUME NEW p \in Screen, p[2] = row
          PROVE  Unpacked(vram, p[2] * ResW + p[1]) \in 0..Depth(mode) - 1
      <4> DEFINE i == p[2] * ResW + p[1]
      <4>1. p[1] \in 0..ResW - 1 /\ p[2] \in 0..ResH - 1
        BY DEF Screen
      <4>2. i \in Int /\ i \div PerByte(mode) \in 0..VramSize - 1
        <5>1. i \div PerByte(mode) \in 0..VramSize - 17
          BY SMTT(30), <4>1, PixelsOnScreen
        <5>2. i \in Int
          BY <4>1, BlitterAssumption
        <5> DEFINE r == i \div PerByte(mode)
        <5> HIDE DEF i, r
        <5>3. r \in 0..VramSize - 17 => r \in 0..VramSize - 1
          BY BlitterAssumption
        <5> QED
          BY <5>1, <5>2, <5>3 DEF r
      <4> HIDE DEF i
      <4>3. vram[i \div PerByte(mode)] \in Byte
        BY <4>2 DEF Vrams
      <4>4. Part(vram[i \div PerByte(mode)], mode, i) \in 0..Depth(mode) - 1
        BY <4>2, <4>3, PartFits, Zenon
      <4> QED
        BY <4>4 DEF Unpacked, Part, i
    <3>2. processed' \in [Screen -> 0..Depth(mode) - 1]
      BY <2>3, <3>1 DEF UnpackRow
    <3>3. row' \in -1..ResH
      BY <2>3, BlitterAssumption DEF UnpackRow
    <3> QED
      BY <2>3, <3>2, <3>3 DEF UnpackRow
  <2>4. CASE Present
    <3>1. frame' \in [Screen -> Byte]
      BY <2>4 DEF Present
    <3>2. row' \in -1..ResH
      BY <2>4, BlitterAssumption DEF Present
    <3> QED
      BY <2>4, <3>1, <3>2 DEF Present
  <2>5. CASE UNCHANGED vars
    BY <2>5 DEF vars, Screen
  <2> QED
    BY <2>1, <2>2, <2>3, <2>4, <2>5 DEF Next, Render
<1> QED
  BY <1>1, <1>2, PTL DEF Spec

-----------------------------------------------------------------------------
(* Rectangles *)

\* The cells of a rectangle, each once and row by row, and where they go.
LEMMA Cells ==
  ASSUME NEW b \in Commands
  PROVE  /\ \A n \in 1..b.w * b.h :
              LET d == RectanglePath(b)[n]
              IN  /\ d.cx \in 0..b.w - 1 /\ d.cy \in 0..b.h - 1
                  /\ d.x = OutX(b, d.cx) /\ d.y = OutY(b, d.cy)
                  /\ n = b.w * d.cy + d.cx + 1
         /\ \A cx \in 0..b.w - 1, cy \in 0..b.h - 1 :
              /\ b.w * cy + cx + 1 \in 1..b.w * b.h
              /\ RectanglePath(b)[b.w * cy + cx + 1]
                   = [x |-> OutX(b, cx), y |-> OutY(b, cy), cx |-> cx, cy |-> cy]
<1>0. b.w \in Nat /\ b.h \in Nat
  BY CommandTypes
<1> DEFINE w == b.w
           h == b.h
<1>1. ASSUME NEW n \in 1..w * h
      PROVE  /\ n - 1 \in Nat /\ w \in Nat \ {0}
             /\ (n - 1) % w \in 0..w - 1 /\ (n - 1) \div w \in 0..h - 1
             /\ n = w * ((n - 1) \div w) + ((n - 1) % w) + 1
  <2> HIDE DEF w, h
  <2>0. w \in Nat /\ h \in Nat
    BY <1>0 DEF w, h
  <2>1. n - 1 \in Nat /\ w \in Nat \ {0} /\ n - 1 < w * h /\ w * h \in Nat
    BY <2>0
  <2> DEFINE q == (n - 1) \div w
             r == (n - 1) % w
  <2>2. q \in Nat /\ r \in 0..w - 1 /\ n - 1 = w * q + r
    BY <2>1, DivMod, Zenon
  <2> HIDE DEF q, r
  <2>3. q < h
    <3>1. CASE q >= h
      <4>1. w * h <= w * q /\ w * q \in Nat
        BY <2>0, <2>1, <2>2, <3>1
      <4> QED
        BY <2>1, <2>2, <4>1
    <3> QED
      BY <2>0, <2>2, <3>1
  <2>4. n = w * q + r + 1 /\ q \in 0..h - 1
    BY <2>0, <2>1, <2>2, <2>3
  <2> QED
    BY <2>1, <2>2, <2>4 DEF q, r
<1>2. \A n \in 1..w * h : RectanglePath(b)[n] =
        [x |-> OutX(b, (n - 1) % w), y |-> OutY(b, (n - 1) \div w), cx |-> (n - 1) % w, cy |-> (n - 1) \div w]
  BY DEF RectanglePath
<1>3. ASSUME NEW cx \in 0..w - 1, NEW cy \in 0..h - 1
      PROVE  /\ w * cy + cx + 1 \in 1..w * h
             /\ ((w * cy + cx + 1) - 1) % w = cx /\ ((w * cy + cx + 1) - 1) \div w = cy
  <2> HIDE DEF w, h
  <2>0. w \in Nat \ {0} /\ h \in Nat /\ cx \in Nat /\ cy \in Nat /\ cy \in Int
    BY <1>0 DEF w, h
  <2>1. w * cy \in Nat /\ w * (cy + 1) <= w * h /\ w * (cy + 1) = w * cy + w /\ w * h \in Nat
    BY <2>0
  <2>2. w * cy + cx + 1 \in 1..w * h /\ (w * cy + cx + 1) - 1 = w * cy + cx /\ w * cy + cx \in Nat
    BY <2>0, <2>1
  <2> DEFINE k == w * cy + cx
  <2>3. k \in Nat /\ k = w * cy + cx
    BY <2>2
  <2> HIDE DEF k
  <2>4. \A q \in Int, r \in 0..w - 1 : k = w * q + r => q = k \div w /\ r = k % w
    BY <2>0, <2>3, DivMod, Zenon
  <2>5. cy = k \div w /\ cx = k % w
    BY <2>0, <2>3, <2>4, Zenon
  <2> QED
    BY <2>2, <2>5 DEF k
<1>4. ASSUME NEW n \in 1..w * h
      PROVE  LET d == RectanglePath(b)[n]
             IN  /\ d.cx \in 0..w - 1 /\ d.cy \in 0..h - 1
                 /\ d.x = OutX(b, d.cx) /\ d.y = OutY(b, d.cy)
                 /\ n = w * d.cy + d.cx + 1
  <2> DEFINE d == RectanglePath(b)[n]
             q == (n - 1) \div w
             t == (n - 1) % w
  <2>0. d = [x |-> OutX(b, t), y |-> OutY(b, q), cx |-> t, cy |-> q]
    BY <1>2
  <2> HIDE DEF d, q, t
  <2>1. d.cx = t /\ d.cy = q /\ d.x = OutX(b, t) /\ d.y = OutY(b, q)
    BY <2>0
  <2> USE DEF q, t
  <2> QED
    BY <1>1, <2>1 DEF d
<1>5. ASSUME NEW cx \in 0..w - 1, NEW cy \in 0..h - 1
      PROVE  /\ w * cy + cx + 1 \in 1..w * h
             /\ RectanglePath(b)[w * cy + cx + 1]
                   = [x |-> OutX(b, cx), y |-> OutY(b, cy), cx |-> cx, cy |-> cy]
  <2> DEFINE k == w * cy + cx + 1
  <2>1. k \in 1..w * h /\ (k - 1) % w = cx /\ (k - 1) \div w = cy
    BY <1>3, Zenon
  <2> HIDE DEF k
  <2>2. RectanglePath(b)[k] = [x |-> OutX(b, (k - 1) % w), y |-> OutY(b, (k - 1) \div w),
                               cx |-> (k - 1) % w, cy |-> (k - 1) \div w]
    BY <1>2, <2>1, Zenon
  <2>3. RectanglePath(b)[k] = [x |-> OutX(b, cx), y |-> OutY(b, cy), cx |-> cx, cy |-> cy]
    BY <2>1, <2>2, Zenon
  <2> QED
    BY <2>1, <2>3 DEF k
<1> QED
  BY <1>4, <1>5

LEMMA OutTypes ==
  ASSUME NEW b \in Commands
  PROVE  /\ \A cx \in 0..b.w - 1 : OutX(b, cx) \in b.dx..b.dx + b.w - 1
         /\ \A cy \in 0..b.h - 1 : OutY(b, cy) \in b.dy..b.dy + b.h - 1
         /\ \A cx, k \in 0..b.w - 1 : OutX(b, cx) = OutX(b, k) => cx = k
         /\ \A cy, k \in 0..b.h - 1 : OutY(b, cy) = OutY(b, k) => cy = k
<1>0. b.w \in Nat /\ b.h \in Nat /\ b.dx \in Int /\ b.dy \in Int
  BY CommandTypes
<1>1. /\ \A cx \in 0..b.w - 1 : OutX(b, cx) \in b.dx..b.dx + b.w - 1
      /\ \A cx, k \in 0..b.w - 1 : OutX(b, cx) = OutX(b, k) => cx = k
  BY <1>0 DEF OutX
<1>2. /\ \A cy \in 0..b.h - 1 : OutY(b, cy) \in b.dy..b.dy + b.h - 1
      /\ \A cy, k \in 0..b.h - 1 : OutY(b, cy) = OutY(b, k) => cy = k
  BY <1>0 DEF OutY
<1> QED
  BY <1>1, <1>2

-----------------------------------------------------------------------------
(* The fast path *)

\* The part of the clip rectangle a fast fill covers.
LEMMA FastSpan ==
  ASSUME NEW b \in Commands
  PROVE  /\ FastX(b).from \in Int /\ FastX(b).to \in Int
         /\ \A x \in Int : x \in FastX(b).from..FastX(b).to
                             <=> x \in Clip(b).x /\ x \in b.dx..b.dx + b.w - 1
         /\ 0 <= FastX(b).from
<1>0. /\ b.w \in Nat /\ b.dx \in Int /\ ResW \in Nat
      /\ b.clip = <<>> \/ /\ b.clip # <<>> /\ b.clip[1] \in Nat /\ b.clip[2] \in Nat
  <2>1. b.clip = <<>> \/ b.clip \in [1..4 -> Word]
    BY DEF Commands, Clips
  <2>2. \A f \in [1..4 -> Word] : f[1] \in Word /\ f[2] \in Word
    OBVIOUS
  <2>3. Word \subseteq Nat
    BY DEF Word
  <2> QED
    BY <2>1, <2>2, <2>3, CommandTypes, BlitterAssumption
<1>1. \A lo \in Nat, hi \in Int, d \in Int, e \in Int :
        /\ Greater(d, lo) \in Int /\ Smaller(e, hi) \in Int /\ 0 <= Greater(d, lo)
        /\ \A x \in Int : x \in Greater(d, lo)..Smaller(e, hi) <=> x \in lo..hi /\ x \in d..e
  BY DEF Smaller, Greater
<1>2. PICK lo \in Nat, hi \in Int : /\ FastX(b).from = Greater(b.dx, lo)
                                   /\ FastX(b).to = Smaller(b.dx + b.w - 1, hi)
                                   /\ Clip(b).x = lo..hi
  <2>1. CASE b.clip = <<>>
    <3>1. 0 \in Nat /\ ResW - 1 \in Int
      BY <1>0
    <3> QED
      BY <2>1, <3>1 DEF FastX, Clip
  <2>2. CASE b.clip # <<>>
    <3>1. b.clip[1] \in Nat /\ b.clip[2] \in Int
      BY <1>0, <2>2
    <3> QED
      BY <2>2, <3>1 DEF FastX, Clip
  <2> QED
    BY <2>1, <2>2
<1>3. b.dx + b.w - 1 \in Int
  BY <1>0
<1>4. LET f == Greater(b.dx, lo)
          t == Smaller(b.dx + b.w - 1, hi)
      IN  /\ f \in Int /\ t \in Int /\ 0 <= f
          /\ \A x \in Int : x \in f..t <=> x \in lo..hi /\ x \in b.dx..b.dx + b.w - 1
  <2> DEFINE e == b.dx + b.w - 1
  <2>1. e \in Int /\ b.dx \in Int
    BY <1>0
  <2> HIDE DEF e
  <2>2. /\ Greater(b.dx, lo) \in Int /\ Smaller(e, hi) \in Int /\ 0 <= Greater(b.dx, lo)
        /\ \A x \in Int : x \in Greater(b.dx, lo)..Smaller(e, hi) <=> x \in lo..hi /\ x \in b.dx..e
    BY <1>1, <2>1
  <2> QED
    BY <2>2 DEF e
<1> QED
  BY <1>2, <1>4, Zenon

\* A dot of a fill in mode 0 stores its colour, if it is in the clip rectangle.
LEMMA FillDot ==
  ASSUME NEW b \in Commands, NEW d \in Dots, NEW v \in Vrams, b.cmd = Fill, ~b.blend,
         NEW a \in 0..VramSize - 1
  PROVE  Dot(v, 0, b, d)[a] =
           IF d.x \in Clip(b).x /\ d.y \in Clip(b).y /\ (d.y * DstStride(b) + d.x) % VramSize = a
           THEN b.color ELSE v[a]
<1>0. /\ 0 \in 0..3 /\ PerByte(0) = 1 /\ Depth(0) = 256 /\ b.color \in Byte
      /\ \A x \in Int : Weight(0, x) = 1
  BY Modes03, WeightOf, CommandTypes
<1>1. /\ Skips(v, 0, b, d) <=> d.x \notin Clip(b).x \/ d.y \notin Clip(b).y
      /\ Source(v, 0, b, d) = b.color
  BY DEF Skips, Source, Fill, MemCopy, MemKeyed, VramKeyed
<1>2. CASE Skips(v, 0, b, d)
  BY <1>0, <1>1, <1>2, DotPuts
<1>3. CASE ~Skips(v, 0, b, d)
  <2> DEFINE A == Address(0, b, d)
  <2>1. /\ d.x \in Nat /\ d.y \in Nat /\ A \in 0..VramSize - 1
        /\ Dot(v, 0, b, d) = [v EXCEPT ![A] = Put(v[A], 0, d.x, NewPart(v, 0, b, d))]
    BY <1>0, <1>3, DotPuts
  <2>2. A = (d.y * DstStride(b) + d.x) % VramSize
    <3>1. DstStride(b) \in Nat
      BY CommandTypes
    <3> QED
      BY <1>0, <2>1, <3>1 DEF Address, AddressOf
  <2>3. NewPart(v, 0, b, d) = b.color
    BY <1>0, <1>1 DEF NewPart, Combined, Fill, XorFill, Byte
  <2>4. v[A] \in Byte /\ DOMAIN v = 0..VramSize - 1
    BY <2>1 DEF Vrams
  <2>5. Put(v[A], 0, d.x, b.color) = b.color
    <3>1. \A p \in Byte, q \in Byte : p + (q - ((p \div 1) % 256)) * 1 = q
      BY DEF Byte
    <3>2. Weight(0, d.x) = 1
      BY <1>0, <2>1
    <3> HIDE DEF A
    <3> QED
      BY <1>0, <2>4, <3>1, <3>2 DEF Put, Part
  <2> HIDE DEF A
  <2>6. Dot(v, 0, b, d)[a] = IF A = a THEN b.color ELSE v[a]
    BY <2>1, <2>3, <2>4, <2>5
  <2> QED
    BY <1>1, <1>3, <2>2, <2>6
<1> QED
  BY <1>2, <1>3

\* What a path of such dots has stored.
Stored(b, path, n, a) ==
    \E k \in 1..n : /\ path[k].x \in Clip(b).x /\ path[k].y \in Clip(b).y
                    /\ (path[k].y * DstStride(b) + path[k].x) % VramSize = a

LEMMA FillPath ==
  ASSUME NEW b \in Commands, NEW path \in Seq(Dots), NEW v \in Vrams, b.cmd = Fill, ~b.blend,
         NEW a \in 0..VramSize - 1
  PROVE  Drawn(v, 0, b, path)[a] = IF Stored(b, path, Len(path), a) THEN b.color ELSE v[a]
<1>0. 0 \in 0..3 /\ Len(path) \in Nat /\ \A n \in 1..Len(path) : path[n] \in Dots
  OBVIOUS
<1> DEFINE f == After(v, 0, b, path)
           S == {n \in 0..Len(path) : f[n][a] = IF Stored(b, path, n, a) THEN b.color ELSE v[a]}
<1>1. f[0] = v /\ \A n \in 1..Len(path) : f[n] = Dot(f[n - 1], 0, b, path[n])
  BY <1>0, AfterSteps
<1>2. \A n \in 0..Len(path) : f[n] \in Vrams
  BY <1>0, AfterTypes
<1> HIDE DEF f
<1>3. 0 \in S
  BY <1>0, <1>1 DEF Stored
<1>4. \A n \in 0..Len(path) - 1 : n \in S => n + 1 \in S
  <2> SUFFICES ASSUME NEW n \in 0..Len(path) - 1, n \in S PROVE n + 1 \in S
    OBVIOUS
  <2>1. n + 1 \in 1..Len(path) /\ n + 1 \in 0..Len(path) /\ (n + 1) - 1 = n /\ n \in 0..Len(path) /\ n \in Nat
    BY <1>0
  <2> DEFINE d == path[n + 1]
             Hit(e) == e.x \in Clip(b).x /\ e.y \in Clip(b).y /\ (e.y * DstStride(b) + e.x) % VramSize = a
  <2>2. f[n + 1][a] = IF Hit(d) THEN b.color ELSE f[n][a]
    <3>1. f[n + 1] = Dot(f[n], 0, b, d)
      BY <1>1, <2>1
    <3>2. d \in Dots /\ f[n] \in Vrams
      BY <1>0, <1>2, <2>1
    <3> QED
      BY <3>1, <3>2, FillDot
  <2>3. Stored(b, path, n + 1, a) <=> Hit(d) \/ Stored(b, path, n, a)
    <3>1. \A k : Stored(b, path, k, a) <=> \E i \in 1..k : Hit(path[i])
      BY DEF Stored
    <3> HIDE DEF Hit
    <3>2. \A i : i \in 1..n + 1 <=> i \in 1..n \/ i = n + 1
      BY <2>1
    <3> QED
      BY <3>1, <3>2
  <2> QED
    BY <2>1, <2>2, <2>3
<1>5. 0..Len(path) \subseteq S
  <2> HIDE DEF S
  <2> QED
    BY <1>0, <1>3, <1>4, UpTo
<1> QED
  BY <1>0, <1>5 DEF Drawn, f

LEMMA FastIsGeneral ==
  ASSUME NEW b \in Commands, NEW v \in Vrams, NEW m \in 0..3, FastApplies(m, b), RowsWithin(b)
  PROVE  FastFill(v, b) = General(v, m, b)
<1> DEFINE from == FastX(b).from
           to == FastX(b).to
           stride == DstStride(b)
           Rows == Clip(b).y \cap (b.dy..b.dy + b.h - 1)
           path == RectanglePath(b)
           starts == {(y * stride + from) % VramSize : y \in Rows}
<1>0. /\ m = 0 /\ b.cmd = Fill /\ ~b.flipx /\ ~b.flipy /\ ~b.blend
      /\ from \in Int /\ to \in Int /\ 0 <= from /\ from <= to /\ stride \in Nat
      /\ b.dx \in Int /\ b.dy \in Int /\ b.w \in Nat /\ b.h \in Nat
      /\ path \in Seq(Dots) /\ Len(path) = b.w * b.h
  BY FastSpan, CommandTypes, PathTypes DEF FastApplies
<1>1. VramSize \in Nat \ {0}
  <2>1. ResW * ResH \in Nat
    BY BlitterAssumption
  <2> QED
    BY <2>1, BlitterAssumption
<1>2. \A cx \in Int, cy \in Int : OutX(b, cx) = b.dx + cx /\ OutY(b, cy) = b.dy + cy
  BY <1>0 DEF OutX, OutY
<1>20. /\ \A y \in Rows : y \in Nat /\ ((y * stride + from) % VramSize) + (to - from) < VramSize
       /\ \A x \in Int : x \in from..to <=> x \in Clip(b).x /\ x \in b.dx..b.dx + b.w - 1
       /\ \A y : y \in Rows <=> y \in Clip(b).y /\ y \in b.dy..b.dy + b.h - 1
  <2>1. \A y \in Rows : y \in Nat
    BY CommandTypes
  <2>2. \A x \in Int : x \in from..to <=> x \in Clip(b).x /\ x \in b.dx..b.dx + b.w - 1
    BY FastSpan
  <2> QED
    BY <2>1, <2>2 DEF RowsWithin
<1>21. FastFill(v, b) = [a \in DOMAIN v |-> IF \E s \in starts : a \in s..s + (to - from) THEN b.color ELSE v[a]]
  <2>1. Rows = {y \in Clip(b).y : y \in b.dy..b.dy + b.h - 1}
    OBVIOUS
  <2> HIDE DEF Rows
  <2> QED
    BY <2>1 DEF FastFill
<1>22. \A a \in 0..VramSize - 1 :
         Stored(b, path, b.w * b.h, a)
           <=> \E k \in 1..b.w * b.h : /\ path[k].x \in Clip(b).x /\ path[k].y \in Clip(b).y
                                       /\ (path[k].y * stride + path[k].x) % VramSize = a
  BY DEF Stored
<1>23. /\ \A k \in 1..b.w * b.h : path[k].x \in b.dx..b.dx + b.w - 1 /\ path[k].y \in b.dy..b.dy + b.h - 1
       /\ \A cx \in 0..b.w - 1, cy \in 0..b.h - 1 :
            \E k \in 1..b.w * b.h : path[k].x = OutX(b, cx) /\ path[k].y = OutY(b, cy)
  <2>1. ASSUME NEW k \in 1..b.w * b.h
        PROVE  path[k].x \in b.dx..b.dx + b.w - 1 /\ path[k].y \in b.dy..b.dy + b.h - 1
    <3>1. /\ path[k].cx \in 0..b.w - 1 /\ path[k].cy \in 0..b.h - 1
          /\ path[k].x = OutX(b, path[k].cx) /\ path[k].y = OutY(b, path[k].cy)
      BY Cells
    <3> HIDE DEF path
    <3> QED
      BY <3>1, OutTypes
  <2>2. ASSUME NEW cx \in 0..b.w - 1, NEW cy \in 0..b.h - 1
        PROVE  \E k \in 1..b.w * b.h : path[k].x = OutX(b, cx) /\ path[k].y = OutY(b, cy)
    <3> DEFINE k == b.w * cy + cx + 1
    <3>1. k \in 1..b.w * b.h /\ path[k] = [x |-> OutX(b, cx), y |-> OutY(b, cy), cx |-> cx, cy |-> cy]
      BY Cells
    <3> HIDE DEF k, path
    <3> QED
      BY <3>1
  <2> QED
    BY <2>1, <2>2
<1> HIDE DEF from, to, stride, Rows, path
<1>3. ASSUME NEW y \in Rows, NEW x \in from..to
      PROVE  /\ (y * stride + from) % VramSize \in Nat
             /\ (y * stride + x) % VramSize = ((y * stride + from) % VramSize) + (x - from)
  <2> DEFINE r == (y * stride + from) % VramSize
             q == (y * stride + from) \div VramSize
             g == y * stride + from
  <2>1. y \in Nat /\ y * stride \in Nat /\ g \in Nat
    <3>1. y \in Nat
      BY <1>20
    <3>2. y * stride \in Nat
      BY <1>0, <3>1
    <3> QED
      BY <1>0, <3>1, <3>2
  <2>2. q \in Nat /\ r \in 0..VramSize - 1 /\ g = VramSize * q + r
    BY <1>1, <2>1, DivMod, Zenon
  <2>3. r + (to - from) < VramSize
    BY <1>20, Zenon
  <2> HIDE DEF r, q, g
  <2> DEFINE z == g + (x - from)
             t == r + (x - from)
  <2>4. t \in 0..VramSize - 1 /\ z \in Nat /\ z = VramSize * q + t /\ q \in Int
    <3>1. VramSize * q \in Nat
      BY <1>1, <2>2
    <3> QED
      BY <1>0, <1>1, <2>1, <2>2, <2>3, <3>1
  <2> HIDE DEF z, t
  <2>5. t = z % VramSize
    <3>1. \A k \in Int, s \in 0..VramSize - 1 : z = VramSize * k + s => k = z \div VramSize /\ s = z % VramSize
      BY <1>1, <2>4, DivMod, Zenon
    <3> QED
      BY <2>4, <3>1, Zenon
  <2>6. y * stride + x = z
    BY <1>0, <2>1 DEF z, g
  <2> QED
    BY <2>2, <2>5, <2>6 DEF t, r
<1>4. ASSUME NEW a \in 0..VramSize - 1
      PROVE  Stored(b, path, b.w * b.h, a) <=> \E s \in starts : a \in s..s + (to - from)
  <2>1. ASSUME Stored(b, path, b.w * b.h, a)
        PROVE  \E s \in starts : a \in s..s + (to - from)
    <3>1. PICK k \in 1..b.w * b.h : /\ path[k].x \in Clip(b).x /\ path[k].y \in Clip(b).y
                                    /\ (path[k].y * stride + path[k].x) % VramSize = a
      BY <1>22, <2>1
    <3> DEFINE x == path[k].x
               y == path[k].y
    <3>2. x \in b.dx..b.dx + b.w - 1 /\ y \in b.dy..b.dy + b.h - 1
      BY <1>23
    <3>3. x \in Int /\ y \in Rows
      BY SMTT(30), <1>0, <1>20, <3>1, <3>2
    <3>4. x \in from..to
      BY <1>20, <3>1, <3>2, <3>3
    <3>5. (y * stride + x) % VramSize = a
      BY <3>1
    <3> HIDE DEF x, y
    <3> DEFINE s == (y * stride + from) % VramSize
    <3>6. s \in starts /\ s \in Nat /\ a = s + (x - from)
      BY <1>3, <3>3, <3>4, <3>5
    <3>7. a \in s..s + (to - from)
      <4> HIDE DEF s
      <4> QED
        BY <1>0, <3>4, <3>6
    <3> QED
      BY <3>6, <3>7
  <2>2. ASSUME NEW s \in starts, a \in s..s + (to - from)
        PROVE  Stored(b, path, b.w * b.h, a)
    <3>1. PICK y \in Rows : s = (y * stride + from) % VramSize
      OBVIOUS
    <3> DEFINE x == from + (a - s)
    <3>2. s \in Nat
      <4>1. from \in from..to
        BY <1>0
      <4> QED
        BY <1>3, <3>1, <4>1
    <3>3. x \in Int /\ x \in from..to
      <4> HIDE DEF starts
      <4> QED
        BY <1>0, <2>2, <3>2
    <3>4. x \in Clip(b).x /\ x \in b.dx..b.dx + b.w - 1
      BY <1>20, <3>3, Zenon
    <3>5. (y * stride + x) % VramSize = a
      <4>1. (y * stride + x) % VramSize = s + (x - from)
        BY <1>3, <3>1, <3>3
      <4> QED
        BY <1>0, <3>2, <4>1
    <3>6. x - from = a - s
      BY <1>0, <3>2
    <3> HIDE DEF x
    <3>7. y \in Clip(b).y /\ y \in b.dy..b.dy + b.h - 1
      BY <1>20, <3>1, Zenon
    <3> DEFINE cx == x - b.dx
               cy == y - b.dy
    <3>8. cx \in 0..b.w - 1 /\ b.dx + cx = x
      BY SMTT(30), <1>0, <3>3, <3>4
    <3>9. cy \in 0..b.h - 1 /\ b.dy + cy = y
      BY SMTT(30), <1>0, <3>7
    <3> HIDE DEF cx, cy
    <3>10. OutX(b, cx) = x /\ OutY(b, cy) = y
      BY <1>2, <3>8, <3>9
    <3>11. PICK k \in 1..b.w * b.h : path[k].x = x /\ path[k].y = y
      BY <1>23, <3>8, <3>9, <3>10
    <3> QED
      BY <1>22, <3>4, <3>5, <3>7, <3>11
  <2> QED
    BY <2>1, <2>2
<1> HIDE DEF starts
<1>5. ASSUME NEW a \in 0..VramSize - 1
      PROVE  General(v, m, b)[a] = IF \E s \in starts : a \in s..s + (to - from) THEN b.color ELSE v[a]
  <2>1. Drawn(v, 0, b, path)[a] = IF Stored(b, path, Len(path), a) THEN b.color ELSE v[a]
    BY <1>0, FillPath
  <2>2. General(v, m, b) = Drawn(v, 0, b, path)
    BY <1>0 DEF General, path
  <2> QED
    BY <1>0, <1>4, <2>1, <2>2
<1>6. General(v, m, b) \in Vrams
  BY <1>0, AfterTypes DEF General, path
<1> QED
  BY <1>5, <1>6, <1>21 DEF Vrams

\* What a command does to VRAM, and what it finds.
LEMMA CommandStep ==
  ASSUME BlitterTypes, [Next]_vars, job' # job
  PROVE  /\ Head(job) \in Commands /\ vram \in Vrams /\ mode \in 0..3
         /\ vram' = execute_blit(vram, mode, Head(job))
<1>1. Command
  BY DEF Next, Render, BeginFrame, UnpackRow, Present, vars
<1> QED
  BY <1>1 DEF Command, BlitterTypes

\* FillsAgree: the fast path of blit_rectangle is the general one made fast.
THEOREM FastPathIsRight == Spec => FillsAgree
<1> DEFINE b == Head(job)
           A == Given({Fill}) /\ FastApplies(mode, b) /\ RowsWithin(b) => vram' = General(vram, mode, b)
<1>1. ASSUME BlitterTypes, [Next]_vars PROVE [A]_vars
  <2> SUFFICES ASSUME Given({Fill}), FastApplies(mode, b), RowsWithin(b) PROVE vram' = General(vram, mode, b)
    OBVIOUS
  <2>1. /\ b \in Commands /\ vram \in Vrams /\ mode \in 0..3
        /\ vram' = execute_blit(vram, mode, b)
    BY <1>1, CommandStep DEF Given
  <2>2. execute_blit(vram, mode, b) = FastFill(vram, b)
    BY DEF execute_blit, blit_rectangle, FastApplies, Fill, Line
  <2> HIDE DEF b
  <2> QED
    BY <2>1, <2>2, FastIsGeneral
<1>2. BlitterTypes /\ [Next]_vars => [A]_vars
  BY <1>1
<1> HIDE DEF A
<1>3. [][Next]_vars /\ []BlitterTypes => [][A]_vars
  BY <1>2, PTL
<1>4. [][A]_vars => FillsAgree
  BY PTL DEF A, FillsAgree
<1> QED
  BY <1>3, <1>4, Types, PTL DEF Spec

-----------------------------------------------------------------------------
(* Pixels on the screen *)

PixelAt(v, m, p) == read_pixel_vram(v, m, p[1], p[2], ResW)
Behinds(m) == (ResW * ResH) \div PerByte(m)..VramSize - 1     \* bytes behind the screen
\* A command that draws on the screen alone.
OnScreen(b) == b \in Commands /\ DstStride(b) = ResW /\ ClipOnScreen(b)

LEMMA PixelAtIs ==
  ASSUME NEW m \in 0..3, NEW v \in Vrams, NEW p \in Screen
  PROVE  /\ p[1] \in 0..ResW - 1 /\ p[2] \in 0..ResH - 1 /\ p = <<p[1], p[2]>>
         /\ AddressOf(m, p[1], p[2], ResW) \in 0..VramSize - 1
         /\ AddressOf(m, p[1], p[2], ResW) \notin Behinds(m)
         /\ PixelAt(v, m, p) = Part(v[AddressOf(m, p[1], p[2], ResW)], m, p[1])
         /\ PixelAt(v, m, p) \in 0..Depth(m) - 1
<1>1. p[1] \in 0..ResW - 1 /\ p[2] \in 0..ResH - 1 /\ p = <<p[1], p[2]>>
  BY DEF Screen
<1> DEFINE A == AddressOf(m, p[1], p[2], ResW)
           N == (ResW * ResH) \div PerByte(m)
<1>2. A \in 0..VramSize - 17 /\ A < N
  BY <1>1, PixelsOnScreen
<1> HIDE DEF A, N
<1>3. N \in Int
  <2>1. ResW * ResH \in Int
    BY BlitterAssumption
  <2> QED
    BY <2>1, Modes03 DEF N
<1>4. A \in 0..VramSize - 1 /\ A \notin N..VramSize - 1
  BY <1>2, <1>3, BlitterAssumption
<1>5. PixelAt(v, m, p) = Part(v[A], m, p[1])
  BY <1>4 DEF PixelAt, read_pixel_vram, Vrams, A
<1>6. v[A] \in Byte /\ p[1] \in Int
  BY <1>1, <1>4 DEF Vrams
<1>7. Part(v[A], m, p[1]) \in 0..Depth(m) - 1
  BY <1>6, PartFits, Zenon
<1> QED
  BY <1>1, <1>4, <1>5, <1>7 DEF A, N, Behinds

\* A dot on the screen changes its own pixel and no other, nor any byte behind the screen.
LEMMA DotOnScreen ==
  ASSUME NEW m \in 0..3, NEW b, OnScreen(b), NEW d \in Dots, NEW v \in Vrams
  PROVE  /\ ~Skips(v, m, b, d) =>
              LET p == <<d.x, d.y>>
              IN  /\ p \in Screen
                  /\ PixelAt(Dot(v, m, b, d), m, p)
                       = Combined(m, b, PixelAt(v, m, p), Source(v, m, b, d))
         /\ \A p \in Screen : p # <<d.x, d.y>> \/ Skips(v, m, b, d)
              => PixelAt(Dot(v, m, b, d), m, p) = PixelAt(v, m, p)
         /\ \A a \in Behinds(m) : Dot(v, m, b, d)[a] = v[a]
<1>0. b \in Commands /\ DstStride(b) = ResW /\ ClipOnScreen(b)
  BY DEF OnScreen
<1>1. CASE Skips(v, m, b, d)
  <2>1. Dot(v, m, b, d) = v
    BY <1>0, <1>1, DotPuts
  <2> QED
    BY <1>1, <2>1
<1>2. CASE ~Skips(v, m, b, d)
  <2> DEFINE x == d.x
             y == d.y
             c == NewPart(v, m, b, d)
             u == Dot(v, m, b, d)
             A == Address(m, b, d)
  <2>1. x \in 0..ResW - 1 /\ y \in 0..ResH - 1
    BY <1>0, <1>2 DEF Skips, ClipOnScreen
  <2>2. <<x, y>> \in Screen
    BY <2>1 DEF Screen
  <2>3. A = AddressOf(m, x, y, ResW) /\ A \in 0..VramSize - 1 /\ A \notin Behinds(m)
    <3> DEFINE q == <<x, y>>
    <3>1. q[1] = x /\ q[2] = y /\ q \in Screen
      BY <2>2
    <3> HIDE DEF q
    <3>2. AddressOf(m, x, y, ResW) \in 0..VramSize - 1 /\ AddressOf(m, x, y, ResW) \notin Behinds(m)
      BY <3>1, PixelAtIs
    <3>3. A = AddressOf(m, x, y, ResW) % VramSize
      BY <1>0 DEF Address
    <3>4. \A n \in 0..VramSize - 1 : n % VramSize = n
      BY BlitterAssumption
    <3> HIDE DEF x, y, A
    <3> QED
      BY <3>2, <3>3, <3>4
  <2>4. /\ c \in 0..Depth(m) - 1
        /\ u = [v EXCEPT ![A] = Put(v[A], m, x, c)]
    BY <1>0, <1>2, DotPuts
  <2>5. u \in Vrams
    BY <1>0, DotPuts
  <2>6. c = Combined(m, b, Part(v[A], m, x), Source(v, m, b, d))
    BY DEF NewPart
  <2>7. v[A] \in Byte /\ x \in Int
    BY <2>1, <2>3 DEF Vrams
  <2> HIDE DEF x, y, c, u, A
  <2>8. /\ Part(Put(v[A], m, x, c), m, x) = c
        /\ \A z \in Int : z % PerByte(m) # x % PerByte(m)
                            => Part(Put(v[A], m, x, c), m, z) = Part(v[A], m, z)
    BY <2>4, <2>7, PutOne
  <2>9. \A a \in 0..VramSize - 1 : u[a] = IF a = A THEN Put(v[A], m, x, c) ELSE v[a]
    BY <2>3, <2>4 DEF Vrams
  <2>10. ASSUME NEW p \in Screen
         PROVE  PixelAt(u, m, p) = IF p = <<x, y>> THEN Combined(m, b, PixelAt(v, m, p), Source(v, m, b, d))
                                   ELSE PixelAt(v, m, p)
    <3> DEFINE P == AddressOf(m, p[1], p[2], ResW)
    <3>1. /\ p[1] \in 0..ResW - 1 /\ p[2] \in 0..ResH - 1 /\ p = <<p[1], p[2]>>
          /\ P \in 0..VramSize - 1
          /\ PixelAt(v, m, p) = Part(v[P], m, p[1])
          /\ PixelAt(u, m, p) = Part(u[P], m, p[1])
      BY <2>5, PixelAtIs
    <3>2. CASE p = <<x, y>>
      <4>1. p[1] = x /\ P = A
        BY <2>3, <3>2
      <4> QED
        BY <2>6, <2>8, <2>9, <3>1, <3>2, <4>1
    <3>3. CASE p # <<x, y>> /\ P # A
      BY <2>9, <3>1, <3>3
    <3>4. CASE p # <<x, y>> /\ P = A
      <4>1. p[1] % PerByte(m) # x % PerByte(m)
        <5>1. ~(p[1] = x /\ p[2] = y)
          BY <3>1, <3>4
        <5> HIDE DEF P
        <5>2. AddressOf(m, p[1], p[2], ResW) = AddressOf(m, x, y, ResW)
          BY <2>3, <3>4 DEF P
        <5> QED
          BY <2>1, <3>1, <5>1, <5>2, PixelsOnScreen DEF x, y
      <4>2. p[1] \in Int
        BY <3>1
      <4> QED
        BY <2>8, <2>9, <3>1, <3>4, <4>1, <4>2
    <3> QED
      BY <3>2, <3>3, <3>4
  <2>11. ASSUME NEW a \in Behinds(m) PROVE u[a] = v[a]
    <3>1. a # A
      BY <2>3
    <3> QED
      BY <2>4, <3>1 DEF Vrams
  <2> QED
    BY <1>2, <2>2, <2>10, <2>11 DEF x, y, u
<1> QED
  BY <1>1, <1>2

\* The two facts most steps need: a dot leaves every other pixel, and
\* everything behind the screen.
LEMMA DotElsewhere ==
  ASSUME NEW m \in 0..3, NEW b, OnScreen(b), NEW d \in Dots, NEW v \in Vrams,
         NEW p \in Screen, p # <<d.x, d.y>> \/ Skips(v, m, b, d)
  PROVE  PixelAt(Dot(v, m, b, d), m, p) = PixelAt(v, m, p)
BY ZenonT(40), DotOnScreen

LEMMA DotBehind ==
  ASSUME NEW m \in 0..3, NEW b, OnScreen(b), NEW d \in Dots, NEW v \in Vrams,
         NEW a \in Behinds(m)
  PROVE  Dot(v, m, b, d)[a] = v[a]
BY DotOnScreen

\* A dot that is outside the clip rectangle or at another place than p.
Misses(b, d, p) == d.x \notin Clip(b).x \/ d.y \notin Clip(b).y \/ p # <<d.x, d.y>>

\* A stretch of a path that does not hit a pixel keeps it.
LEMMA PathKeeps ==
  ASSUME NEW m \in 0..3, NEW b, OnScreen(b), NEW path \in Seq(Dots), NEW v \in Vrams,
         NEW lo \in 0..Len(path), NEW hi \in lo..Len(path), NEW p \in Screen,
         \A k \in lo + 1..hi : Misses(b, path[k], p)
  PROVE  PixelAt(After(v, m, b, path)[hi], m, p) = PixelAt(After(v, m, b, path)[lo], m, p)
<1>0. b \in Commands /\ Len(path) \in Nat /\ \A n \in 1..Len(path) : path[n] \in Dots
  BY DEF OnScreen
<1> DEFINE f == After(v, m, b, path)
           S == {j \in 0..hi - lo : PixelAt(f[lo + j], m, p) = PixelAt(f[lo], m, p)}
<1>1. \A n \in 1..Len(path) : f[n] = Dot(f[n - 1], m, b, path[n])
  BY <1>0, AfterSteps
<1>2. \A n \in 0..Len(path) : f[n] \in Vrams
  BY <1>0, AfterTypes
<1> HIDE DEF f
<1>3. 0 \in S
  <2>1. 0 \in 0..hi - lo /\ lo + 0 = lo
    BY <1>0
  <2> QED
    BY <2>1
<1>4. \A j \in 0..(hi - lo) - 1 : j \in S => j + 1 \in S
  <2> SUFFICES ASSUME NEW j \in 0..(hi - lo) - 1, j \in S PROVE j + 1 \in S
    OBVIOUS
  <2> DEFINE n == lo + j
  <2>1. /\ j + 1 \in 0..hi - lo /\ lo + (j + 1) = n + 1 /\ n \in 0..Len(path) /\ n + 1 \in 1..Len(path)
        /\ n + 1 \in lo + 1..hi /\ (n + 1) - 1 = n
    BY <1>0
  <2> HIDE DEF n
  <2>2. f[n + 1] = Dot(f[n], m, b, path[n + 1]) /\ f[n] \in Vrams /\ path[n + 1] \in Dots
    BY <1>0, <1>1, <1>2, <2>1
  <2>3. Misses(b, path[n + 1], p)
    BY <2>1
  <2>4. PixelAt(f[n + 1], m, p) = PixelAt(f[n], m, p)
    <3> DEFINE g == f[n]
               d == path[n + 1]
    <3>0. f[n + 1] = Dot(g, m, b, d)
      BY <2>2
    <3>1. g \in Vrams /\ d \in Dots
      BY <2>2
    <3>2. p # <<d.x, d.y>> \/ Skips(g, m, b, d)
      BY <2>3 DEF Misses, Skips
    <3> HIDE DEF g, d, S
    <3>3. PixelAt(Dot(g, m, b, d), m, p) = PixelAt(g, m, p)
      BY <3>1, <3>2, DotElsewhere
    <3> QED
      BY <3>0, <3>3 DEF g
  <2>5. PixelAt(f[n], m, p) = PixelAt(f[lo], m, p)
    BY DEF n
  <2> QED
    BY <2>1, <2>4, <2>5
<1>5. 0..hi - lo \subseteq S
  <2>1. hi - lo \in Nat
    BY <1>0
  <2> HIDE DEF S
  <2> QED
    BY <1>3, <1>4, <2>1, UpTo
<1>6. hi - lo \in 0..hi - lo /\ lo + (hi - lo) = hi
  BY <1>0
<1>7. PixelAt(f[lo + (hi - lo)], m, p) = PixelAt(f[lo], m, p)
  BY <1>5, <1>6
<1> QED
  BY <1>6, <1>7 DEF f

LEMMA PathKeepsBehind ==
  ASSUME NEW m \in 0..3, NEW b, OnScreen(b), NEW path \in Seq(Dots), NEW v \in Vrams,
         NEW a \in Behinds(m)
  PROVE  Drawn(v, m, b, path)[a] = v[a]
<1>0. b \in Commands /\ Len(path) \in Nat /\ \A n \in 1..Len(path) : path[n] \in Dots
  BY DEF OnScreen
<1> DEFINE f == After(v, m, b, path)
           S == {j \in 0..Len(path) : f[j][a] = v[a]}
<1>1. f[0] = v /\ \A n \in 1..Len(path) : f[n] = Dot(f[n - 1], m, b, path[n])
  BY <1>0, AfterSteps
<1>2. \A n \in 0..Len(path) : f[n] \in Vrams
  BY <1>0, AfterTypes
<1> HIDE DEF f
<1>3. 0 \in S
  BY <1>0, <1>1
<1>4. \A n \in 0..Len(path) - 1 : n \in S => n + 1 \in S
  <2> SUFFICES ASSUME NEW n \in 0..Len(path) - 1, n \in S PROVE n + 1 \in S
    OBVIOUS
  <2>1. n + 1 \in 1..Len(path) /\ n + 1 \in 0..Len(path) /\ (n + 1) - 1 = n /\ n \in 0..Len(path)
    BY <1>0
  <2>2. f[n + 1] = Dot(f[n], m, b, path[n + 1]) /\ f[n] \in Vrams /\ path[n + 1] \in Dots
    BY <1>0, <1>1, <1>2, <2>1
  <2>3. f[n + 1][a] = f[n][a]
    <3> DEFINE g == f[n]
               d == path[n + 1]
    <3>1. g \in Vrams /\ d \in Dots /\ f[n + 1] = Dot(g, m, b, d)
      BY <2>2
    <3> HIDE DEF g, d
    <3>2. Dot(g, m, b, d)[a] = g[a]
      BY <3>1, DotBehind
    <3> QED
      BY <3>1, <3>2 DEF g
  <2> QED
    BY <2>1, <2>3
<1>5. 0..Len(path) \subseteq S
  <2> HIDE DEF S
  <2> QED
    BY <1>0, <1>3, <1>4, UpTo
<1> QED
  BY <1>0, <1>5 DEF Drawn, f

\* A pixel that changed is on the path, in the clip rectangle.
LEMMA PathStays ==
  ASSUME NEW m \in 0..3, NEW b, OnScreen(b), NEW path \in Seq(Dots), NEW v \in Vrams,
         NEW p \in Screen, PixelAt(Drawn(v, m, b, path), m, p) # PixelAt(v, m, p)
  PROVE  \E n \in 1..Len(path) :
           p = <<path[n].x, path[n].y>> /\ path[n].x \in Clip(b).x /\ path[n].y \in Clip(b).y
<1>0. Len(path) \in Nat /\ 0 \in 0..Len(path) /\ Len(path) \in 0..Len(path)
  OBVIOUS
<1>1. After(v, m, b, path)[0] = v
  BY <1>0, AfterSteps
<1>2. PICK k \in 0 + 1..Len(path) : ~Misses(b, path[k], p)
  BY <1>0, <1>1, PathKeeps DEF Drawn
<1>3. p = <<path[k].x, path[k].y>> /\ path[k].x \in Clip(b).x /\ path[k].y \in Clip(b).y /\ k \in 1..Len(path)
  BY <1>2 DEF Misses
<1> QED
  BY <1>3

-----------------------------------------------------------------------------
(* What a command on the screen changes *)

LEMMA ScreenRowsWithin ==
  ASSUME NEW m, NEW b, OnScreen(b), FastApplies(m, b)
  PROVE  RowsWithin(b)
<1> DEFINE from == FastX(b).from
           to == FastX(b).to
<1>0. b \in Commands /\ DstStride(b) = ResW /\ ClipOnScreen(b)
  BY DEF OnScreen
<1>1. /\ from \in 0..ResW - 1 /\ to \in 0..ResW - 1 /\ from <= to
  <2>1. from \in Int /\ to \in Int /\ from <= to
    BY <1>0, FastSpan DEF FastApplies
  <2>2. from \in from..to /\ to \in from..to
    BY <2>1
  <2>3. from \in Clip(b).x /\ to \in Clip(b).x
    BY <1>0, <2>1, <2>2, FastSpan
  <2> QED
    BY <1>0, <2>1, <2>3 DEF ClipOnScreen
<1> HIDE DEF from, to
<1>2. ASSUME NEW y \in 0..ResH - 1
      PROVE  ((y * ResW + from) % VramSize) + (to - from) < VramSize
  <2>1. /\ ResW \in Nat /\ ResH \in Nat /\ VramSize \in Nat /\ ResW * ResH \in Nat
        /\ ResW * ResH + 16 <= VramSize
    BY BlitterAssumption
  <2>2. y * ResW \in Nat /\ y * ResW <= ResW * ResH - ResW
    <3>1. y + 1 <= ResH /\ y \in Nat
      BY <2>1
    <3>2. (y + 1) * ResW <= ResH * ResW /\ (y + 1) * ResW = y * ResW + ResW /\ ResH * ResW = ResW * ResH
      BY <2>1, <3>1
    <3>3. y * ResW \in Nat
      BY <2>1, <3>1
    <3> QED
      BY <2>1, <3>2, <3>3
  <2> DEFINE g == y * ResW + from
  <2>3. g \in 0..VramSize - 1 /\ g + (to - from) < VramSize
    BY <1>1, <2>1, <2>2
  <2> HIDE DEF g
  <2>4. g % VramSize = g
    BY <2>1, <2>3
  <2> QED
    BY <2>3, <2>4 DEF g
<1>3. Clip(b).y \subseteq 0..ResH - 1
  BY <1>0 DEF ClipOnScreen
<1> QED
  BY <1>0, <1>2, <1>3 DEF RowsWithin, from, to

PathOf(b) == IF b.cmd = Line THEN LinePath(b) ELSE RectanglePath(b)

LEMMA BlitDraws ==
  ASSUME NEW m \in 0..3, NEW b, OnScreen(b), b.cmd \in Fill..Line, NEW v \in Vrams
  PROVE  /\ execute_blit(v, m, b) = Drawn(v, m, b, PathOf(b))
         /\ PathOf(b) \in Seq(Dots)
<1>0. b \in Commands /\ b.cmd # 0
  BY DEF OnScreen, Fill, Line
<1>1. PathOf(b) \in Seq(Dots)
  BY <1>0, PathTypes DEF PathOf
<1>2. CASE b.cmd = Line
  BY <1>0, <1>1, <1>2 DEF execute_blit, blit_line, PathOf
<1>3. CASE b.cmd # Line
  <2>1. blit_rectangle(v, m, b) = General(v, m, b)
    BY <1>0, ScreenRowsWithin, FastIsGeneral DEF blit_rectangle
  <2> QED
    BY <1>0, <1>1, <1>3, <2>1 DEF execute_blit, General, PathOf
<1> QED
  BY <1>1, <1>2, <1>3

LEMMA PathAsked ==
  ASSUME NEW b \in Commands, NEW n \in 1..Len(PathOf(b))
  PROVE  LET d == PathOf(b)[n]
         IN  IF b.cmd = Line
             THEN /\ d.x \in Smaller(b.sx, b.dx)..Greater(b.sx, b.dx)
                  /\ d.y \in Smaller(b.sy, b.dy)..Greater(b.sy, b.dy)
             ELSE d.x \in b.dx..b.dx + b.w - 1 /\ d.y \in b.dy..b.dy + b.h - 1
<1>1. CASE b.cmd = Line
  <2>1. n - 1 \in 0..Steps(b) /\ n \in 1..Steps(b) + 1 /\ Last(b) = Steps(b)
    BY <1>1, PathTypes, LineTrack DEF PathOf
  <2>2. LinePath(b)[n] = [x |-> Track(b)[n - 1].x, y |-> Track(b)[n - 1].y, cx |-> 0, cy |-> 0]
    BY <2>1 DEF LinePath
  <2> QED
    BY <1>1, <2>1, <2>2, LinePlaces DEF PathOf
<1>2. CASE b.cmd # Line
  <2>1. n \in 1..b.w * b.h /\ PathOf(b) = RectanglePath(b)
    BY <1>2, PathTypes DEF PathOf
  <2>2. /\ RectanglePath(b)[n].cx \in 0..b.w - 1 /\ RectanglePath(b)[n].cy \in 0..b.h - 1
        /\ RectanglePath(b)[n].x = OutX(b, RectanglePath(b)[n].cx)
        /\ RectanglePath(b)[n].y = OutY(b, RectanglePath(b)[n].cy)
    BY <2>1, Cells
  <2> QED
    BY <1>2, <2>1, <2>2, OutTypes
<1> QED
  BY <1>1, <1>2

\* OnlyAskedPixels: a command on the screen changes no pixel outside its
\* rectangle or box and its clip rectangle, and no byte behind the screen.
THEOREM NothingElseIsDrawn == Spec => OnlyAskedPixels
<1> DEFINE b == Head(job)
           E == /\ \A p \in Screen : Pixel(vram', p) # Pixel(vram, p) => Asked(b, p)
                /\ \A a \in (ResW * ResH) \div PerByte(mode)..VramSize - 1 : vram'[a] = vram[a]
           A == Given(Fill..Line) /\ Plain(b) /\ ClipOnScreen(b) => E
<1>1. ASSUME BlitterTypes, [Next]_vars PROVE [A]_vars
  <2> SUFFICES ASSUME Given(Fill..Line), Plain(b), ClipOnScreen(b) PROVE E
    OBVIOUS
  <2>1. /\ b \in Commands /\ vram \in Vrams /\ mode \in 0..3
        /\ vram' = execute_blit(vram, mode, b) /\ b.cmd \in Fill..Line
    BY <1>1, CommandStep DEF Given
  <2>2. OnScreen(b)
    BY <2>1 DEF OnScreen, Plain
  <2> DEFINE path == PathOf(b)
  <2> HIDE DEF b
  <2>3. vram' = Drawn(vram, mode, b, path) /\ path \in Seq(Dots)
    BY <2>1, <2>2, BlitDraws
  <2>4. ASSUME NEW p \in Screen, Pixel(vram', p) # Pixel(vram, p) PROVE Asked(b, p)
    <3>1. PixelAt(Drawn(vram, mode, b, path), mode, p) # PixelAt(vram, mode, p)
      BY <2>3, <2>4 DEF Pixel, PixelAt
    <3>2. PICK n \in 1..Len(path) :
            p = <<path[n].x, path[n].y>> /\ path[n].x \in Clip(b).x /\ path[n].y \in Clip(b).y
      <4> HIDE DEF path
      <4> QED
        BY <2>1, <2>2, <2>3, <3>1, PathStays
    <3>3. p[1] = path[n].x /\ p[2] = path[n].y
      BY <3>2
    <3> QED
      BY <2>1, <3>2, <3>3, PathAsked DEF Asked
  <2>5. \A a \in Behinds(mode) : vram'[a] = vram[a]
    BY <2>1, <2>2, <2>3, PathKeepsBehind
  <2> QED
    BY <2>4, <2>5 DEF Behinds
<1>2. BlitterTypes /\ [Next]_vars => [A]_vars
  BY <1>1
<1> HIDE DEF A
<1>3. [][Next]_vars /\ []BlitterTypes => [][A]_vars
  BY <1>2, PTL
<1>4. [][A]_vars => OnlyAskedPixels
  BY PTL DEF A, OnlyAskedPixels
<1> QED
  BY <1>3, <1>4, Types, PTL DEF Spec

-----------------------------------------------------------------------------
(* XOR twice *)

\* A byte with the pixel of column x combined with k by XOR.
Flip(byte, m, x, k) == Put(byte, m, x, Part(byte, m, x) ^^ k)

LEMMA ColorFits ==
  ASSUME NEW m \in 0..3, NEW color \in Byte
  PROVE  color % Depth(m) \in 0..Depth(m) - 1
BY Modes03 DEF Byte

\* Storing in the same place, and in two places.
LEMMA Stores ==
  ASSUME NEW v \in Vrams, NEW a \in 0..VramSize - 1, NEW c \in 0..VramSize - 1, NEW x, NEW y
  PROVE  /\ [v EXCEPT ![a] = x][a] = x
         /\ a # c => [v EXCEPT ![a] = x][c] = v[c]
         /\ [[v EXCEPT ![a] = x] EXCEPT ![a] = y] = [v EXCEPT ![a] = y]
         /\ [v EXCEPT ![a] = v[a]] = v
         /\ a # c => [[v EXCEPT ![a] = x] EXCEPT ![c] = y] = [[v EXCEPT ![c] = y] EXCEPT ![a] = x]
<1>1. v = [i \in 0..VramSize - 1 |-> v[i]]
  BY DEF Vrams
<1> QED
  BY <1>1

LEMMA FlipByte ==
  ASSUME NEW m \in 0..3, NEW byte \in Byte, NEW x \in Int, NEW k \in 0..Depth(m) - 1
  PROVE  /\ Flip(byte, m, x, k) \in Byte
         /\ Flip(Flip(byte, m, x, k), m, x, k) = byte
         /\ \A z \in Int : z % PerByte(m) # x % PerByte(m)
                             => Part(Flip(byte, m, x, k), m, z) = Part(byte, m, z)
<1> DEFINE o == Part(byte, m, x)
           c == o ^^ k
           q == Put(byte, m, x, c)
<1>1. o \in 0..Depth(m) - 1
  BY PartFits
<1>2. o \in Byte /\ k \in Byte /\ c \in 0..Depth(m) - 1
  BY <1>1, XorFits
<1>3. c ^^ k = o
  BY <1>2, XorTwice
<1>4. /\ q \in Byte /\ Part(q, m, x) = c
      /\ \A z \in Int : z % PerByte(m) # x % PerByte(m) => Part(q, m, z) = Part(byte, m, z)
  <2>1. c \in 0..Depth(m) - 1
    BY <1>2
  <2> HIDE DEF c
  <2> QED
    BY <2>1, PutOne
<1>5. Put(q, m, x, o) = byte
  <2>1. Put(q, m, x, o) = q + (o - c) * Weight(m, x)
    BY <1>4 DEF Put
  <2>2. q = byte + (c - o) * Weight(m, x)
    BY DEF Put
  <2> DEFINE w == Weight(m, x)
  <2>3. w \in Int
    <3>1. w \in {1, 2, 4, 8, 16, 32, 64, 128}
      BY WeightOf
    <3> QED
      BY <3>1
  <2>4. o \in Int /\ c \in Int /\ byte \in Int
    BY <1>1, <1>2, Modes03 DEF Byte
  <2> HIDE DEF o, c, q, w
  <2>5. (o - c) * w = -((c - o) * w) /\ (c - o) * w \in Int
    BY <2>3, <2>4
  <2>6. q = byte + (c - o) * w /\ Put(q, m, x, o) = q + (o - c) * w
    BY <2>1, <2>2 DEF w
  <2> QED
    BY <2>4, <2>5, <2>6
<1>6. Flip(byte, m, x, k) = q /\ Flip(q, m, x, k) = Put(q, m, x, o)
  BY <1>3, <1>4 DEF Flip
<1> QED
  BY <1>4, <1>5, <1>6

\* Two pixels of a byte may be flipped in either order.
LEMMA FlipsCommute ==
  ASSUME NEW m \in 0..3, NEW byte \in Byte, NEW x \in Int, NEW z \in Int, NEW k \in 0..Depth(m) - 1
  PROVE  Flip(Flip(byte, m, x, k), m, z, k) = Flip(Flip(byte, m, z, k), m, x, k)
<1>1. CASE x % PerByte(m) = z % PerByte(m)
  <2>1. Weight(m, x) = Weight(m, z)
    BY <1>1 DEF Weight
  <2>2. \A q \in Int : Flip(q, m, x, k) = Flip(q, m, z, k)
    BY <2>1 DEF Flip, Put, Part
  <2>3. byte \in Int /\ Flip(byte, m, x, k) \in Int
    <3>1. Flip(byte, m, x, k) \in Byte
      BY FlipByte
    <3> QED
      BY <3>1 DEF Byte
  <2> QED
    BY <2>2, <2>3
<1>2. CASE x % PerByte(m) # z % PerByte(m)
  <2> DEFINE D(y) == ((Part(byte, m, y) ^^ k) - Part(byte, m, y)) * Weight(m, y)
             p == Flip(byte, m, x, k)
             q == Flip(byte, m, z, k)
  <2>1. p = byte + D(x) /\ q = byte + D(z)
    BY DEF Flip, Put
  <2>2. Part(p, m, z) = Part(byte, m, z) /\ Part(q, m, x) = Part(byte, m, x)
    BY <1>2, FlipByte
  <2>3. Flip(p, m, z, k) = p + D(z) /\ Flip(q, m, x, k) = q + D(x)
    BY <2>2 DEF Flip, Put
  <2>4. byte \in Int /\ p \in Int /\ q \in Int
    <3>1. p \in Byte /\ q \in Byte
      BY FlipByte
    <3> QED
      BY <3>1 DEF Byte
  <2>5. D(x) \in Int /\ D(z) \in Int
    <3>1. \A y \in Int : D(y) \in Int
      <4> TAKE y \in Int
      <4>1. Part(byte, m, y) \in 0..Depth(m) - 1
        BY PartFits
      <4>2. (Part(byte, m, y) ^^ k) \in 0..Depth(m) - 1
        BY <4>1, XorFits
      <4>3. Weight(m, y) \in {1, 2, 4, 8, 16, 32, 64, 128}
        BY WeightOf
      <4>4. \A s, t \in Int, w \in {1, 2, 4, 8, 16, 32, 64, 128} : (s - t) * w \in Int
        OBVIOUS
      <4> QED
        BY <4>1, <4>2, <4>3, <4>4, Modes03
    <3> QED
      BY <3>1
  <2> HIDE DEF D, p, q
  <2> QED
    BY <2>1, <2>3, <2>4, <2>5 DEF p, q
<1> QED
  BY <1>1, <1>2

LEMMA XorDot ==
  ASSUME NEW m \in 0..3, NEW b \in Commands, b.cmd = XorFill, NEW d \in Dots, NEW v \in Vrams
  PROVE  LET a == Address(m, b, d)
             clipped == d.x \notin Clip(b).x \/ d.y \notin Clip(b).y
         IN  /\ clipped => Dot(v, m, b, d) = v
             /\ ~clipped => /\ d.x \in Int /\ a \in 0..VramSize - 1
                            /\ Dot(v, m, b, d) = [v EXCEPT ![a] = Flip(v[a], m, d.x, b.color % Depth(m))]
<1>1. /\ Skips(v, m, b, d) <=> d.x \notin Clip(b).x \/ d.y \notin Clip(b).y
      /\ Source(v, m, b, d) = b.color
  BY DEF Skips, Source, XorFill, MemCopy, MemKeyed, VramKeyed
<1>2. NewPart(v, m, b, d) = Part(v[Address(m, b, d)], m, d.x) ^^ (b.color % Depth(m))
  BY <1>1 DEF NewPart, Combined
<1>3. CASE Skips(v, m, b, d)
  BY <1>1, <1>3, DotPuts
<1>4. CASE ~Skips(v, m, b, d)
  BY <1>1, <1>2, <1>4, DotPuts DEF Flip
<1> QED
  BY <1>3, <1>4

\* Drawing a dot by XOR twice takes it away, and two dots may be drawn in either order.
LEMMA XorDotTwice ==
  ASSUME NEW m \in 0..3, NEW b \in Commands, b.cmd = XorFill, NEW d \in Dots, NEW v \in Vrams
  PROVE  Dot(Dot(v, m, b, d), m, b, d) = v
<1> DEFINE a == Address(m, b, d)
           k == b.color % Depth(m)
           u == Dot(v, m, b, d)
           clipped == d.x \notin Clip(b).x \/ d.y \notin Clip(b).y
<1>1. CASE clipped
  <2>1. u = v
    BY <1>1, XorDot
  <2> QED
    BY <2>1
<1>2. CASE ~clipped
  <2>1. u \in Vrams
    BY DotPuts
  <2>2. /\ d.x \in Int /\ a \in 0..VramSize - 1 /\ u = [v EXCEPT ![a] = Flip(v[a], m, d.x, k)]
    BY <1>2, XorDot
  <2>3. Dot(u, m, b, d) = [u EXCEPT ![a] = Flip(u[a], m, d.x, k)]
    <3> HIDE DEF u
    <3> QED
      BY <1>2, <2>1, XorDot
  <2>4. v[a] \in Byte /\ k \in 0..Depth(m) - 1
    BY <2>2, CommandTypes, ColorFits DEF Vrams
  <2>5. Flip(Flip(v[a], m, d.x, k), m, d.x, k) = v[a]
    BY <2>2, <2>4, FlipByte
  <2> DEFINE f == Flip(v[a], m, d.x, k)
  <2>6. u[a] = f /\ Flip(f, m, d.x, k) = v[a]
    BY <2>2, <2>5, Stores
  <2> HIDE DEF a, k, f
  <2>7. [[v EXCEPT ![a] = f] EXCEPT ![a] = v[a]] = v
    BY <2>2, Stores
  <2>8. u = [v EXCEPT ![a] = f]
    BY <2>2 DEF f
  <2> HIDE DEF u
  <2>9. Dot(u, m, b, d) = v
    BY <2>3, <2>6, <2>7, <2>8
  <2> QED
    BY <2>9 DEF u
<1> QED
  BY <1>1, <1>2

LEMMA XorDotsCommute ==
  ASSUME NEW m \in 0..3, NEW b \in Commands, b.cmd = XorFill, NEW d \in Dots, NEW e \in Dots,
         NEW v \in Vrams
  PROVE  Dot(Dot(v, m, b, d), m, b, e) = Dot(Dot(v, m, b, e), m, b, d)
<1> DEFINE k == b.color % Depth(m)
           Out(c) == c.x \notin Clip(b).x \/ c.y \notin Clip(b).y
           D == Dot(v, m, b, d)
           E == Dot(v, m, b, e)
<1>0. D \in Vrams /\ E \in Vrams
  BY DotPuts
<1>1. CASE Out(d)
  <2>1. D = v
    BY <1>1, XorDot
  <2>2. Dot(E, m, b, d) = E
    <3> HIDE DEF E
    <3> QED
      BY <1>0, <1>1, XorDot
  <2> QED
    BY <2>1, <2>2
<1>2. CASE Out(e)
  <2>1. E = v
    BY <1>2, XorDot
  <2>2. Dot(D, m, b, e) = D
    <3> HIDE DEF D
    <3> QED
      BY <1>0, <1>2, XorDot
  <2> QED
    BY <2>1, <2>2
<1>3. CASE ~Out(d) /\ ~Out(e)
  <2> DEFINE A == Address(m, b, d)
             B == Address(m, b, e)
             F(q) == Flip(q, m, d.x, k)
             G(q) == Flip(q, m, e.x, k)
  <2>1. /\ d.x \in Int /\ A \in 0..VramSize - 1 /\ D = [v EXCEPT ![A] = F(v[A])]
        /\ e.x \in Int /\ B \in 0..VramSize - 1 /\ E = [v EXCEPT ![B] = G(v[B])]
    BY <1>3, XorDot
  <2>2. Dot(D, m, b, e) = [D EXCEPT ![B] = G(D[B])]
    <3> HIDE DEF D
    <3> QED
      BY <1>0, <1>3, XorDot
  <2>3. Dot(E, m, b, d) = [E EXCEPT ![A] = F(E[A])]
    <3> HIDE DEF E
    <3> QED
      BY <1>0, <1>3, XorDot
  <2>4. v[A] \in Byte /\ k \in 0..Depth(m) - 1
    BY <2>1, CommandTypes, ColorFits DEF Vrams
  <2>5. G(F(v[A])) = F(G(v[A]))
    BY <2>1, <2>4, FlipsCommute
  <2> HIDE DEF D, E, A, B, F, G, k
  <2> DEFINE x == F(v[A])
             y == G(v[B])
  <2>6. D = [v EXCEPT ![A] = x] /\ E = [v EXCEPT ![B] = y]
    BY <2>1
  <2>60. A \in 0..VramSize - 1 /\ B \in 0..VramSize - 1
    BY <2>1
  <2>7. CASE A = B
    <3>1. G(x) = F(y)
      BY <2>5, <2>7
    <3> HIDE DEF x, y
    <3>2. [v EXCEPT ![A] = x][A] = x /\ [v EXCEPT ![A] = y][A] = y
      BY <2>60 DEF Vrams
    <3>3. D[B] = x /\ E[A] = y
      BY <2>6, <2>7, <3>2
    <3>4. /\ [[v EXCEPT ![A] = x] EXCEPT ![A] = G(x)] = [v EXCEPT ![A] = G(x)]
          /\ [[v EXCEPT ![A] = y] EXCEPT ![A] = F(y)] = [v EXCEPT ![A] = F(y)]
      <4> DEFINE s == G(x)
                 t == F(y)
      <4> HIDE DEF s, t
      <4>1. [[v EXCEPT ![A] = x] EXCEPT ![A] = s] = [v EXCEPT ![A] = s]
        OBVIOUS
      <4>2. [[v EXCEPT ![A] = y] EXCEPT ![A] = t] = [v EXCEPT ![A] = t]
        OBVIOUS
      <4> QED
        BY <4>1, <4>2, Zenon DEF s, t
    <3>5. Dot(D, m, b, e) = [v EXCEPT ![A] = G(x)]
      BY <2>2, <2>6, <2>7, <3>3, <3>4, Zenon
    <3>6. Dot(E, m, b, d) = [v EXCEPT ![A] = F(y)]
      BY <2>3, <2>6, <2>7, <3>3, <3>4, Zenon
    <3> QED
      BY <3>1, <3>5, <3>6, Zenon DEF D, E
  <2>8. CASE A # B
    <3>1. F(v[A]) = x /\ G(v[B]) = y
      OBVIOUS
    <3> HIDE DEF x, y
    <3>2. [v EXCEPT ![A] = x][B] = v[B] /\ [v EXCEPT ![B] = y][A] = v[A]
      BY <2>60, <2>8, Stores
    <3>3. Dot(D, m, b, e) = [[v EXCEPT ![A] = x] EXCEPT ![B] = y]
      BY <2>2, <2>6, <3>1, <3>2, Zenon
    <3>4. Dot(E, m, b, d) = [[v EXCEPT ![B] = y] EXCEPT ![A] = x]
      BY <2>3, <2>6, <3>1, <3>2, Zenon
    <3>5. [[v EXCEPT ![A] = x] EXCEPT ![B] = y] = [[v EXCEPT ![B] = y] EXCEPT ![A] = x]
      BY ZenonT(40), <2>60, <2>8, Stores
    <3> QED
      BY <3>3, <3>4, <3>5, Zenon DEF D, E
  <2> QED
    BY <2>7, <2>8
<1> QED
  BY <1>1, <1>2, <1>3

\* Drawing a path of dots by XOR commutes with drawing any one dot.
LEMMA XorPathCommutes ==
  ASSUME NEW m \in 0..3, NEW b \in Commands, b.cmd = XorFill, NEW path \in Seq(Dots), NEW d \in Dots
  PROVE  \A n \in 0..Len(path), v \in Vrams :
           After(Dot(v, m, b, d), m, b, path)[n] = Dot(After(v, m, b, path)[n], m, b, d)
<1>0. Len(path) \in Nat /\ \A n \in 1..Len(path) : path[n] \in Dots
  OBVIOUS
<1> DEFINE T(v) == Dot(v, m, b, d)
           f(v, n) == After(v, m, b, path)[n]
           S == {n \in 0..Len(path) : \A v \in Vrams : f(T(v), n) = T(f(v, n))}
<1>1. \A v : f(v, 0) = v /\ \A n \in 1..Len(path) : f(v, n) = Dot(f(v, n - 1), m, b, path[n])
  BY <1>0, AfterSteps
<1>2. \A v \in Vrams : \A n \in 0..Len(path) : f(v, n) \in Vrams
  BY <1>0, AfterTypes
<1>3. \A v \in Vrams : T(v) \in Vrams
  BY DotPuts
<1>4. \A e \in Dots, v \in Vrams : Dot(T(v), m, b, e) = T(Dot(v, m, b, e))
  BY XorDotsCommute
<1> HIDE DEF T, f
<1>5. 0 \in S
  BY <1>0, <1>1
<1>6. \A n \in 0..Len(path) - 1 : n \in S => n + 1 \in S
  <2> SUFFICES ASSUME NEW n \in 0..Len(path) - 1, n \in S, NEW v \in Vrams
               PROVE  n + 1 \in 0..Len(path) /\ f(T(v), n + 1) = T(f(v, n + 1))
    OBVIOUS
  <2>1. n + 1 \in 1..Len(path) /\ n + 1 \in 0..Len(path) /\ (n + 1) - 1 = n /\ n \in 0..Len(path)
    BY <1>0
  <2> DEFINE e == path[n + 1]
  <2>2. e \in Dots
    BY <1>0, <2>1
  <2>3. f(T(v), n + 1) = Dot(f(T(v), n), m, b, e) /\ f(v, n + 1) = Dot(f(v, n), m, b, e)
    BY <1>1, <2>1
  <2>4. f(T(v), n) = T(f(v, n)) /\ f(v, n) \in Vrams
    BY <1>2, <2>1
  <2> HIDE DEF e
  <2> QED
    BY <1>4, <2>1, <2>2, <2>3, <2>4
<1>7. 0..Len(path) \subseteq S
  <2> HIDE DEF S
  <2> QED
    BY <1>0, <1>5, <1>6, UpTo
<1> QED
  BY <1>7 DEF f, T

LEMMA XorPathTwice ==
  ASSUME NEW m \in 0..3, NEW b \in Commands, b.cmd = XorFill, NEW path \in Seq(Dots), NEW v \in Vrams
  PROVE  Drawn(Drawn(v, m, b, path), m, b, path) = v
<1>0. Len(path) \in Nat /\ \A n \in 1..Len(path) : path[n] \in Dots
  OBVIOUS
<1> DEFINE f(u, n) == After(u, m, b, path)[n]
           S == {n \in 0..Len(path) : f(f(v, n), n) = v}
<1>1. \A u : f(u, 0) = u /\ \A n \in 1..Len(path) : f(u, n) = Dot(f(u, n - 1), m, b, path[n])
  BY <1>0, AfterSteps
<1>2. \A u \in Vrams : \A n \in 0..Len(path) : f(u, n) \in Vrams
  BY <1>0, AfterTypes
<1>3. \A d \in Dots, n \in 0..Len(path), u \in Vrams : f(Dot(u, m, b, d), n) = Dot(f(u, n), m, b, d)
  BY XorPathCommutes
<1>4. \A d \in Dots, u \in Vrams : Dot(Dot(u, m, b, d), m, b, d) = u
  BY XorDotTwice
<1> HIDE DEF f
<1>5. 0 \in S
  BY <1>0, <1>1
<1>6. \A n \in 0..Len(path) - 1 : n \in S => n + 1 \in S
  <2> SUFFICES ASSUME NEW n \in 0..Len(path) - 1, n \in S PROVE n + 1 \in S
    OBVIOUS
  <2>1. n + 1 \in 1..Len(path) /\ n + 1 \in 0..Len(path) /\ (n + 1) - 1 = n /\ n \in 0..Len(path)
    BY <1>0
  <2> DEFINE e == path[n + 1]
             u == f(v, n)
             T(t) == Dot(t, m, b, e)
  <2>2. e \in Dots /\ u \in Vrams /\ f(u, n) = v
    BY <1>0, <1>2, <2>1
  <2>3. f(v, n + 1) = T(u)
    BY <1>1, <2>1
  <2>4. f(T(u), n + 1) = T(f(T(u), n))
    BY <1>1, <2>1
  <2> HIDE DEF u
  <2>5. f(T(u), n) = T(f(u, n))
    BY <1>3, <2>1, <2>2
  <2>6. T(T(v)) = v
    BY <1>4, <2>2
  <2> HIDE DEF T
  <2> QED
    BY <2>1, <2>2, <2>3, <2>4, <2>5, <2>6
<1>7. 0..Len(path) \subseteq S
  <2> HIDE DEF S
  <2> QED
    BY <1>0, <1>5, <1>6, UpTo
<1> QED
  BY <1>0, <1>7 DEF Drawn, f

\* XorTwiceRestores: an XOR rectangle given twice is gone, whatever its
\* format, strides and clip rectangle, and wherever it wraps.
THEOREM XorComesAway == Spec => XorTwiceRestores
<1> DEFINE b == Head(job)
           A == Given({XorFill}) => execute_blit(vram', mode, b) = vram
<1>1. ASSUME BlitterTypes, [Next]_vars PROVE [A]_vars
  <2> SUFFICES ASSUME Given({XorFill}) PROVE execute_blit(vram', mode, b) = vram
    OBVIOUS
  <2>1. /\ b \in Commands /\ vram \in Vrams /\ mode \in 0..3
        /\ vram' = execute_blit(vram, mode, b) /\ b.cmd = XorFill
    BY <1>1, CommandStep DEF Given
  <2>2. \A v : execute_blit(v, mode, b) = Drawn(v, mode, b, RectanglePath(b))
    BY <2>1 DEF execute_blit, blit_rectangle, FastApplies, General, Fill, XorFill, Line
  <2> HIDE DEF b
  <2>3. RectanglePath(b) \in Seq(Dots)
    BY <2>1, PathTypes
  <2>4. vram' = Drawn(vram, mode, b, RectanglePath(b))
    BY <2>1, <2>2
  <2> QED
    BY <2>1, <2>2, <2>3, <2>4, XorPathTwice
<1>2. BlitterTypes /\ [Next]_vars => [A]_vars
  BY <1>1
<1> HIDE DEF A
<1>3. [][Next]_vars /\ []BlitterTypes => [][A]_vars
  BY <1>2, PTL
<1>4. [][A]_vars => XorTwiceRestores
  BY PTL DEF A, XorTwiceRestores
<1> QED
  BY <1>3, <1>4, Types, PTL DEF Spec

-----------------------------------------------------------------------------
(* The pixels of a rectangle *)

\* The cells drawn before a cell: those of rows above, and those before it in its row.
LEMMA CellOrder ==
  ASSUME NEW b \in Commands, NEW n \in 1..b.w * b.h, NEW k \in 1..n - 1
  PROVE  LET d == RectanglePath(b)[n]
             e == RectanglePath(b)[k]
         IN  /\ k \in 1..b.w * b.h
             /\ e.cy < d.cy \/ (e.cy = d.cy /\ e.cx < d.cx)
<1> DEFINE d == RectanglePath(b)[n]
           e == RectanglePath(b)[k]
           w == b.w
<1>0. w \in Nat /\ b.h \in Nat /\ b.w * b.h \in Nat
  BY CommandTypes
<1>1. k \in 1..b.w * b.h /\ k < n
  BY <1>0
<1>2. /\ d.cx \in 0..w - 1 /\ d.cy \in 0..b.h - 1 /\ n = w * d.cy + d.cx + 1
      /\ e.cx \in 0..w - 1 /\ e.cy \in 0..b.h - 1 /\ k = w * e.cy + e.cx + 1
  BY <1>1, Cells
<1> DEFINE dx == d.cx
           dy == d.cy
           ex == e.cx
           ey == e.cy
<1> HIDE DEF d, e, w, dx, dy, ex, ey
<1>3. /\ w \in Nat /\ dx \in 0..w - 1 /\ ex \in 0..w - 1 /\ dy \in Nat /\ ey \in Nat
      /\ w * ey + ex + 1 < w * dy + dx + 1
  BY <1>0, <1>1, <1>2 DEF w, dx, dy, ex, ey
<1>4. CASE ey > dy
  <2>1. w * (dy + 1) <= w * ey /\ w * (dy + 1) = w * dy + w
    BY <1>3, <1>4
  <2>2. w * dy \in Nat /\ w * ey \in Nat
    BY <1>3
  <2> QED
    BY <1>3, <2>1, <2>2
<1>5. CASE ey = dy
  <2>1. w * dy \in Nat
    BY <1>3
  <2> QED
    BY <1>1, <1>3, <1>5, <2>1 DEF dx, dy, ex, ey, d, e
<1>6. CASE ey < dy
  BY <1>1, <1>6 DEF dx, dy, ex, ey, d, e
<1> QED
  BY <1>3, <1>4, <1>5, <1>6

\* What a copy reads, it reads as it was: no source pixel is overwritten before
\* its turn when the target is apart or comes first.
LEMMA SourceUntouched ==
  ASSUME NEW m \in 0..3, NEW b, OnScreen(b), Plain(b), NEW v \in Vrams,
         b.cmd \in {VramCopy, VramKeyed} => Apart(b) \/ TargetFirst(b),
         b.cmd \in Fill..VramKeyed, NEW n \in 1..b.w * b.h
  PROVE  LET d == RectanglePath(b)[n]
         IN  Source(After(v, m, b, RectanglePath(b))[n - 1], m, b, d) = Source(v, m, b, d)
<1> DEFINE path == RectanglePath(b)
           u == After(v, m, b, path)[n - 1]
           d == path[n]
           x == b.sx + d.cx
           y == b.sy + d.cy
<1>0. /\ b \in Commands /\ path \in Seq(Dots) /\ Len(path) = b.w * b.h
      /\ b.w \in Nat /\ b.h \in Nat /\ b.dx \in Int /\ b.dy \in Int /\ b.sx \in Nat /\ b.sy \in Nat
      /\ b.w * b.h \in Nat
  BY PathTypes, CommandTypes DEF OnScreen
<1>1. CASE b.cmd <= MemKeyed
  BY <1>1 DEF Source, get_source_pixel
<1>2. CASE b.cmd > MemKeyed /\ (x >= ResW \/ y >= ResH)
  <2>1. get_source_pixel(u, m, b, d.cx, d.cy) = 0 /\ get_source_pixel(v, m, b, d.cx, d.cy) = 0
    <3>1. ~(b.cmd <= MemKeyed)
      BY <1>2 DEF Fill, VramKeyed, MemKeyed
    <3> QED
      BY <1>2, <3>1 DEF get_source_pixel
  <2> QED
    BY <2>1 DEF Source
<1>3. CASE b.cmd > MemKeyed /\ ~(x >= ResW \/ y >= ResH)
  <2> DEFINE p == <<x, y>>
  <2>1. d.cx \in 0..b.w - 1 /\ d.cy \in 0..b.h - 1
    BY <1>0, Cells
  <2>2. p \in Screen
    <3>1. x \in 0..ResW - 1 /\ y \in 0..ResH - 1
      <4> DEFINE i == d.cx
                 j == d.cy
      <4>1. /\ i \in 0..b.w - 1 /\ j \in 0..b.h - 1 /\ ~(b.sx + i >= ResW) /\ ~(b.sy + j >= ResH)
            /\ b.w \in Nat /\ b.h \in Nat /\ b.sx \in Nat /\ b.sy \in Nat /\ ResW \in Nat /\ ResH \in Nat
        BY <1>0, <1>3, <2>1, BlitterAssumption
      <4> HIDE DEF i, j
      <4>2. b.sx + i \in 0..ResW - 1 /\ b.sy + j \in 0..ResH - 1
        BY <4>1
      <4> QED
        BY <4>2 DEF i, j
    <3> HIDE DEF x, y
    <3> QED
      BY <3>1 DEF Screen
  <2>3. ASSUME NEW k \in 1..n - 1 PROVE Misses(b, path[k], p)
    <3> DEFINE e == path[k]
    <3>1. k \in 1..b.w * b.h /\ (e.cy < d.cy \/ (e.cy = d.cy /\ e.cx < d.cx))
      BY <1>0, CellOrder
    <3>2. /\ e.cx \in 0..b.w - 1 /\ e.cy \in 0..b.h - 1
          /\ e.x = OutX(b, e.cx) /\ e.y = OutY(b, e.cy)
      BY <1>0, <3>1, Cells
    <3>3. e.x \in b.dx..b.dx + b.w - 1 /\ e.y \in b.dy..b.dy + b.h - 1
      <4>1. b \in Commands
        BY <1>0
      <4>2. /\ OutX(b, e.cx) \in b.dx..b.dx + b.w - 1
            /\ OutY(b, e.cy) \in b.dy..b.dy + b.h - 1
        BY <3>2, <4>1, OutTypes
      <4> QED
        BY <3>2, <4>2
    <3> DEFINE i == d.cx
               j == d.cy
               g == e.cx
               h == e.cy
    <3>30. /\ i \in 0..b.w - 1 /\ j \in 0..b.h - 1 /\ g \in 0..b.w - 1 /\ h \in 0..b.h - 1
           /\ e.x = OutX(b, g) /\ e.y = OutY(b, h)
           /\ OutX(b, g) \in b.dx..b.dx + b.w - 1 /\ OutY(b, h) \in b.dy..b.dy + b.h - 1
           /\ h < j \/ (h = j /\ g < i)
      BY <2>1, <3>1, <3>2, <3>3
    <3>31. /\ b.w \in Nat /\ b.h \in Nat /\ b.dx \in Int /\ b.dy \in Int /\ b.sx \in Nat /\ b.sy \in Nat
      BY <1>0
    <3> HIDE DEF i, j, g, h
    <3>4. CASE Apart(b)
      <4>1. OutX(b, g) # b.sx + i \/ OutY(b, h) # b.sy + j
        BY <3>30, <3>31, <3>4 DEF Apart
      <4> QED
        BY <3>30, <4>1 DEF Misses, i, j
    <3>5. CASE TargetFirst(b)
      <4>1. OutX(b, g) = b.dx + g /\ OutY(b, h) = b.dy + h
        BY <3>5 DEF TargetFirst, OutX, OutY
      <4>2. OutX(b, g) # b.sx + i \/ OutY(b, h) # b.sy + j
        BY <3>30, <3>31, <3>5, <4>1 DEF TargetFirst
      <4> QED
        BY <3>30, <4>2 DEF Misses, i, j
    <3> QED
      BY <1>3, <3>4, <3>5 DEF Fill, VramKeyed, VramCopy, MemKeyed
  <2>4. PixelAt(u, m, p) = PixelAt(v, m, p)
    <3>1. 0 \in 0..Len(path) /\ n - 1 \in 0..Len(path) /\ 0 + 1 = 1
      BY <1>0
    <3>2. After(v, m, b, path)[0] = v
      BY <1>0, AfterSteps
    <3> DEFINE k == n - 1
    <3>3. k \in 0..Len(path) /\ \A i \in 0 + 1..k : Misses(b, path[i], p)
      BY <2>3, <3>1
    <3> HIDE DEF k, p, path
    <3>4. PixelAt(After(v, m, b, path)[k], m, p) = PixelAt(After(v, m, b, path)[0], m, p)
      <4>1. path \in Seq(Dots) /\ p \in Screen
        BY <1>0, <2>2
      <4>2. \A lo \in 0..Len(path) : \A hi \in lo..Len(path) :
              (\A i \in lo + 1..hi : Misses(b, path[i], p))
                => PixelAt(After(v, m, b, path)[hi], m, p) = PixelAt(After(v, m, b, path)[lo], m, p)
        BY <4>1, PathKeeps
      <4> QED
        BY <3>1, <3>3, <4>2
    <3> QED
      BY <3>2, <3>4 DEF k
  <2>5. SrcStride(b) = ResW /\ ~(b.cmd <= MemKeyed)
    BY <1>3 DEF Plain, Fill, VramKeyed, MemKeyed
  <2>6. /\ get_source_pixel(u, m, b, d.cx, d.cy) = PixelAt(u, m, p)
        /\ get_source_pixel(v, m, b, d.cx, d.cy) = PixelAt(v, m, p)
    BY <1>3, <2>5 DEF get_source_pixel, PixelAt
  <2> QED
    BY <2>4, <2>6 DEF Source
<1>4. b.cmd \in Int
  BY DEF Fill, VramKeyed
<1> HIDE DEF x, y, d
<1>5. Source(u, m, b, d) = Source(v, m, b, d)
  BY <1>1, <1>2, <1>3, <1>4 DEF MemKeyed, d
<1> QED
  BY <1>5 DEF d

\* What the pixel a cell goes to becomes.
LEMMA CellPixel ==
  ASSUME NEW m \in 0..3, NEW b, OnScreen(b), Plain(b), NEW v \in Vrams,
         b.cmd \in {VramCopy, VramKeyed} => Apart(b) \/ TargetFirst(b),
         b.cmd \in Fill..VramKeyed, NEW cx \in 0..b.w - 1, NEW cy \in 0..b.h - 1,
         OutX(b, cx) \in Clip(b).x, OutY(b, cy) \in Clip(b).y
  PROVE  LET p == <<OutX(b, cx), OutY(b, cy)>>
             src == IF b.cmd = Fill THEN b.color ELSE get_source_pixel(v, m, b, cx, cy)
         IN  /\ p \in Screen
             /\ src \in Byte
             /\ PixelAt(Drawn(v, m, b, RectanglePath(b)), m, p) =
                  IF b.cmd \in {MemKeyed, VramKeyed} /\ src = b.color THEN PixelAt(v, m, p)
                  ELSE Combined(m, b, PixelAt(v, m, p), src)
<1> DEFINE path == RectanglePath(b)
           n == b.w * cy + cx + 1
           p == <<OutX(b, cx), OutY(b, cy)>>
           src == IF b.cmd = Fill THEN b.color ELSE get_source_pixel(v, m, b, cx, cy)
           f == After(v, m, b, path)
           d == path[n]
           u == f[n - 1]
           N == Len(path)
<1>0. /\ b \in Commands /\ path \in Seq(Dots) /\ N = b.w * b.h /\ N \in Nat
      /\ \A k \in 1..N : path[k] \in Dots
  <2>1. b \in Commands
    BY DEF OnScreen
  <2>2. path \in Seq(Dots) /\ N = b.w * b.h
    BY <2>1, PathTypes
  <2> HIDE DEF path
  <2> QED
    BY <2>1, <2>2
<1>1. n \in 1..N /\ d = [x |-> OutX(b, cx), y |-> OutY(b, cy), cx |-> cx, cy |-> cy]
  BY <1>0, Cells
<1>2. p \in Screen
  BY DEF OnScreen, ClipOnScreen, Screen
<1>3. /\ f[0] = v /\ f[n] = Dot(u, m, b, d) /\ u \in Vrams
      /\ n - 1 \in 0..N /\ n \in 0..N /\ 0 \in 0..N
  <2> HIDE DEF path, n
  <2>1. n - 1 \in 0..N /\ n \in 0..N /\ 0 \in 0..N
    BY <1>0, <1>1
  <2>2. f[0] = v /\ \A k \in 1..N : f[k] = Dot(f[k - 1], m, b, path[k])
    BY SMTT(30), <1>0, AfterSteps
  <2>3. \A k \in 0..N : f[k] \in Vrams
    BY <1>0, AfterTypes
  <2> HIDE DEF f
  <2> QED
    BY <1>1, <2>1, <2>2, <2>3
<1>4. \A k \in 1..N : k # n => Misses(b, path[k], p)
  <2> SUFFICES ASSUME NEW k \in 1..N, ~Misses(b, path[k], p) PROVE k = n
    OBVIOUS
  <2> DEFINE e == path[k]
  <2>1. /\ e.cx \in 0..b.w - 1 /\ e.cy \in 0..b.h - 1
        /\ e.x = OutX(b, e.cx) /\ e.y = OutY(b, e.cy) /\ k = b.w * e.cy + e.cx + 1
    BY <1>0, Cells
  <2> HIDE DEF path, e
  <2>2. e.x = OutX(b, cx) /\ e.y = OutY(b, cy)
    BY DEF Misses, e
  <2>3. e.cx = cx /\ e.cy = cy
    BY <1>0, <2>1, <2>2, OutTypes
  <2> QED
    BY <2>1, <2>3
<1>5. Source(v, m, b, d) = src /\ Source(u, m, b, d) = src /\ src \in Byte
  <2>1. Source(u, m, b, d) = Source(v, m, b, d)
    BY <1>0, <1>1, SourceUntouched
  <2>2. Source(v, m, b, d) \in Byte
    <3>1. d \in Dots
      BY <1>0, <1>1
    <3> HIDE DEF d
    <3> QED
      BY <1>0, <3>1, SourceTypes
  <2>3. d.cx = cx /\ d.cy = cy
    BY <1>1
  <2>4. b.cmd \in MemCopy..VramKeyed <=> b.cmd # Fill
    BY DEF Fill, MemCopy, VramKeyed
  <2>5. Source(v, m, b, d) = src
    <3> HIDE DEF d
    <3> QED
      BY <2>3, <2>4 DEF Source
  <2> QED
    BY <2>1, <2>2, <2>5
<1> HIDE DEF n, src, p, path
<1>6. PixelAt(u, m, p) = PixelAt(v, m, p)
  <2> DEFINE k == n - 1
  <2>1. k \in 0..N /\ 0 \in 0..N /\ k \in Int /\ \A i \in 0 + 1..k : Misses(b, path[i], p)
    BY <1>0, <1>1, <1>3, <1>4
  <2> HIDE DEF k
  <2>2. PixelAt(After(v, m, b, path)[k], m, p) = PixelAt(After(v, m, b, path)[0], m, p)
    BY <1>0, <1>2, <2>1, PathKeeps
  <2> QED
    BY <1>3, <2>2 DEF k
<1>7. PixelAt(Drawn(v, m, b, path), m, p) = PixelAt(f[n], m, p)
  <2>1. n \in 0..N /\ N \in n..N /\ \A i \in n + 1..N : Misses(b, path[i], p)
    BY <1>0, <1>1, <1>3, <1>4
  <2>2. PixelAt(After(v, m, b, path)[N], m, p) = PixelAt(After(v, m, b, path)[n], m, p)
    <3>1. path \in Seq(Dots)
      BY <1>0
    <3>2. \A lo \in 0..Len(path) : \A hi \in lo..Len(path) :
            (\A i \in lo + 1..hi : Misses(b, path[i], p))
              => PixelAt(After(v, m, b, path)[hi], m, p) = PixelAt(After(v, m, b, path)[lo], m, p)
      BY <1>2, <3>1, PathKeeps
    <3> QED
      BY <2>1, <3>2
  <2> QED
    BY <2>2 DEF Drawn
<1>8. PixelAt(f[n], m, p) = IF b.cmd \in {MemKeyed, VramKeyed} /\ src = b.color THEN PixelAt(u, m, p)
                            ELSE Combined(m, b, PixelAt(u, m, p), src)
  <2>1. d \in Dots /\ d.x \in Clip(b).x /\ d.y \in Clip(b).y /\ p = <<d.x, d.y>>
    BY <1>0, <1>1 DEF p
  <2>2. Skips(u, m, b, d) <=> b.cmd \in {MemKeyed, VramKeyed} /\ src = b.color
    BY <1>5, <2>1 DEF Skips
  <2> HIDE DEF u, d
  <2>3. CASE Skips(u, m, b, d)
    <3>1. Dot(u, m, b, d) = u
      BY <1>0, <1>3, <2>1, <2>3, DotPuts
    <3> QED
      BY <1>3, <2>2, <2>3, <3>1
  <2>4. CASE ~Skips(u, m, b, d)
    <3>1. PixelAt(Dot(u, m, b, d), m, <<d.x, d.y>>)
            = Combined(m, b, PixelAt(u, m, <<d.x, d.y>>), Source(u, m, b, d))
      BY <1>3, <2>1, <2>4, DotOnScreen
    <3> QED
      BY <1>3, <1>5, <2>1, <2>2, <2>4, <3>1
  <2> QED
    BY <2>3, <2>4
<1>9. PixelAt(Drawn(v, m, b, path), m, p) =
        IF b.cmd \in {MemKeyed, VramKeyed} /\ src = b.color THEN PixelAt(v, m, p)
        ELSE Combined(m, b, PixelAt(v, m, p), src)
  BY <1>6, <1>7, <1>8
<1> QED
  BY <1>2, <1>5, <1>9 DEF p, src, path

\* TargetGetsSource: copies and fills put the right pixel in the right place.
THEOREM CopiesAreRight == Spec => TargetGetsSource
<1> DEFINE b == Head(job)
           H == /\ Given(Fill..VramKeyed) /\ Plain(b) /\ ClipOnScreen(b)
                /\ b.cmd \in {VramCopy, VramKeyed} => Apart(b) \/ TargetFirst(b)
           E == \A cx \in 0..b.w - 1, cy \in 0..b.h - 1 : CellDone(vram, vram', b, cx, cy)
           A == H => E
<1>1. ASSUME BlitterTypes, [Next]_vars PROVE [A]_vars
  <2> SUFFICES ASSUME H, NEW cx \in 0..b.w - 1, NEW cy \in 0..b.h - 1
               PROVE  CellDone(vram, vram', b, cx, cy)
    OBVIOUS
  <2>1. /\ b \in Commands /\ vram \in Vrams /\ mode \in 0..3
        /\ vram' = execute_blit(vram, mode, b) /\ b.cmd \in Fill..VramKeyed
    BY <1>1, CommandStep DEF Given
  <2>2. OnScreen(b) /\ Plain(b) /\ (b.cmd \in {VramCopy, VramKeyed} => Apart(b) \/ TargetFirst(b))
    BY <2>1 DEF OnScreen, Plain
  <2> DEFINE p == <<OutX(b, cx), OutY(b, cy)>>
             src == IF b.cmd = Fill THEN b.color ELSE get_source_pixel(vram, mode, b, cx, cy)
             old == PixelAt(vram, mode, p)
             new == PixelAt(vram', mode, p)
  <2> HIDE DEF b
  <2>3. vram' = Drawn(vram, mode, b, RectanglePath(b))
    <3>1. b.cmd \in Fill..Line /\ b.cmd # Line
      BY <2>1 DEF Fill, VramKeyed, Line
    <3> QED
      BY <2>1, <2>2, <3>1, BlitDraws DEF PathOf
  <2> SUFFICES ASSUME OutX(b, cx) \in Clip(b).x, OutY(b, cy) \in Clip(b).y
               PROVE  IF b.cmd \in {MemKeyed, VramKeyed} /\ src = b.color THEN new = old
                      ELSE IF mode = 0 /\ b.blend
                      THEN /\ \A i \in 1..3 : Between(Channels(old)[i], Channels(new)[i], Channels(src)[i])
                           /\ b.alpha = 0 => new = old
                           /\ b.alpha = 255 => new = src
                      ELSE new = src % Depth(mode)
    BY DEF CellDone, Pixel, PixelAt
  <2>4. /\ p \in Screen /\ src \in Byte
        /\ new = IF b.cmd \in {MemKeyed, VramKeyed} /\ src = b.color THEN old
                 ELSE Combined(mode, b, old, src)
    BY <2>1, <2>2, <2>3, CellPixel
  <2>5. old \in 0..Depth(mode) - 1
    BY <2>1, <2>4, PixelAtIs
  <2>6. b.cmd # XorFill
    BY <2>1 DEF Fill, VramKeyed, XorFill
  <2> HIDE DEF p, src, old, new
  <2>7. CASE b.cmd \in {MemKeyed, VramKeyed} /\ src = b.color
    BY <2>4, <2>7
  <2>8. CASE ~(b.cmd \in {MemKeyed, VramKeyed} /\ src = b.color) /\ mode = 0 /\ b.blend
    <3>1. new = Blend(src, old, b.alpha)
      BY <2>4, <2>6, <2>8 DEF Combined
    <3>2. old \in Byte /\ b.alpha \in Byte
      BY SMTT(30), <2>1, <2>5, <2>8, Modes03, CommandTypes DEF Byte
    <3>3. /\ \A i \in 1..3 : Channels(new)[i] = Mix(Channels(src)[i], Channels(old)[i], b.alpha)
          /\ b.alpha = 0 => new = old
          /\ b.alpha = 255 => new = src
      BY <2>4, <3>1, <3>2, BlendFits
    <3>4. \A i \in 1..3 : Channels(old)[i] \in 0..7 /\ Channels(src)[i] \in 0..7
      <4>1. \A c \in Byte : Channels(c)[1] \in 0..7 /\ Channels(c)[2] \in 0..7 /\ Channels(c)[3] \in 0..7
        BY ChannelsFit
      <4>2. \A i \in 1..3 : i = 1 \/ i = 2 \/ i = 3
        OBVIOUS
      <4> QED
        BY <2>4, <3>2, <4>1, <4>2
    <3>5. \A s, t \in 0..7 : Between(t, Mix(s, t, b.alpha), s)
      <4> TAKE s, t \in 0..7
      <4> DEFINE x == Mix(s, t, b.alpha)
      <4>1. (s <= t => x \in s..t) /\ (t <= s => x \in t..s)
        BY <3>2, MixFits
      <4> HIDE DEF x
      <4>2. Between(t, x, s)
        BY <4>1 DEF Between, Smaller, Greater
      <4> QED
        BY <4>2 DEF x
    <3>6. \A i \in 1..3 : Between(Channels(old)[i], Channels(new)[i], Channels(src)[i])
      BY <3>3, <3>4, <3>5
    <3> QED
      BY <2>8, <3>3, <3>6
  <2>9. CASE ~(b.cmd \in {MemKeyed, VramKeyed} /\ src = b.color) /\ ~(mode = 0 /\ b.blend)
    BY <2>4, <2>6, <2>9 DEF Combined
  <2> QED
    BY <2>7, <2>8, <2>9
<1>2. BlitterTypes /\ [Next]_vars => [A]_vars
  BY <1>1
<1> HIDE DEF A
<1>3. [][Next]_vars /\ []BlitterTypes => [][A]_vars
  BY <1>2, PTL
<1>4. [][A]_vars => TargetGetsSource
  BY PTL DEF A, TargetGetsSource
<1> QED
  BY <1>3, <1>4, Types, PTL DEF Spec

-----------------------------------------------------------------------------
(* The pixels of a line *)

\* An opaque line in the clip rectangle marks exactly the places of its track.
LEMMA LineMarks ==
  ASSUME NEW m \in 0..3, NEW b, OnScreen(b), b.cmd = Line, ~b.blend, NEW v \in Vrams,
         {b.sx, b.dx} \subseteq Clip(b).x, {b.sy, b.dy} \subseteq Clip(b).y
  PROVE  /\ \A n \in 0..Steps(b) : <<Track(b)[n].x, Track(b)[n].y>> \in Screen
         /\ \A p \in Screen :
              /\ (\E n \in 0..Steps(b) : p = <<Track(b)[n].x, Track(b)[n].y>>)
                   => PixelAt(Drawn(v, m, b, LinePath(b)), m, p) = b.color % Depth(m)
              /\ (\A n \in 0..Steps(b) : p # <<Track(b)[n].x, Track(b)[n].y>>)
                   => PixelAt(Drawn(v, m, b, LinePath(b)), m, p) = PixelAt(v, m, p)
<1> DEFINE path == LinePath(b)
           N == Len(path)
           c == b.color % Depth(m)
           f == After(v, m, b, path)
           At(n) == <<Track(b)[n].x, Track(b)[n].y>>
<1>0. /\ b \in Commands /\ path \in Seq(Dots) /\ N = Steps(b) + 1 /\ N \in Nat /\ Steps(b) \in Nat
      /\ \A k \in 1..N : path[k] \in Dots
  <2>1. b \in Commands
    BY DEF OnScreen
  <2>2. path \in Seq(Dots) /\ N = Steps(b) + 1 /\ Steps(b) \in Nat
    BY <2>1, PathTypes, LineTrack
  <2> HIDE DEF path
  <2> QED
    BY <2>1, <2>2
<1>1. \A k \in 1..N : /\ k - 1 \in 0..Steps(b)
                      /\ path[k].x = Track(b)[k - 1].x /\ path[k].y = Track(b)[k - 1].y
  <2>1. Last(b) = Steps(b)
    BY <1>0, LineTrack
  <2>2. \A k \in 1..Steps(b) + 1 :
          LinePath(b)[k] = [x |-> Track(b)[k - 1].x, y |-> Track(b)[k - 1].y, cx |-> 0, cy |-> 0]
    BY <2>1 DEF LinePath
  <2>3. \A k \in 1..Steps(b) + 1 : k - 1 \in 0..Steps(b)
    BY <1>0
  <2> QED
    BY <1>0, <2>2, <2>3
<1>2. \A n \in 0..Steps(b) : n + 1 \in 1..N /\ (n + 1) - 1 = n
  BY <1>0
<1>3. ASSUME NEW n \in 0..Steps(b)
      PROVE  Track(b)[n].x \in Clip(b).x /\ Track(b)[n].y \in Clip(b).y
  <2>1. /\ Track(b)[n].x \in Smaller(b.sx, b.dx)..Greater(b.sx, b.dx)
        /\ Track(b)[n].y \in Smaller(b.sy, b.dy)..Greater(b.sy, b.dy)
    BY <1>0, LinePlaces
  <2>2. b.sx \in Int /\ b.dx \in Int /\ b.sy \in Int /\ b.dy \in Int
    BY <1>0, CommandTypes
  <2>3. PICK xlo \in Int, xhi \in Int, ylo \in Int, yhi \in Int :
          Clip(b).x = xlo..xhi /\ Clip(b).y = ylo..yhi
    <3>1. CASE b.clip = <<>>
      <4>1. 0 \in Int /\ ResW - 1 \in Int /\ ResH - 1 \in Int
        BY BlitterAssumption
      <4> QED
        BY <3>1, <4>1 DEF Clip
    <3>2. CASE b.clip # <<>>
      <4>1. b.clip \in [1..4 -> Word]
        BY <1>0, <3>2 DEF Commands, Clips
      <4>2. \A g \in [1..4 -> Word] : g[1] \in Word /\ g[2] \in Word /\ g[3] \in Word /\ g[4] \in Word
        OBVIOUS
      <4>3. Word \subseteq Int
        BY DEF Word
      <4>4. b.clip[1] \in Int /\ b.clip[2] \in Int /\ b.clip[3] \in Int /\ b.clip[4] \in Int
        BY <4>1, <4>2, <4>3
      <4> QED
        BY <3>2, <4>4 DEF Clip
    <3> QED
      BY <3>1, <3>2
  <2>4. \A s, t, lo, hi, z \in Int : s \in lo..hi /\ t \in lo..hi /\ z \in Smaller(s, t)..Greater(s, t)
                                       => z \in lo..hi
    BY DEF Smaller, Greater
  <2>5. Track(b)[n].x \in Int /\ Track(b)[n].y \in Int
    BY <2>1, <2>2 DEF Smaller, Greater
  <2>6. b.sx \in Clip(b).x /\ b.dx \in Clip(b).x /\ b.sy \in Clip(b).y /\ b.dy \in Clip(b).y
    OBVIOUS
  <2>7. Track(b)[n].x \in xlo..xhi
    BY <2>1, <2>2, <2>3, <2>4, <2>5, <2>6
  <2>8. Track(b)[n].y \in ylo..yhi
    BY <2>1, <2>2, <2>3, <2>4, <2>5, <2>6
  <2> QED
    BY <2>3, <2>7, <2>8
<1>4. \A n \in 0..Steps(b) : At(n) \in Screen
  BY <1>3 DEF OnScreen, ClipOnScreen, Screen
<1>5. \A k \in 1..N : f[k] = Dot(f[k - 1], m, b, path[k])
  BY <1>0, AfterSteps
<1>6. \A k \in 0..N : f[k] \in Vrams
  BY <1>0, AfterTypes
<1>7. ASSUME NEW p \in Screen, NEW n \in 0..Steps(b), p = At(n)
      PROVE  PixelAt(Drawn(v, m, b, path), m, p) = c
  <2> DEFINE S == {k \in 0..N : (\E i \in 1..k : p = <<path[i].x, path[i].y>>) => PixelAt(f[k], m, p) = c}
  <2>1. 0 \in S
    BY <1>0
  <2>2. \A k \in 0..N - 1 : k \in S => k + 1 \in S
    <3> SUFFICES ASSUME NEW k \in 0..N - 1, k \in S PROVE k + 1 \in S
      OBVIOUS
    <3> HIDE DEF path
    <3>1. k + 1 \in 1..N /\ k + 1 \in 0..N /\ (k + 1) - 1 = k /\ k \in 0..N
      BY <1>0
    <3> DEFINE u == f[k]
               d == path[k + 1]
    <3>2. u \in Vrams /\ d \in Dots
      BY <1>0, <1>6, <3>1
    <3>3. f[k + 1] = Dot(u, m, b, d)
      BY <1>5, <3>1
    <3>4. d.x \in Clip(b).x /\ d.y \in Clip(b).y
      BY <1>1, <1>3, <3>1
    <3>5. (\E i \in 1..k : p = <<path[i].x, path[i].y>>) => PixelAt(u, m, p) = c
      OBVIOUS
    <3>6. (\E i \in 1..k + 1 : p = <<path[i].x, path[i].y>>)
            => (\E i \in 1..k : p = <<path[i].x, path[i].y>>) \/ p = <<d.x, d.y>>
      <4>1. \A i \in 1..k + 1 : i \in 1..k \/ i = k + 1
        BY <3>1
      <4> QED
        BY <4>1
    <3>7. (k + 1 \in 0..N /\ ((\E i \in 1..k + 1 : p = <<path[i].x, path[i].y>>) => PixelAt(f[k + 1], m, p) = c))
            => k + 1 \in S
      OBVIOUS
    <3> HIDE DEF u, d, f, S
    <3>8. p # <<d.x, d.y>> => PixelAt(Dot(u, m, b, d), m, p) = PixelAt(u, m, p)
      BY <3>2, DotElsewhere
    <3>9. p = <<d.x, d.y>> => PixelAt(Dot(u, m, b, d), m, p) = c
      <4>1. Source(u, m, b, d) = b.color /\ ~Skips(u, m, b, d)
        BY <3>4 DEF Source, Skips, Line, MemCopy, MemKeyed, VramKeyed
      <4>2. PixelAt(Dot(u, m, b, d), m, <<d.x, d.y>>)
              = Combined(m, b, PixelAt(u, m, <<d.x, d.y>>), Source(u, m, b, d))
        BY <3>2, <4>1, DotOnScreen
      <4>3. \A o : Combined(m, b, o, b.color) = c
        BY DEF Combined, Line, XorFill
      <4> QED
        BY <4>1, <4>2, <4>3
    <3> QED
      BY <3>1, <3>3, <3>5, <3>6, <3>7, <3>8, <3>9
  <2>3. 0..N \subseteq S
    <3> HIDE DEF S
    <3> QED
      BY <1>0, <2>1, <2>2, UpTo
  <2>4. n + 1 \in 1..N /\ N \in 0..N /\ p = <<path[n + 1].x, path[n + 1].y>>
    BY <1>0, <1>1, <1>2, <1>7
  <2> QED
    BY <2>3, <2>4 DEF Drawn
<1>8. ASSUME NEW p \in Screen, \A n \in 0..Steps(b) : p # At(n)
      PROVE  PixelAt(Drawn(v, m, b, path), m, p) = PixelAt(v, m, p)
  <2> SUFFICES ASSUME PixelAt(Drawn(v, m, b, path), m, p) # PixelAt(v, m, p) PROVE FALSE
    OBVIOUS
  <2>1. PICK k \in 1..N : p = <<path[k].x, path[k].y>>
    <3> HIDE DEF path
    <3> QED
      BY <1>0, PathStays
  <2>2. p = At(k - 1) /\ k - 1 \in 0..Steps(b)
    BY <1>1, <2>1
  <2> QED
    BY <1>8, <2>2
<1> QED
  BY <1>4, <1>7, <1>8

\* LineIsThin: a line marks both ends and one pixel per step, none of them
\* more than half a pixel off the true line.
THEOREM LinesAreThin == Spec => LineIsThin
<1> DEFINE b == Head(job)
           drawn == {p \in Screen : Pixel(vram', p) # Pixel(vram, p)}
           H == /\ Given({Line}) /\ ~b.blend /\ Plain(b) /\ ClipOnScreen(b)
                /\ {b.sx, b.dx} \subseteq Clip(b).x /\ {b.sy, b.dy} \subseteq Clip(b).y
                /\ \A p \in Screen : Pixel(vram, p) # b.color % Depth(mode)
           A == H => Thin(b, drawn)
<1>1. ASSUME BlitterTypes, [Next]_vars PROVE [A]_vars
  <2> SUFFICES ASSUME H PROVE Thin(b, drawn)
    OBVIOUS
  <2>1. /\ b \in Commands /\ vram \in Vrams /\ mode \in 0..3
        /\ vram' = execute_blit(vram, mode, b) /\ b.cmd = Line
    BY <1>1, CommandStep DEF Given
  <2>2. OnScreen(b)
    BY <2>1 DEF OnScreen, Plain
  <2>3. /\ ~b.blend /\ {b.sx, b.dx} \subseteq Clip(b).x /\ {b.sy, b.dy} \subseteq Clip(b).y
        /\ \A p \in Screen : PixelAt(vram, mode, p) # b.color % Depth(mode)
    BY DEF Pixel, PixelAt
  <2> DEFINE At(n) == <<Track(b)[n].x, Track(b)[n].y>>
             Places == {At(n) : n \in 0..Steps(b)}
  <2>4. drawn = {p \in Screen : PixelAt(vram', mode, p) # PixelAt(vram, mode, p)}
    BY DEF Pixel, PixelAt
  <2> HIDE DEF b, drawn, H
  <2>5. vram' = Drawn(vram, mode, b, LinePath(b))
    BY <2>1 DEF execute_blit, blit_line, Line
  <2>6. /\ \A n \in 0..Steps(b) : At(n) \in Screen
        /\ \A p \in Screen :
             /\ (\E n \in 0..Steps(b) : p = At(n)) => PixelAt(vram', mode, p) = b.color % Depth(mode)
             /\ (\A n \in 0..Steps(b) : p # At(n)) => PixelAt(vram', mode, p) = PixelAt(vram, mode, p)
    BY <2>1, <2>2, <2>3, <2>5, LineMarks
  <2>7. drawn = Places
    <3>1. ASSUME NEW p \in Screen
          PROVE  (PixelAt(vram', mode, p) # PixelAt(vram, mode, p)) <=> \E n \in 0..Steps(b) : p = At(n)
      <4> HIDE DEF At
      <4> QED
        BY <2>3, <2>6
    <3>2. \A p : p \in Places <=> \E n \in 0..Steps(b) : p = At(n)
      OBVIOUS
    <3> HIDE DEF At, Places
    <3> QED
      BY <2>4, <2>6, <3>1, <3>2
  <2> DEFINE n == Greater(Abs(b.dx - b.sx), Abs(b.dy - b.sy))
  <2>8. n = Steps(b) /\ Steps(b) \in Nat /\ 0 \in 0..Steps(b) /\ Steps(b) \in 0..Steps(b)
    <3>1. DeltaX(b) = Abs(b.dx - b.sx) /\ DeltaY(b) = -Abs(b.dy - b.sy)
      BY DEF DeltaX, DeltaY
    <3>2. Abs(b.dy - b.sy) \in Int
      <4>1. b.dy - b.sy \in Int
        BY <2>1, CommandTypes
      <4> QED
        BY <4>1 DEF Abs
    <3>3. -DeltaY(b) = Abs(b.dy - b.sy)
      BY <3>1, <3>2
    <3>4. n = Steps(b)
      BY <3>1, <3>3 DEF Steps
    <3>5. Steps(b) \in Nat
      BY <2>1, LineTrack
    <3> HIDE DEF n
    <3> QED
      BY <3>4, <3>5
  <2>9. {<<b.sx, b.sy>>, <<b.dx, b.dy>>} \subseteq drawn
    <3>1. At(0) = <<b.sx, b.sy>>
      <4>1. Track(b)[0] = [x |-> b.sx, y |-> b.sy, err |-> DeltaX(b) + DeltaY(b)]
        BY <2>1, DeltaTypes, TrackSteps
      <4> QED
        BY <4>1
    <3>2. At(Steps(b)) = <<b.dx, b.dy>>
      BY <2>1, LineTrack DEF Ends
    <3>3. At(0) \in Places /\ At(Steps(b)) \in Places
      BY <2>8
    <3> HIDE DEF At, Places
    <3> QED
      BY <2>7, <3>1, <3>2, <3>3
  <2>10. Cardinality(drawn) = n + 1
    <3>1. \A i, j \in 0..Steps(b) : At(i) = At(j) => i = j
      <4> TAKE i, j \in 0..Steps(b)
      <4> HAVE At(i) = At(j)
      <4>1. Track(b)[i].x = Track(b)[j].x /\ Track(b)[i].y = Track(b)[j].y
        OBVIOUS
      <4>2. /\ i = IF DeltaX(b) >= -DeltaY(b) THEN (Track(b)[i].x - b.sx) * StepX(b)
                   ELSE (Track(b)[i].y - b.sy) * StepY(b)
            /\ j = IF DeltaX(b) >= -DeltaY(b) THEN (Track(b)[j].x - b.sx) * StepX(b)
                   ELSE (Track(b)[j].y - b.sy) * StepY(b)
        BY <2>1, LinePlaces
      <4> QED
        BY <4>1, <4>2, Zenon
    <3> DEFINE g == [i \in 0..Steps(b) |-> At(i)]
    <3> HIDE DEF At
    <3>2. g \in Bijection(0..Steps(b), Places)
      BY <3>1 DEF Bijection, Injection, Surjection, IsInjective
    <3>3. ExistsBijection(0..Steps(b), Places)
      BY <3>2 DEF ExistsBijection
    <3> HIDE DEF Places, n
    <3>4. IsFiniteSet(0..Steps(b)) /\ Cardinality(0..Steps(b)) = Steps(b) + 1
      <4>1. 0 \in Int /\ Steps(b) \in Int /\ ~(0 > Steps(b)) /\ (Steps(b) - 0) + 1 = Steps(b) + 1
        BY <2>8
      <4> QED
        BY <4>1, FS_Interval
    <3>5. Cardinality(Places) = Cardinality(0..Steps(b))
      BY <3>3, <3>4, FS_Bijection
    <3> QED
      BY <2>7, <2>8, <3>4, <3>5
  <2>11. ASSUME NEW p \in drawn
         PROVE  2 * Abs((p[1] - b.sx) * (b.dy - b.sy) - (p[2] - b.sy) * (b.dx - b.sx)) <= n
    <3>1. PICK i \in 0..Steps(b) : p = At(i)
      BY <2>7
    <3>2. p[1] = Track(b)[i].x /\ p[2] = Track(b)[i].y
      BY <3>1
    <3>3. 2 * Abs((Track(b)[i].x - b.sx) * (b.dy - b.sy) - (Track(b)[i].y - b.sy) * (b.dx - b.sx)) <= Steps(b)
      BY <2>1, LinePlaces
    <3> HIDE DEF n
    <3> QED
      BY <2>8, <3>2, <3>3
  <2> QED
    BY <2>9, <2>10, <2>11 DEF Thin
<1>2. BlitterTypes /\ [Next]_vars => [A]_vars
  BY <1>1
<1> HIDE DEF A
<1>3. [][Next]_vars /\ []BlitterTypes => [][A]_vars
  BY <1>2, PTL
<1>4. [][A]_vars => LineIsThin
  BY PTL DEF A, H, drawn, LineIsThin
<1> QED
  BY <1>3, <1>4, Types, PTL DEF Spec

=============================================================================
