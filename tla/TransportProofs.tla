---------------------------- MODULE TransportProofs ----------------------------
(* The two byte formats, and what the crate reports of guest Metal.            *)
(*                                                                             *)
(* The frames of the Metal transport, for bytes of any size above four: the    *)
(* encoding of numbers, headers, payloads and requests is one to one, so a     *)
(* frame that passes every check of parse_frame is the encoding of the one     *)
(* request that was read from it, and every meaningful request passes.         *)
(*                                                                             *)
(* The command lists of sGPU, of any length up to the limit: what has been     *)
(* read is always what the encoder would write for it, and a list that was     *)
(* sent is read from its first command to its last.                            *)
(*                                                                             *)
(* The reports: no answer of any surface claims Metal without the evidence.    *)
EXTENDS SgpuWire, MetalTransport, MetalTrack, WellFoundedInduction, TLAPS

(* What a frame is made of.                                                    *)
Byte == 0 .. Base - 1

(* The bytes b stand in f after so many others.                                *)
Holds(f, skipped, b) == \A i \in 1 .. Len(b) : f[skipped + i] = b[i]

(* Division and its remainder.                                                 *)
LEMMA DivMod ==
  ASSUME NEW a \in Int, NEW b \in Nat \ {0}
  PROVE  \E q \in Int, r \in 0 .. b - 1 : q = a \div b /\ r = a % b /\ a = b * q + r
<1>1. PICK q : q = a \div b
  OBVIOUS
<1>2. PICK r : r = a % b
  OBVIOUS
<1>3. q \in Int /\ r \in Int /\ r >= 0 /\ r < b
  BY <1>1, <1>2
<1>4. a = b * q + r
  BY <1>1, <1>2, <1>3
<1> QED BY <1>1, <1>2, <1>3, <1>4

LEMMA RemainderIs ==
  ASSUME NEW a \in Int, NEW b \in Nat \ {0}, NEW q \in Int, NEW r \in 0 .. b - 1, a = b * q + r
  PROVE  a % b = r /\ a \div b = q
  OBVIOUS

(* A number of two digits, and the digits of a number.                         *)
LEMMA DigitsOf ==
  ASSUME NEW m \in Nat \ {0}, NEW n \in 0 .. m * m - 1
  PROVE  /\ n % m \in 0 .. m - 1 /\ n \div m \in 0 .. m - 1
         /\ n = (n % m) + m * (n \div m)
<1>1. PICK q \in Int, r \in 0 .. m - 1 : q = n \div m /\ r = n % m /\ n = m * q + r
  BY DivMod
<1>2. n \in Int /\ n >= 0 /\ n < m * m /\ m > 0 /\ r >= 0 /\ r < m
  BY <1>1
<1>3. q >= 0
  <2>1. SUFFICES ASSUME q <= -1 PROVE FALSE
    BY <1>1
  <2>2. m * q <= m * (-1)
    BY <2>1, <1>2
  <2> QED BY <2>2, <1>1, <1>2
<1>4. q < m
  <2>1. SUFFICES ASSUME q >= m PROVE FALSE
    BY <1>1
  <2>2. m * q >= m * m
    BY <2>1, <1>2
  <2> QED BY <2>2, <1>1, <1>2
<1> QED BY <1>1, <1>3, <1>4

LEMMA NumberOf ==
  ASSUME NEW m \in Nat \ {0}, NEW a \in 0 .. m - 1, NEW b \in 0 .. m - 1
  PROVE  /\ a + m * b \in 0 .. m * m - 1
         /\ (a + m * b) % m = a /\ (a + m * b) \div m = b
<1>1. PICK n : n = a + m * b
  OBVIOUS
<1>2. n \in Int /\ n = m * b + a
  BY <1>1
<1>3. n % m = a /\ n \div m = b
  BY <1>2, RemainderIs
<1>4. m * b >= 0 /\ m * b <= m * (m - 1)
  OBVIOUS
<1> QED BY <1>1, <1>2, <1>3, <1>4

LEMMA Limits ==
  /\ Base \in Nat \ {0} /\ U16 \in Nat \ {0} /\ U32 \in Nat \ {0} /\ U64 \in Nat \ {0}
  /\ U16 > 17 /\ U32 > 17
<1>1. Base \in Nat /\ Base >= 5
  BY TransportAssumption
<1>2. U16 \in Nat /\ U16 >= 25
  BY <1>1 DEF U16
<1>3. U32 \in Nat /\ U32 >= 25
  BY <1>2 DEF U32
<1>4. U64 \in Nat /\ U64 >= 25
  BY <1>3 DEF U64
<1> QED BY <1>1, <1>2, <1>3, <1>4

LEMMA Bytes16Type ==
  ASSUME NEW n \in 0 .. U16 - 1
  PROVE  Bytes16(n) \in Seq(Byte) /\ Len(Bytes16(n)) = 2
<1>1. n % Base \in Byte /\ n \div Base \in Byte
  BY DigitsOf, Limits DEF U16, Byte
<1> QED BY <1>1 DEF Bytes16

LEMMA Bytes32Type ==
  ASSUME NEW n \in 0 .. U32 - 1
  PROVE  Bytes32(n) \in Seq(Byte) /\ Len(Bytes32(n)) = 4
<1>1. n % U16 \in 0 .. U16 - 1 /\ n \div U16 \in 0 .. U16 - 1
  BY DigitsOf, Limits DEF U32
<1>2. PICK a \in Seq(Byte), b \in Seq(Byte) :
        /\ a = Bytes16(n % U16) /\ Len(a) = 2
        /\ b = Bytes16(n \div U16) /\ Len(b) = 2
  BY <1>1, Bytes16Type
<1>3. Bytes32(n) = a \o b
  BY <1>2 DEF Bytes32
<1>4. a \o b \in Seq(Byte)
  OBVIOUS
<1>5. Len(a \o b) = Len(a) + Len(b)
  OBVIOUS
<1>6. Len(a \o b) = Len(a) + Len(a)
  BY <1>2, <1>5
<1>7. Bytes32(n) \in Seq(Byte)
  BY <1>3, <1>4
<1>8. Len(Bytes32(n)) = Len(a) + Len(a)
  BY <1>3, <1>6
<1> QED BY <1>2, <1>7, <1>8

LEMMA Bytes64Type ==
  ASSUME NEW n \in 0 .. U64 - 1
  PROVE  Bytes64(n) \in Seq(Byte) /\ Len(Bytes64(n)) = 8
<1>1. n % U32 \in 0 .. U32 - 1 /\ n \div U32 \in 0 .. U32 - 1
  BY DigitsOf, Limits DEF U64
<1>2. PICK a \in Seq(Byte), b \in Seq(Byte) :
        /\ a = Bytes32(n % U32) /\ Len(a) = 4
        /\ b = Bytes32(n \div U32) /\ Len(b) = 4
  BY <1>1, Bytes32Type
<1>3. Bytes64(n) = a \o b
  BY <1>2 DEF Bytes64
<1>4. a \o b \in Seq(Byte)
  OBVIOUS
<1>5. Len(a \o b) = Len(a) + Len(b)
  OBVIOUS
<1>6. Len(a \o b) = Len(a) + Len(a)
  BY <1>2, <1>5
<1>7. Bytes64(n) \in Seq(Byte)
  BY <1>3, <1>4
<1>8. Len(Bytes64(n)) = Len(a) + Len(a)
  BY <1>3, <1>6
<1> QED BY <1>2, <1>7, <1>8

(* What is joined stands one after the other.                                  *)
LEMMA HoldsJoin ==
  ASSUME NEW S, NEW a \in Seq(S), NEW b \in Seq(S), NEW f, NEW skipped \in Nat
  PROVE  Holds(f, skipped, a \o b) <=> Holds(f, skipped, a) /\ Holds(f, skipped + Len(a), b)
<1>1. Len(a \o b) = Len(a) + Len(b) /\ Len(a) \in Nat /\ Len(b) \in Nat
  OBVIOUS
<1>2. \A i \in 1 .. Len(a) : (a \o b)[i] = a[i]
  OBVIOUS
<1>3. \A i \in 1 .. Len(b) : (a \o b)[Len(a) + i] = b[i]
  OBVIOUS
<1>4. ASSUME Holds(f, skipped, a \o b) PROVE Holds(f, skipped, a)
  BY <1>1, <1>2, <1>4 DEF Holds
<1>5. ASSUME Holds(f, skipped, a \o b), NEW i \in 1 .. Len(b)
      PROVE  f[(skipped + Len(a)) + i] = b[i]
  <2>1. Len(a) + i \in 1 .. Len(a \o b)
    BY <1>1
  <2>2. f[skipped + (Len(a) + i)] = (a \o b)[Len(a) + i]
    BY <1>5, <2>1 DEF Holds
  <2>3. skipped + (Len(a) + i) = (skipped + Len(a)) + i
    BY <1>1
  <2> QED BY <1>3, <2>2, <2>3
<1>6. ASSUME Holds(f, skipped, a), Holds(f, skipped + Len(a), b), NEW i \in 1 .. Len(a \o b)
      PROVE  f[skipped + i] = (a \o b)[i]
  <2>1. CASE i \in 1 .. Len(a)
    BY <1>2, <1>6, <2>1 DEF Holds
  <2>2. CASE i \notin 1 .. Len(a)
    <3>1. i - Len(a) \in 1 .. Len(b)
      BY <1>1, <2>2
    <3>2. f[(skipped + Len(a)) + (i - Len(a))] = b[i - Len(a)]
      BY <1>6, <3>1 DEF Holds
    <3>3. (skipped + Len(a)) + (i - Len(a)) = skipped + i /\ Len(a) + (i - Len(a)) = i
      BY <1>1
    <3> QED BY <1>3, <3>1, <3>2, <3>3
  <2> QED BY <2>1, <2>2
<1> QED BY <1>4, <1>5, <1>6 DEF Holds

LEMMA HoldsWhole ==
  ASSUME NEW S, NEW f \in Seq(S), NEW b \in Seq(S), Len(f) = Len(b), Holds(f, 0, b)
  PROVE  f = b
<1>1. \A i \in 1 .. Len(b) : f[i] = b[i]
  BY DEF Holds
<1> QED BY <1>1

LEMMA HoldsItself ==
  ASSUME NEW S, NEW f \in Seq(S)
  PROVE  Holds(f, 0, f)
  BY DEF Holds

(* Reading what was written.                                                   *)
LEMMA Read16 ==
  ASSUME NEW n \in 0 .. U16 - 1, NEW f, NEW s \in Nat, Holds(f, s, Bytes16(n))
  PROVE  Word16(f, s) = n
<1>1. f[s + 1] = n % Base /\ f[s + 2] = n \div Base
  BY DEF Holds, Bytes16
<1>2. n = (n % Base) + Base * (n \div Base)
  BY DigitsOf, Limits DEF U16
<1> QED BY <1>1, <1>2 DEF Word16

LEMMA Read32 ==
  ASSUME NEW n \in 0 .. U32 - 1, NEW f, NEW s \in Nat, Holds(f, s, Bytes32(n))
  PROVE  Word32(f, s) = n
<1>1. /\ n % U16 \in 0 .. U16 - 1 /\ n \div U16 \in 0 .. U16 - 1
      /\ n = (n % U16) + U16 * (n \div U16)
  BY DigitsOf, Limits DEF U32
<1>2. Holds(f, s, Bytes16(n % U16)) /\ Holds(f, s + 2, Bytes16(n \div U16))
  BY <1>1, Bytes16Type, HoldsJoin DEF Bytes32
<1>3. Word16(f, s) = n % U16 /\ Word16(f, s + 2) = n \div U16
  BY <1>1, <1>2, Read16
<1> QED BY <1>1, <1>3 DEF Word32

LEMMA Read64 ==
  ASSUME NEW n \in 0 .. U64 - 1, NEW f, NEW s \in Nat, Holds(f, s, Bytes64(n))
  PROVE  Word64(f, s) = n
<1>1. /\ n % U32 \in 0 .. U32 - 1 /\ n \div U32 \in 0 .. U32 - 1
      /\ n = (n % U32) + U32 * (n \div U32)
  BY DigitsOf, Limits DEF U64
<1>2. Holds(f, s, Bytes32(n % U32)) /\ Holds(f, s + 4, Bytes32(n \div U32))
  BY <1>1, Bytes32Type, HoldsJoin DEF Bytes64
<1>3. Word32(f, s) = n % U32 /\ Word32(f, s + 4) = n \div U32
  BY <1>1, <1>2, Read32
<1> QED BY <1>1, <1>3 DEF Word64

(* Writing what was read.                                                      *)
LEMMA Write16 ==
  ASSUME NEW f \in Seq(Byte), NEW s \in Nat, s + 2 <= Len(f)
  PROVE  Word16(f, s) \in 0 .. U16 - 1 /\ Holds(f, s, Bytes16(Word16(f, s)))
<1>1. f[s + 1] \in Byte /\ f[s + 2] \in Byte
  OBVIOUS
<1>2. PICK a \in Byte, b \in Byte : a = f[s + 1] /\ b = f[s + 2]
  BY <1>1
<1>3. a + Base * b \in 0 .. U16 - 1 /\ (a + Base * b) % Base = a /\ (a + Base * b) \div Base = b
  BY NumberOf, Limits DEF Byte, U16
<1>4. Word16(f, s) = a + Base * b
  BY <1>2 DEF Word16
<1>5. Bytes16(Word16(f, s)) = <<a, b>>
  BY <1>3, <1>4 DEF Bytes16
<1> QED BY <1>2, <1>3, <1>4, <1>5 DEF Holds

LEMMA Write32 ==
  ASSUME NEW f \in Seq(Byte), NEW s \in Nat, s + 4 <= Len(f)
  PROVE  Word32(f, s) \in 0 .. U32 - 1 /\ Holds(f, s, Bytes32(Word32(f, s)))
<1>1. /\ Word16(f, s) \in 0 .. U16 - 1 /\ Holds(f, s, Bytes16(Word16(f, s)))
      /\ Word16(f, s + 2) \in 0 .. U16 - 1 /\ Holds(f, s + 2, Bytes16(Word16(f, s + 2)))
  BY Write16
<1>2. PICK a \in 0 .. U16 - 1, b \in 0 .. U16 - 1 : a = Word16(f, s) /\ b = Word16(f, s + 2)
  BY <1>1
<1>3. a + U16 * b \in 0 .. U32 - 1 /\ (a + U16 * b) % U16 = a /\ (a + U16 * b) \div U16 = b
  BY NumberOf, Limits DEF U32
<1>4. Word32(f, s) = a + U16 * b
  BY <1>2 DEF Word32
<1>5. Bytes32(Word32(f, s)) = Bytes16(a) \o Bytes16(b)
  BY <1>3, <1>4 DEF Bytes32
<1>6. Bytes16(a) \in Seq(Byte) /\ Bytes16(b) \in Seq(Byte) /\ Len(Bytes16(a)) = 2
  BY Bytes16Type
<1>7. Holds(f, s, Bytes16(a) \o Bytes16(b))
  BY <1>1, <1>2, <1>6, HoldsJoin
<1> QED BY <1>3, <1>4, <1>5, <1>7

LEMMA Write64 ==
  ASSUME NEW f \in Seq(Byte), NEW s \in Nat, s + 8 <= Len(f)
  PROVE  Word64(f, s) \in 0 .. U64 - 1 /\ Holds(f, s, Bytes64(Word64(f, s)))
<1>1. /\ Word32(f, s) \in 0 .. U32 - 1 /\ Holds(f, s, Bytes32(Word32(f, s)))
      /\ Word32(f, s + 4) \in 0 .. U32 - 1 /\ Holds(f, s + 4, Bytes32(Word32(f, s + 4)))
  BY Write32
<1>2. PICK a \in 0 .. U32 - 1, b \in 0 .. U32 - 1 : a = Word32(f, s) /\ b = Word32(f, s + 4)
  BY <1>1
<1>3. a + U32 * b \in 0 .. U64 - 1 /\ (a + U32 * b) % U32 = a /\ (a + U32 * b) \div U32 = b
  BY NumberOf, Limits DEF U64
<1>4. Word64(f, s) = a + U32 * b
  BY <1>2 DEF Word64
<1>5. Bytes64(Word64(f, s)) = Bytes32(a) \o Bytes32(b)
  BY <1>3, <1>4 DEF Bytes64
<1>6. Bytes32(a) \in Seq(Byte) /\ Bytes32(b) \in Seq(Byte) /\ Len(Bytes32(a)) = 4
  BY Bytes32Type
<1>7. Holds(f, s, Bytes32(a) \o Bytes32(b))
  BY <1>1, <1>2, <1>6, HoldsJoin
<1> QED BY <1>3, <1>4, <1>5, <1>7

--------------------------------------------------------------------------------
(* The fields of frames.                                                       *)

HeaderType == [magic : 0 .. U32 - 1, version : 0 .. U16 - 1, opcode : 0 .. U16 - 1,
               length : 0 .. U32 - 1, flags : 0 .. U32 - 1]

Number == 0 .. U64 - 1

CreateType  == [kind : {"create"}, size : Number, alignment : 0 .. U32 - 1, flags : 0 .. U32 - 1]
DestroyType == [kind : {"destroy"}, handle : Number]
CopyType    == [kind : {"copy"}, src : Number, dst : Number, srcOffset : Number,
                dstOffset : Number, size : Number]

(* So many bytes; what is joined, and where each part of it stands.            *)
Block(b, n) == b \in Seq(Byte) /\ Len(b) = n

LEMMA BlocksJoin ==
  ASSUME NEW a, NEW b, NEW m \in Nat, NEW n \in Nat, Block(a, m), Block(b, n)
  PROVE  Block(a \o b, m + n)
<1>1. a \in Seq(Byte) /\ b \in Seq(Byte) /\ Len(a) = m /\ Len(b) = n
  BY DEF Block
<1>2. Len(a \o b) = Len(a) + Len(b)
  BY <1>1
<1>3. a \o b \in Seq(Byte)
  BY <1>1
<1> QED BY <1>1, <1>2, <1>3 DEF Block

LEMMA BlocksHold ==
  ASSUME NEW a, NEW b, NEW m \in Nat, NEW n \in Nat, Block(a, m), Block(b, n),
         NEW f, NEW s \in Nat
  PROVE  Holds(f, s, a \o b) <=> Holds(f, s, a) /\ Holds(f, s + m, b)
<1>1. a \in Seq(Byte) /\ b \in Seq(Byte) /\ Len(a) = m
  BY DEF Block
<1>2. Holds(f, s, a \o b) <=> Holds(f, s, a) /\ Holds(f, s + Len(a), b)
  BY <1>1, HoldsJoin
<1> QED BY <1>1, <1>2

LEMMA EncodedHeader ==
  ASSUME NEW h \in HeaderType
  PROVE  /\ Block(EncodeHeader(h), 16)
         /\ \A f : Holds(f, 0, EncodeHeader(h)) <=>
                    /\ Holds(f, 0, Bytes32(h.magic)) /\ Holds(f, 4, Bytes16(h.version))
                    /\ Holds(f, 6, Bytes16(h.opcode)) /\ Holds(f, 8, Bytes32(h.length))
                    /\ Holds(f, 12, Bytes32(h.flags))
<1>1. PICK a, b, c, d, e :
        /\ a = Bytes32(h.magic) /\ b = Bytes16(h.version) /\ c = Bytes16(h.opcode)
        /\ d = Bytes32(h.length) /\ e = Bytes32(h.flags)
  OBVIOUS
<1>2. Block(a, 4) /\ Block(b, 2) /\ Block(c, 2) /\ Block(d, 4) /\ Block(e, 4)
  BY <1>1, Bytes16Type, Bytes32Type DEF HeaderType, Block
<1>3. Block(a \o b, 6)
  BY <1>2, BlocksJoin
<1>4. Block(a \o b \o c, 8)
  BY <1>2, <1>3, BlocksJoin
<1>5. Block(a \o b \o c \o d, 12)
  BY <1>2, <1>4, BlocksJoin
<1>6. Block(a \o b \o c \o d \o e, 16)
  BY <1>2, <1>5, BlocksJoin
<1>7. EncodeHeader(h) = a \o b \o c \o d \o e
  BY <1>1 DEF EncodeHeader
<1>8. ASSUME NEW f
      PROVE  Holds(f, 0, a \o b \o c \o d \o e) <=>
               /\ Holds(f, 0, a) /\ Holds(f, 4, b) /\ Holds(f, 6, c)
               /\ Holds(f, 8, d) /\ Holds(f, 12, e)
  <2>1. Holds(f, 0, a \o b) <=> Holds(f, 0, a) /\ Holds(f, 4, b)
    BY <1>2, BlocksHold
  <2>2. Holds(f, 0, a \o b \o c) <=> Holds(f, 0, a \o b) /\ Holds(f, 6, c)
    BY <1>2, <1>3, BlocksHold
  <2>3. Holds(f, 0, a \o b \o c \o d) <=> Holds(f, 0, a \o b \o c) /\ Holds(f, 8, d)
    BY <1>2, <1>4, BlocksHold
  <2>4. Holds(f, 0, a \o b \o c \o d \o e) <=> Holds(f, 0, a \o b \o c \o d) /\ Holds(f, 12, e)
    BY <1>2, <1>5, BlocksHold
  <2> QED BY <2>1, <2>2, <2>3, <2>4
<1> QED BY <1>1, <1>6, <1>7, <1>8

LEMMA EncodedCreate ==
  ASSUME NEW s \in CreateType
  PROVE  /\ Block(EncodeBody(s), 16)
         /\ \A f : Holds(f, 0, EncodeBody(s)) <=>
                    /\ Holds(f, 0, Bytes64(s.size)) /\ Holds(f, 8, Bytes32(s.alignment))
                    /\ Holds(f, 12, Bytes32(s.flags))
<1>1. PICK a, b, c : a = Bytes64(s.size) /\ b = Bytes32(s.alignment) /\ c = Bytes32(s.flags)
  OBVIOUS
<1>2. Block(a, 8) /\ Block(b, 4) /\ Block(c, 4)
  BY <1>1, Bytes32Type, Bytes64Type DEF CreateType, Number, Block
<1>3. Block(a \o b, 12)
  BY <1>2, BlocksJoin
<1>4. Block(a \o b \o c, 16)
  BY <1>2, <1>3, BlocksJoin
<1>5. EncodeBody(s) = a \o b \o c
  BY <1>1 DEF EncodeBody, CreateType
<1>6. ASSUME NEW f
      PROVE  Holds(f, 0, a \o b \o c) <=> Holds(f, 0, a) /\ Holds(f, 8, b) /\ Holds(f, 12, c)
  <2>1. Holds(f, 0, a \o b) <=> Holds(f, 0, a) /\ Holds(f, 8, b)
    BY <1>2, BlocksHold
  <2>2. Holds(f, 0, a \o b \o c) <=> Holds(f, 0, a \o b) /\ Holds(f, 12, c)
    BY <1>2, <1>3, BlocksHold
  <2> QED BY <2>1, <2>2
<1> QED BY <1>1, <1>4, <1>5, <1>6

LEMMA EncodedDestroy ==
  ASSUME NEW s \in DestroyType
  PROVE  Block(EncodeBody(s), 8) /\ EncodeBody(s) = Bytes64(s.handle)
<1>1. EncodeBody(s) = Bytes64(s.handle)
  BY DEF EncodeBody, DestroyType
<1> QED BY <1>1, Bytes64Type DEF DestroyType, Number, Block

LEMMA EncodedCopy ==
  ASSUME NEW s \in CopyType
  PROVE  /\ Block(EncodeBody(s), 40)
         /\ \A f : Holds(f, 0, EncodeBody(s)) <=>
                    /\ Holds(f, 0, Bytes64(s.src)) /\ Holds(f, 8, Bytes64(s.dst))
                    /\ Holds(f, 16, Bytes64(s.srcOffset)) /\ Holds(f, 24, Bytes64(s.dstOffset))
                    /\ Holds(f, 32, Bytes64(s.size))
<1>1. PICK a, b, c, d, e :
        /\ a = Bytes64(s.src) /\ b = Bytes64(s.dst) /\ c = Bytes64(s.srcOffset)
        /\ d = Bytes64(s.dstOffset) /\ e = Bytes64(s.size)
  OBVIOUS
<1>2. Block(a, 8) /\ Block(b, 8) /\ Block(c, 8) /\ Block(d, 8) /\ Block(e, 8)
  BY <1>1, Bytes64Type DEF CopyType, Number, Block
<1>3. Block(a \o b, 16)
  BY <1>2, BlocksJoin
<1>4. Block(a \o b \o c, 24)
  BY <1>2, <1>3, BlocksJoin
<1>5. Block(a \o b \o c \o d, 32)
  BY <1>2, <1>4, BlocksJoin
<1>6. Block(a \o b \o c \o d \o e, 40)
  BY <1>2, <1>5, BlocksJoin
<1>7. EncodeBody(s) = a \o b \o c \o d \o e
  BY <1>1 DEF EncodeBody, CopyType
<1>8. ASSUME NEW f
      PROVE  Holds(f, 0, a \o b \o c \o d \o e) <=>
               /\ Holds(f, 0, a) /\ Holds(f, 8, b) /\ Holds(f, 16, c)
               /\ Holds(f, 24, d) /\ Holds(f, 32, e)
  <2>1. Holds(f, 0, a \o b) <=> Holds(f, 0, a) /\ Holds(f, 8, b)
    BY <1>2, BlocksHold
  <2>2. Holds(f, 0, a \o b \o c) <=> Holds(f, 0, a \o b) /\ Holds(f, 16, c)
    BY <1>2, <1>3, BlocksHold
  <2>3. Holds(f, 0, a \o b \o c \o d) <=> Holds(f, 0, a \o b \o c) /\ Holds(f, 24, d)
    BY <1>2, <1>4, BlocksHold
  <2>4. Holds(f, 0, a \o b \o c \o d \o e) <=> Holds(f, 0, a \o b \o c \o d) /\ Holds(f, 32, e)
    BY <1>2, <1>5, BlocksHold
  <2> QED BY <2>1, <2>2, <2>3, <2>4
<1> QED BY <1>1, <1>6, <1>7, <1>8

--------------------------------------------------------------------------------
(* Every payload is the encoding of one shape, and decoding finds it.          *)

LEMMA CreateInverse ==
  ASSUME NEW body, Block(body, 16)
  PROVE  /\ DecodeBody("create", body) \in CreateType
         /\ EncodeBody(DecodeBody("create", body)) = body
         /\ \A s \in CreateType : body = EncodeBody(s) => DecodeBody("create", body) = s
<1> DEFINE d == DecodeBody("create", body)
<1>1. d = [kind |-> "create", size |-> Word64(body, 0), alignment |-> Word32(body, 8),
           flags |-> Word32(body, 12)]
  BY DEF DecodeBody
<1>2. body \in Seq(Byte) /\ Len(body) = 16
  BY DEF Block
<1>3. /\ Word64(body, 0) \in Number /\ Holds(body, 0, Bytes64(Word64(body, 0)))
      /\ Word32(body, 8) \in 0 .. U32 - 1 /\ Holds(body, 8, Bytes32(Word32(body, 8)))
      /\ Word32(body, 12) \in 0 .. U32 - 1 /\ Holds(body, 12, Bytes32(Word32(body, 12)))
  <2>1. 0 + 8 <= Len(body) /\ 8 + 4 <= Len(body) /\ 12 + 4 <= Len(body)
    BY <1>2
  <2>2. Word64(body, 0) \in Number /\ Holds(body, 0, Bytes64(Word64(body, 0)))
    BY <1>2, <2>1, Write64 DEF Number
  <2>3. Word32(body, 8) \in 0 .. U32 - 1 /\ Holds(body, 8, Bytes32(Word32(body, 8)))
    BY <1>2, <2>1, Write32
  <2>4. Word32(body, 12) \in 0 .. U32 - 1 /\ Holds(body, 12, Bytes32(Word32(body, 12)))
    BY <1>2, <2>1, Write32
  <2> QED BY <2>2, <2>3, <2>4
<1>4. d \in CreateType
  BY <1>1, <1>3 DEF CreateType
<1>5. Holds(body, 0, EncodeBody(d))
  BY <1>1, <1>3, <1>4, EncodedCreate
<1>6. EncodeBody(d) = body
  <2>1. PICK b : b = EncodeBody(d)
    OBVIOUS
  <2>2. b \in Seq(Byte) /\ Len(body) = Len(b)
    BY <1>2, <1>4, <2>1, EncodedCreate DEF Block
  <2>3. Holds(body, 0, b)
    BY <1>5, <2>1
  <2>4. body = b
    BY <1>2, <2>2, <2>3, HoldsWhole
  <2> QED BY <2>1, <2>4
<1>7. ASSUME NEW s \in CreateType, body = EncodeBody(s)
      PROVE  d = s
  <2>1. Holds(body, 0, EncodeBody(s))
    BY <1>2, <1>7, HoldsItself
  <2>2. s.size \in 0 .. U64 - 1 /\ s.alignment \in 0 .. U32 - 1 /\ s.flags \in 0 .. U32 - 1
    BY DEF CreateType, Number
  <2>3. Word64(body, 0) = s.size /\ Word32(body, 8) = s.alignment /\ Word32(body, 12) = s.flags
    BY <2>1, <2>2, EncodedCreate, Read32, Read64
  <2>4. s = [kind |-> "create", size |-> s.size, alignment |-> s.alignment, flags |-> s.flags]
    BY DEF CreateType
  <2> QED BY <1>1, <2>3, <2>4
<1> QED BY <1>4, <1>6, <1>7

LEMMA DestroyInverse ==
  ASSUME NEW body, Block(body, 8)
  PROVE  /\ DecodeBody("destroy", body) \in DestroyType
         /\ EncodeBody(DecodeBody("destroy", body)) = body
         /\ \A s \in DestroyType : body = EncodeBody(s) => DecodeBody("destroy", body) = s
<1> DEFINE d == DecodeBody("destroy", body)
<1>1. d = [kind |-> "destroy", handle |-> Word64(body, 0)]
  BY DEF DecodeBody
<1>2. body \in Seq(Byte) /\ Len(body) = 8
  BY DEF Block
<1>3. Word64(body, 0) \in Number /\ Holds(body, 0, Bytes64(Word64(body, 0)))
  <2>1. 0 + 8 <= Len(body)
    BY <1>2
  <2> QED BY <1>2, <2>1, Write64 DEF Number
<1>4. d \in DestroyType
  BY <1>1, <1>3 DEF DestroyType
<1>5. Holds(body, 0, EncodeBody(d))
  BY <1>1, <1>3, <1>4, EncodedDestroy
<1>6. EncodeBody(d) = body
  <2>1. PICK b : b = EncodeBody(d)
    OBVIOUS
  <2>2. b \in Seq(Byte) /\ Len(body) = Len(b)
    BY <1>2, <1>4, <2>1, EncodedDestroy DEF Block
  <2>3. Holds(body, 0, b)
    BY <1>5, <2>1
  <2>4. body = b
    BY <1>2, <2>2, <2>3, HoldsWhole
  <2> QED BY <2>1, <2>4
<1>7. ASSUME NEW s \in DestroyType, body = EncodeBody(s)
      PROVE  d = s
  <2>1. Holds(body, 0, Bytes64(s.handle))
    BY <1>2, <1>7, HoldsItself, EncodedDestroy
  <2>2. s.handle \in 0 .. U64 - 1 /\ s = [kind |-> "destroy", handle |-> s.handle]
    BY DEF DestroyType, Number
  <2>3. Word64(body, 0) = s.handle
    BY <2>1, <2>2, Read64
  <2> QED BY <1>1, <2>2, <2>3
<1> QED BY <1>4, <1>6, <1>7

LEMMA CopyInverse ==
  ASSUME NEW body, Block(body, 40)
  PROVE  /\ DecodeBody("copy", body) \in CopyType
         /\ EncodeBody(DecodeBody("copy", body)) = body
         /\ \A s \in CopyType : body = EncodeBody(s) => DecodeBody("copy", body) = s
<1> DEFINE d == DecodeBody("copy", body)
<1>1. d = [kind |-> "copy", src |-> Word64(body, 0), dst |-> Word64(body, 8),
           srcOffset |-> Word64(body, 16), dstOffset |-> Word64(body, 24),
           size |-> Word64(body, 32)]
  BY DEF DecodeBody
<1>2. body \in Seq(Byte) /\ Len(body) = 40
  BY DEF Block
<1>3. \A t \in {0, 8, 16, 24, 32} :
        Word64(body, t) \in Number /\ Holds(body, t, Bytes64(Word64(body, t)))
  <2> SUFFICES ASSUME NEW t \in {0, 8, 16, 24, 32}
               PROVE  Word64(body, t) \in Number /\ Holds(body, t, Bytes64(Word64(body, t)))
    OBVIOUS
  <2>1. t \in Nat /\ t + 8 <= Len(body)
    BY <1>2
  <2> QED BY <1>2, <2>1, Write64 DEF Number
<1>4. d \in CopyType
  BY <1>1, <1>3 DEF CopyType
<1>5. Holds(body, 0, EncodeBody(d))
  BY <1>1, <1>3, <1>4, EncodedCopy
<1>6. EncodeBody(d) = body
  <2>1. PICK b : b = EncodeBody(d)
    OBVIOUS
  <2>2. b \in Seq(Byte) /\ Len(body) = Len(b)
    BY <1>2, <1>4, <2>1, EncodedCopy DEF Block
  <2>3. Holds(body, 0, b)
    BY <1>5, <2>1
  <2>4. body = b
    BY <1>2, <2>2, <2>3, HoldsWhole
  <2> QED BY <2>1, <2>4
<1>7. ASSUME NEW s \in CopyType, body = EncodeBody(s)
      PROVE  d = s
  <2>1. Holds(body, 0, EncodeBody(s))
    BY <1>2, <1>7, HoldsItself
  <2>2. /\ s.src \in 0 .. U64 - 1 /\ s.dst \in 0 .. U64 - 1 /\ s.srcOffset \in 0 .. U64 - 1
        /\ s.dstOffset \in 0 .. U64 - 1 /\ s.size \in 0 .. U64 - 1
    BY DEF CopyType, Number
  <2>3. /\ Word64(body, 0) = s.src /\ Word64(body, 8) = s.dst /\ Word64(body, 16) = s.srcOffset
        /\ Word64(body, 24) = s.dstOffset /\ Word64(body, 32) = s.size
    BY <2>1, <2>2, EncodedCopy, Read64
  <2>4. s = [kind |-> "copy", src |-> s.src, dst |-> s.dst, srcOffset |-> s.srcOffset,
             dstOffset |-> s.dstOffset, size |-> s.size]
    BY DEF CopyType
  <2> QED BY <1>1, <2>3, <2>4
<1> QED BY <1>4, <1>6, <1>7

ShapeType == CreateType \cup DestroyType \cup CopyType

LEMMA ShapesTyped == Shapes \subseteq ShapeType
  BY TransportAssumption DEF ShapeType, CreateType, DestroyType, CopyType, Number, LastByte

LEMMA BodyEncoded ==
  ASSUME NEW s \in ShapeType
  PROVE  s.kind \in DOMAIN Opcode /\ Block(EncodeBody(s), PayloadSize[s.kind])
<1>1. CASE s \in CreateType
  <2>1. s.kind = "create" /\ PayloadSize["create"] = 16 /\ "create" \in DOMAIN Opcode
    BY <1>1 DEF CreateType, PayloadSize, Opcode
  <2> QED BY <1>1, <2>1, EncodedCreate
<1>2. CASE s \in DestroyType
  <2>1. s.kind = "destroy" /\ PayloadSize["destroy"] = 8 /\ "destroy" \in DOMAIN Opcode
    BY <1>2 DEF DestroyType, PayloadSize, Opcode
  <2> QED BY <1>2, <2>1, EncodedDestroy
<1>3. CASE s \in CopyType
  <2>1. s.kind = "copy" /\ PayloadSize["copy"] = 40 /\ "copy" \in DOMAIN Opcode
    BY <1>3 DEF CopyType, PayloadSize, Opcode
  <2> QED BY <1>3, <2>1, EncodedCopy
<1> QED BY <1>1, <1>2, <1>3 DEF ShapeType

LEMMA KindOfShape ==
  ASSUME NEW s \in ShapeType
  PROVE  /\ s.kind = "create" => s \in CreateType
         /\ s.kind = "destroy" => s \in DestroyType
         /\ s.kind = "copy" => s \in CopyType
  BY DEF ShapeType, CreateType, DestroyType, CopyType

LEMMA BodyInverse ==
  ASSUME NEW kind \in DOMAIN Opcode, NEW body, Block(body, PayloadSize[kind])
  PROVE  /\ DecodeBody(kind, body) \in ShapeType /\ DecodeBody(kind, body).kind = kind
         /\ EncodeBody(DecodeBody(kind, body)) = body
         /\ \A s \in ShapeType : s.kind = kind /\ body = EncodeBody(s) => DecodeBody(kind, body) = s
<1>1. kind \in {"create", "destroy", "copy"}
  BY DEF Opcode
<1>2. CASE kind = "create"
  <2>1. Block(body, 16)
    BY <1>2 DEF PayloadSize
  <2>2. DecodeBody("create", body).kind = "create"
    BY <2>1, CreateInverse DEF CreateType
  <2> QED BY <1>2, <2>1, <2>2, CreateInverse, KindOfShape DEF ShapeType
<1>3. CASE kind = "destroy"
  <2>1. Block(body, 8)
    BY <1>3 DEF PayloadSize
  <2>2. DecodeBody("destroy", body).kind = "destroy"
    BY <2>1, DestroyInverse DEF DestroyType
  <2> QED BY <1>3, <2>1, <2>2, DestroyInverse, KindOfShape DEF ShapeType
<1>4. CASE kind = "copy"
  <2>1. Block(body, 40)
    BY <1>4 DEF PayloadSize
  <2>2. DecodeBody("copy", body).kind = "copy"
    BY <2>1, CopyInverse DEF CopyType
  <2> QED BY <1>4, <2>1, <2>2, CopyInverse, KindOfShape DEF ShapeType
<1> QED BY <1>1, <1>2, <1>3, <1>4

--------------------------------------------------------------------------------
(* A frame is a header and a payload.                                          *)

LEMMA HeaderHolds ==
  ASSUME NEW f \in Seq(Byte), Len(f) >= 16, NEW h \in HeaderType
  PROVE  Header(f) = h <=> Holds(f, 0, EncodeHeader(h))
<1>1. ASSUME Holds(f, 0, EncodeHeader(h)) PROVE Header(f) = h
  <2>1. /\ Holds(f, 0, Bytes32(h.magic)) /\ Holds(f, 4, Bytes16(h.version))
        /\ Holds(f, 6, Bytes16(h.opcode)) /\ Holds(f, 8, Bytes32(h.length))
        /\ Holds(f, 12, Bytes32(h.flags))
    BY <1>1, EncodedHeader
  <2>2. /\ h.magic \in 0 .. U32 - 1 /\ h.version \in 0 .. U16 - 1 /\ h.opcode \in 0 .. U16 - 1
        /\ h.length \in 0 .. U32 - 1 /\ h.flags \in 0 .. U32 - 1
    BY DEF HeaderType
  <2>3. /\ Word32(f, 0) = h.magic /\ Word16(f, 4) = h.version /\ Word16(f, 6) = h.opcode
        /\ Word32(f, 8) = h.length /\ Word32(f, 12) = h.flags
    BY <2>1, <2>2, Read16, Read32
  <2>4. h = [magic |-> h.magic, version |-> h.version, opcode |-> h.opcode,
             length |-> h.length, flags |-> h.flags]
    BY DEF HeaderType
  <2> QED BY <2>3, <2>4 DEF Header
<1>2. ASSUME Header(f) = h PROVE Holds(f, 0, EncodeHeader(h))
  <2>1. /\ Word32(f, 0) = h.magic /\ Word16(f, 4) = h.version /\ Word16(f, 6) = h.opcode
        /\ Word32(f, 8) = h.length /\ Word32(f, 12) = h.flags
    BY <1>2 DEF Header
  <2>2. \A t \in {0, 8, 12} : Holds(f, t, Bytes32(Word32(f, t)))
    <3> SUFFICES ASSUME NEW t \in {0, 8, 12} PROVE Holds(f, t, Bytes32(Word32(f, t)))
      OBVIOUS
    <3>1. t \in Nat /\ t + 4 <= Len(f)
      OBVIOUS
    <3> QED BY <3>1, Write32
  <2>3. \A t \in {4, 6} : Holds(f, t, Bytes16(Word16(f, t)))
    <3> SUFFICES ASSUME NEW t \in {4, 6} PROVE Holds(f, t, Bytes16(Word16(f, t)))
      OBVIOUS
    <3>1. t \in Nat /\ t + 2 <= Len(f)
      OBVIOUS
    <3> QED BY <3>1, Write16
  <2> QED BY <2>1, <2>2, <2>3, EncodedHeader
<1> QED BY <1>1, <1>2

LEMMA PayloadHolds ==
  ASSUME NEW f \in Seq(Byte), NEW n \in Nat, Len(f) = 16 + n, NEW b, Block(b, n)
  PROVE  SubSeq(f, 17, Len(f)) = b <=> Holds(f, 16, b)
<1>1. /\ SubSeq(f, 17, Len(f)) \in Seq(Byte) /\ Len(SubSeq(f, 17, Len(f))) = n
      /\ \A i \in 1 .. n : SubSeq(f, 17, Len(f))[i] = f[16 + i]
  OBVIOUS
<1>2. b \in Seq(Byte) /\ Len(b) = n
  BY DEF Block
<1>3. ASSUME Holds(f, 16, b) PROVE SubSeq(f, 17, Len(f)) = b
  BY <1>1, <1>2, <1>3 DEF Holds
<1>4. ASSUME SubSeq(f, 17, Len(f)) = b PROVE Holds(f, 16, b)
  BY <1>1, <1>2, <1>4 DEF Holds
<1> QED BY <1>3, <1>4

HeaderFor(s) ==
  [magic |-> Magic, version |-> Version, opcode |-> Opcode[s.kind],
   length |-> PayloadSize[s.kind], flags |-> 0]

LEMMA Numerals ==
  ASSUME NEW kind \in DOMAIN Opcode
  PROVE  /\ Opcode[kind] \in {1, 2, 3} /\ PayloadSize[kind] \in {8, 16, 40}
         /\ PayloadSize[kind] \in 0 .. U32 - 1 /\ PayloadSize[kind] <= MaxPayload
<1>1. Opcode[kind] \in {1, 2, 3} /\ PayloadSize[kind] \in {8, 16, 40}
  BY DEF Opcode, PayloadSize
<1>2. MaxPayload \in 40 .. U32 - 1 /\ U32 \in Nat
  BY TransportAssumption, Limits
<1> QED BY <1>1, <1>2

LEMMA HeaderForType ==
  ASSUME NEW s \in ShapeType
  PROVE  HeaderFor(s) \in HeaderType
<1>1. s.kind \in DOMAIN Opcode
  BY BodyEncoded
<1>2. Opcode[s.kind] \in 0 .. U16 - 1 /\ PayloadSize[s.kind] \in 0 .. U32 - 1
  BY <1>1, Numerals, Limits
<1>3. Magic \in 0 .. U32 - 1 /\ Version \in 0 .. U16 - 1 /\ 0 \in 0 .. U32 - 1
  BY TransportAssumption, Limits DEF Version
<1> QED BY <1>2, <1>3 DEF HeaderFor, HeaderType

(* What it takes for a frame to be the encoding of a shape.                    *)
LEMMA FrameOf ==
  ASSUME NEW f \in Seq(Byte), NEW s \in ShapeType
  PROVE  f = EncodeShape(s) <=>
           /\ Len(f) = 16 + PayloadSize[s.kind] /\ Header(f) = HeaderFor(s)
           /\ SubSeq(f, 17, Len(f)) = EncodeBody(s)
<1>1. PICK h, b, n : h = EncodeHeader(HeaderFor(s)) /\ b = EncodeBody(s) /\ n = PayloadSize[s.kind]
  OBVIOUS
<1>2. Block(h, 16) /\ Block(b, n) /\ n \in Nat /\ Len(b) = n
  BY <1>1, HeaderForType, EncodedHeader, BodyEncoded, Numerals DEF Block
<1>3. EncodeShape(s) = h \o b
  BY <1>1, <1>2 DEF EncodeShape, HeaderFor
<1>4. Block(h \o b, 16 + n)
  BY <1>2, BlocksJoin
<1>5. Holds(f, 0, h \o b) <=> Holds(f, 0, h) /\ Holds(f, 16, b)
  BY <1>2, BlocksHold
<1>6. f = h \o b <=> Len(f) = 16 + n /\ Holds(f, 0, h \o b)
  <2>1. PICK x : x = h \o b
    OBVIOUS
  <2>2. x \in Seq(Byte) /\ Len(x) = 16 + n
    BY <1>4, <2>1 DEF Block
  <2>3. f = x => Len(f) = 16 + n /\ Holds(f, 0, x)
    BY <2>2, HoldsItself
  <2>4. Len(f) = 16 + n /\ Holds(f, 0, x) => f = x
    BY <2>2, HoldsWhole
  <2> QED BY <2>1, <2>3, <2>4
<1>7. ASSUME Len(f) = 16 + n
      PROVE  /\ Header(f) = HeaderFor(s) <=> Holds(f, 0, h)
             /\ SubSeq(f, 17, Len(f)) = b <=> Holds(f, 16, b)
  <2>1. Len(f) >= 16
    BY <1>2, <1>7
  <2> QED BY <1>1, <1>2, <1>7, <2>1, HeaderForType, HeaderHolds, PayloadHolds
<1> QED BY <1>1, <1>3, <1>5, <1>6, <1>7

--------------------------------------------------------------------------------
(* The checks of the header pass exactly for the header of some shape.         *)
LEMMA KindIs ==
  ASSUME NEW k \in DOMAIN Opcode, Received.opcode = Opcode[k]
  PROVE  Kind = k
<1>1. \A j \in DOMAIN Opcode : Opcode[j] = Opcode[k] => j = k
  BY DEF Opcode
<1>2. Kind = CHOOSE j \in DOMAIN Opcode : Opcode[j] = Opcode[k]
  BY DEF Kind
<1> QED BY <1>1, <1>2

LEMMA HeaderPasses ==
  Failing(HeaderChecks) = {} <=>
    \E k \in DOMAIN Opcode :
      /\ Kind = k /\ Received.opcode = Opcode[k] /\ Received.magic = Magic
      /\ Received.version = Version /\ Received.length = PayloadSize[k] /\ Received.flags = 0
      /\ Len(frame) = HeaderBytes + Received.length /\ ~(Received.length > MaxPayload)
<1> DEFINE c == HeaderChecks
           known == Received.opcode \in {Opcode[k] : k \in DOMAIN Opcode}
<1>1. Failing(c) = {} <=> \A i \in 1 .. 8 : ~c[i][2]
  <2>1. DOMAIN c = 1 .. 8
    BY DEF HeaderChecks
  <2> QED BY <2>1 DEF Failing
<1>2. c[1][2] <=> Received.magic # Magic
  BY DEF HeaderChecks
<1>3. c[2][2] <=> Received.version # Version
  BY DEF HeaderChecks
<1>4. c[3][2] <=> Received.length > MaxPayload
  BY DEF HeaderChecks
<1>5. c[4][2] <=> Len(frame) # HeaderBytes + Received.length
  BY DEF HeaderChecks
<1>6. c[5][2] <=> ~known /\ Received.opcode \notin QueueClass
  BY DEF HeaderChecks
<1>7. c[6][2] <=> Received.opcode \in QueueClass
  BY DEF HeaderChecks
<1>8. c[7][2] <=> known /\ Received.length # PayloadSize[Kind]
  BY DEF HeaderChecks
<1>9. c[8][2] <=> Received.flags # 0
  BY DEF HeaderChecks
<1>10. known => \E k \in DOMAIN Opcode : Received.opcode = Opcode[k] /\ Kind = k
  BY KindIs
<1>11. \A k \in DOMAIN Opcode : Received.opcode = Opcode[k] => known /\ Received.opcode \notin QueueClass
  BY Numerals DEF QueueClass
<1>12. (\A i \in 1 .. 8 : ~c[i][2]) <=>
         /\ ~c[1][2] /\ ~c[2][2] /\ ~c[3][2] /\ ~c[4][2]
         /\ ~c[5][2] /\ ~c[6][2] /\ ~c[7][2] /\ ~c[8][2]
  <2> HIDE DEF c
  <2> QED OBVIOUS
<1> HIDE DEF c
<1>13. Failing(c) = {} <=>
         /\ Received.magic = Magic /\ Received.version = Version
         /\ ~(Received.length > MaxPayload) /\ Len(frame) = HeaderBytes + Received.length
         /\ known /\ Received.opcode \notin QueueClass
         /\ Received.length = PayloadSize[Kind] /\ Received.flags = 0
  BY <1>1, <1>2, <1>3, <1>4, <1>5, <1>6, <1>7, <1>8, <1>9, <1>12, Zenon
<1> HIDE DEF known
<1> QED BY <1>10, <1>11, <1>13 DEF c

LEMMA CreatePasses ==
  ASSUME NEW s \in CreateType
  PROVE  Failing(BodyChecks(s)) = {} <=> Meaningful(s)
<1>1. s.kind = "create" /\ s.size \in Nat /\ s.alignment \in Nat
  BY Limits DEF CreateType, Number
<1> DEFINE c == BodyChecks(s)
<1>2. Failing(c) = {} <=> \A i \in 1 .. 4 : ~c[i][2]
  <2>1. DOMAIN c = 1 .. 4
    BY <1>1 DEF BodyChecks
  <2> QED BY <2>1 DEF Failing
<1>3. c[1][2] <=> s.size = 0
  BY <1>1 DEF BodyChecks
<1>4. c[2][2] <=> s.alignment # 0 /\ ~IsPowerOfTwo(s.alignment)
  BY <1>1 DEF BodyChecks
<1>5. c[3][2] <=> s.alignment # 0 /\ s.size % s.alignment # 0
  BY <1>1 DEF BodyChecks
<1>6. c[4][2] <=> s.flags # 0
  BY <1>1 DEF BodyChecks
<1>7. Meaningful(s) <=>
        /\ s.size > 0 /\ s.flags = 0
        /\ s.alignment # 0 => IsPowerOfTwo(s.alignment) /\ s.size % s.alignment = 0
  BY <1>1 DEF Meaningful
<1>8. s.size > 0 <=> s.size # 0
  BY <1>1
<1> HIDE DEF c
<1>9. (\A i \in 1 .. 4 : ~c[i][2]) <=> ~c[1][2] /\ ~c[2][2] /\ ~c[3][2] /\ ~c[4][2]
  OBVIOUS
<1>10. Failing(c) = {} <=> Meaningful(s)
  BY <1>2, <1>3, <1>4, <1>5, <1>6, <1>7, <1>8, <1>9, Zenon
<1> QED BY <1>10 DEF c

LEMMA DestroyPasses ==
  ASSUME NEW s \in DestroyType
  PROVE  Failing(BodyChecks(s)) = {} <=> Meaningful(s)
<1>1. s.kind = "destroy"
  BY DEF DestroyType
<1> DEFINE c == BodyChecks(s)
<1>2. Failing(c) = {} <=> ~c[1][2]
  <2>1. DOMAIN c = {1}
    BY <1>1 DEF BodyChecks
  <2> QED BY <2>1 DEF Failing
<1>3. c[1][2] <=> s.handle = 0
  BY <1>1 DEF BodyChecks
<1>4. Meaningful(s) <=> s.handle # 0
  BY <1>1 DEF Meaningful
<1> QED BY <1>2, <1>3, <1>4, Zenon

(* Two runs of bytes of the same length overlap exactly if a byte is in both.  *)
LEMMA OverlapIsCommonByte ==
  ASSUME NEW s \in CopyType, s.size > 0
  PROVE  Overlap(s) <=>
           \E b \in s.srcOffset .. s.srcOffset + s.size - 1 :
             b \in s.dstOffset .. s.dstOffset + s.size - 1
<1>1. s.srcOffset \in Nat /\ s.dstOffset \in Nat /\ s.size \in Nat
  BY Limits DEF CopyType, Number
<1>2. PICK a \in Nat, b \in Nat, n \in Nat :
        a = s.srcOffset /\ b = s.dstOffset /\ n = s.size /\ n > 0
  BY <1>1
<1>3. a < b + n /\ b < a + n <=> \E x \in a .. a + n - 1 : x \in b .. b + n - 1
  <2>1. ASSUME a < b + n, b < a + n PROVE \E x \in a .. a + n - 1 : x \in b .. b + n - 1
    <3>1. CASE a <= b
      BY <1>2, <2>1, <3>1
    <3>2. CASE b <= a
      BY <1>2, <2>1, <3>2
    <3> QED BY <3>1, <3>2
  <2>2. ASSUME NEW x \in a .. a + n - 1, x \in b .. b + n - 1 PROVE a < b + n /\ b < a + n
    BY <2>2
  <2> QED BY <2>1, <2>2
<1> QED BY <1>2, <1>3 DEF Overlap

LEMMA CopyPasses ==
  ASSUME NEW s \in CopyType
  PROVE  Failing(BodyChecks(s)) = {} <=> Meaningful(s)
<1>1. /\ s.kind = "copy" /\ s.size \in Nat /\ s.srcOffset \in Nat /\ s.dstOffset \in Nat
      /\ LastByte \in Int
  BY Limits DEF CopyType, Number, LastByte
<1> DEFINE c == BodyChecks(s)
           common == \E b \in s.srcOffset .. s.srcOffset + s.size - 1 :
                       b \in s.dstOffset .. s.dstOffset + s.size - 1
<1>2. Failing(c) = {} <=> \A i \in 1 .. 4 : ~c[i][2]
  <2>1. DOMAIN c = 1 .. 4
    BY <1>1 DEF BodyChecks
  <2> QED BY <2>1 DEF Failing
<1>3. c[1][2] <=> s.size = 0
  BY <1>1 DEF BodyChecks
<1>4. c[2][2] <=> s.src = 0 \/ s.dst = 0
  BY <1>1 DEF BodyChecks
<1>5. c[3][2] <=> s.srcOffset + s.size > LastByte \/ s.dstOffset + s.size > LastByte
  BY <1>1 DEF BodyChecks
<1>6. c[4][2] <=> s.src = s.dst /\ Overlap(s)
  BY <1>1 DEF BodyChecks
<1>7. Meaningful(s) <=>
        /\ s.size > 0 /\ s.src # 0 /\ s.dst # 0
        /\ s.srcOffset + s.size <= LastByte /\ s.dstOffset + s.size <= LastByte
        /\ s.src = s.dst => ~common
  BY <1>1 DEF Meaningful
<1>8. /\ s.size > 0 <=> s.size # 0
      /\ s.srcOffset + s.size <= LastByte <=> ~(s.srcOffset + s.size > LastByte)
      /\ s.dstOffset + s.size <= LastByte <=> ~(s.dstOffset + s.size > LastByte)
  BY <1>1
<1>9. s.size > 0 => (Overlap(s) <=> common)
  BY OverlapIsCommonByte
<1> HIDE DEF c, common
<1>10. (\A i \in 1 .. 4 : ~c[i][2]) <=> ~c[1][2] /\ ~c[2][2] /\ ~c[3][2] /\ ~c[4][2]
  OBVIOUS
<1>11. Failing(c) = {} <=> Meaningful(s)
  BY <1>2, <1>3, <1>4, <1>5, <1>6, <1>7, <1>8, <1>9, <1>10, Zenon
<1> QED BY <1>11 DEF c

LEMMA BodyPasses ==
  ASSUME NEW s \in ShapeType
  PROVE  Failing(BodyChecks(s)) = {} <=> Meaningful(s)
  BY CreatePasses, DestroyPasses, CopyPasses DEF ShapeType

--------------------------------------------------------------------------------
(* What the header checks say of the frame, and what the shape that was found  *)
(* says of it.                                                                 *)
TransportInv ==
  /\ frame \in Seq(Byte)
  /\ stage \in {"header", "body", "execute"} => Len(frame) >= HeaderBytes
  /\ stage \in {"idle", "parse", "header", "body"} => shape = NoShape
  /\ stage = "body" => Failing(HeaderChecks) = {}
  /\ shape # NoShape => frame = EncodeShape(shape) /\ Meaningful(shape)
  /\ stage = "execute" => shape # NoShape
  /\ ParsesExactly

(* Whoever encodes a meaningful request gets all its checks passed.            *)
LEMMA RequestsPass ==
  ASSUME frame \in Seq(Byte), NEW s \in Shapes, Meaningful(s), frame = EncodeShape(s)
  PROVE  /\ Len(frame) >= HeaderBytes /\ Failing(HeaderChecks) = {}
         /\ Failing(BodyChecks(Body)) = {}
<1>1. s \in ShapeType /\ s.kind \in DOMAIN Opcode
  BY ShapesTyped, BodyEncoded
<1>2. /\ Len(frame) = 16 + PayloadSize[s.kind] /\ Header(frame) = HeaderFor(s)
      /\ SubSeq(frame, 17, Len(frame)) = EncodeBody(s)
  BY <1>1, FrameOf
<1>3. /\ PayloadSize[s.kind] \in Nat /\ PayloadSize[s.kind] <= MaxPayload
      /\ MaxPayload \in Nat
  BY <1>1, Numerals, TransportAssumption, Limits
<1>4. /\ Received.opcode = Opcode[s.kind] /\ Received.magic = Magic /\ Received.version = Version
      /\ Received.length = PayloadSize[s.kind] /\ Received.flags = 0
  BY <1>2 DEF Received, HeaderFor
<1>5. Kind = s.kind
  BY <1>1, <1>4, KindIs
<1>6. Failing(HeaderChecks) = {}
  <2>1. Len(frame) = HeaderBytes + Received.length /\ ~(Received.length > MaxPayload)
    BY <1>2, <1>3, <1>4 DEF HeaderBytes
  <2> QED BY <1>1, <1>4, <1>5, <2>1, HeaderPasses
<1>7. Body = s
  <2>1. PICK k, b : k \in DOMAIN Opcode /\ k = s.kind /\ b = EncodeBody(s) /\ Block(b, PayloadSize[k])
    BY <1>1, BodyEncoded
  <2>2. Body = DecodeBody(k, b)
    <3>1. b = SubSeq(frame, 17, Len(frame)) /\ HeaderBytes + 1 = 17
      BY <1>2, <2>1 DEF HeaderBytes
    <3> QED BY <1>5, <2>1, <3>1 DEF Body
  <2>3. \A x \in ShapeType : x.kind = k /\ b = EncodeBody(x) => DecodeBody(k, b) = x
    BY <2>1, BodyInverse
  <2> QED BY <1>1, <2>1, <2>2, <2>3
<1>8. Failing(BodyChecks(Body)) = {}
  BY <1>1, <1>7, BodyPasses
<1> QED BY <1>2, <1>3, <1>6, <1>8 DEF HeaderBytes

(* A frame that passes all checks encodes what is read from it.                *)
LEMMA PassesAreRequests ==
  ASSUME frame \in Seq(Byte), Len(frame) >= HeaderBytes, Failing(HeaderChecks) = {},
         Failing(BodyChecks(Body)) = {}
  PROVE  frame = EncodeShape(Body) /\ Meaningful(Body) /\ Body # NoShape
<1>1. PICK k \in DOMAIN Opcode :
        /\ Kind = k /\ Received.opcode = Opcode[k] /\ Received.magic = Magic
        /\ Received.version = Version /\ Received.length = PayloadSize[k] /\ Received.flags = 0
        /\ Len(frame) = HeaderBytes + Received.length
  BY HeaderPasses
<1>2. PICK b : b = SubSeq(frame, 17, Len(frame))
  OBVIOUS
<1>3. PayloadSize[k] \in Nat /\ Len(frame) = 16 + PayloadSize[k]
  BY <1>1, Numerals DEF HeaderBytes
<1>4. Block(b, PayloadSize[k])
  BY <1>2, <1>3 DEF Block
<1>5. Body = DecodeBody(k, b)
  BY <1>1, <1>2 DEF Body, HeaderBytes
<1>6. Body \in ShapeType /\ Body.kind = k /\ EncodeBody(Body) = b
  BY <1>4, <1>5, BodyInverse
<1>7. Header(frame) = HeaderFor(Body)
  <2>1. Header(frame) = [magic |-> Received.magic, version |-> Received.version,
                         opcode |-> Received.opcode, length |-> Received.length,
                         flags |-> Received.flags]
    BY DEF Received, Header
  <2> QED BY <1>1, <1>6, <2>1 DEF HeaderFor
<1>8. frame = EncodeShape(Body)
  BY <1>2, <1>3, <1>6, <1>7, FrameOf
<1>9. Meaningful(Body)
  BY <1>6, BodyPasses
<1>10. Body # NoShape
  <2>1. k # "none"
    BY DEF Opcode
  <2> QED BY <1>6, <2>1 DEF NoShape
<1> QED BY <1>8, <1>9, <1>10

LEMMA TransportStart == TransportInit => TransportInv
  BY DEF TransportInit, TransportInv, ParsesExactly

(* A rejection before a shape was found is right if no request has this frame. *)
LEMMA RejectKeeps ==
  ASSUME TransportInv, NEW reason, RejectFrame(reason),
         shape = NoShape /\ acceptance = "unmet" => frame \notin Requests
  PROVE  TransportInv'
<1>1. stage' = "done" /\ UNCHANGED <<acceptance, frame, shape>>
  BY DEF RejectFrame
<1>2. shape # NoShape => frame = EncodeShape(shape) /\ Meaningful(shape)
  BY DEF TransportInv
<1> QED BY <1>1, <1>2 DEF TransportInv, ParsesExactly

LEMMA TransportStep == TransportInv /\ [TransportNext]_transportVars => TransportInv'
<1> SUFFICES ASSUME TransportInv, [TransportNext]_transportVars PROVE TransportInv'
  OBVIOUS
<1>1. ASSUME NEW bytes \in Frames, Ingest(bytes) PROVE TransportInv'
  <2>1. bytes \in Seq(Byte)
    BY TransportAssumption DEF Byte
  <2> QED BY <1>1, <2>1 DEF Ingest, TransportInv, ParsesExactly
<1>2. CASE NotOurs
  BY <1>2, RejectKeeps DEF NotOurs
<1>3. CASE TooShort
  <2>1. \A s \in Shapes : Meaningful(s) => frame # EncodeShape(s)
    BY <1>3, RequestsPass DEF TooShort, TransportInv, HeaderBytes
  <2> QED BY <1>3, <2>1, RejectKeeps DEF TooShort, Requests
<1>4. CASE DecodeHeader
  BY <1>4 DEF DecodeHeader, TransportInv, ParsesExactly
<1>5. CASE BadHeader
  <2>1. \A s \in Shapes : Meaningful(s) => frame # EncodeShape(s)
    BY <1>5, RequestsPass DEF BadHeader, TransportInv
  <2> QED BY <1>5, <2>1, RejectKeeps DEF BadHeader, Requests
<1>6. CASE GoodHeader
  <2>1. Failing(HeaderChecks)' = Failing(HeaderChecks)
    BY <1>6 DEF GoodHeader, Failing, HeaderChecks, Received, Kind
  <2> QED BY <1>6, <2>1 DEF GoodHeader, TransportInv, ParsesExactly
<1>7. CASE BadBody
  <2>1. \A s \in Shapes : Meaningful(s) => frame # EncodeShape(s)
    BY <1>7, RequestsPass DEF BadBody, TransportInv
  <2> QED BY <1>7, <2>1, RejectKeeps DEF BadBody, Requests
<1>8. CASE Parsed
  <2>1. frame = EncodeShape(Body) /\ Meaningful(Body) /\ Body # NoShape
    BY <1>8, PassesAreRequests DEF Parsed, TransportInv
  <2>2. shape' = Body /\ stage' = "execute" /\ frame' = frame
    BY <1>8 DEF Parsed
  <2>3. frame' = EncodeShape(shape') /\ Meaningful(shape') /\ shape' # NoShape
    BY <2>1, <2>2
  <2>4. Len(frame') >= HeaderBytes /\ frame' \in Seq(Byte)
    BY <1>8, <2>2 DEF Parsed, TransportInv
  <2> QED BY <2>2, <2>3, <2>4 DEF TransportInv, ParsesExactly
<1>9. CASE ExecuteShape
  BY <1>9, RejectKeeps DEF ExecuteShape, TransportInv
<1>10. CASE Answered
  BY <1>10 DEF Answered, TransportInv, ParsesExactly
<1>11. CASE UNCHANGED transportVars
  <2>1. Failing(HeaderChecks)' = Failing(HeaderChecks)
    BY <1>11 DEF transportVars, Failing, HeaderChecks, Received, Kind
  <2> QED BY <1>11, <2>1 DEF transportVars, TransportInv, ParsesExactly, Requests
<1> QED BY <1>1, <1>2, <1>3, <1>4, <1>5, <1>6, <1>7, <1>8, <1>9, <1>10, <1>11 DEF TransportNext

(* ingest finds a shape in a frame exactly if the frame is the encoding of a   *)
(* meaningful request, and it is the request that was encoded; no frame of     *)
(* another length, with another byte or with an overlap hides one.             *)
THEOREM FramesAreRequests == TransportSpec => []ParsesExactly
<1>1. TransportInv => ParsesExactly
  BY DEF TransportInv
<1> QED BY <1>1, TransportStart, TransportStep, PTL DEF TransportSpec

--------------------------------------------------------------------------------
(* The encoder joins any number of parts.  FlattenSeq is a recursive function  *)
(* on the numbers of parts; Joined are its values.                             *)

Flattens(parts, g) ==
  g = [i \in 1 .. Len(parts) |-> IF i = 1 THEN parts[i] ELSE g[i - 1] \o parts[i]]
Joined(parts, k) == IF k = 0 THEN <<>> ELSE (CHOOSE g : Flattens(parts, g))[k]

LEMMA FlattenIsJoined ==
  ASSUME NEW S, NEW parts \in Seq(S)
  PROVE  FlattenSeq(parts) = Joined(parts, Len(parts))
<1>1. Len(parts) = 0 => parts = <<>>
  OBVIOUS
<1> QED BY <1>1 DEF FlattenSeq, Joined, Flattens

(* Induction, for a set of numbers.                                            *)
LEMMA EveryNumber ==
  ASSUME NEW T \in SUBSET Nat, 0 \in T, \A n \in T : n + 1 \in T
  PROVE  T = Nat
<1> SUFFICES ASSUME Nat \ T # {} PROVE FALSE
  OBVIOUS
<1>1. PICK n \in Nat \ T : \A m \in Nat \ T : <<m, n>> \notin OpToRel(<, Nat)
  BY NatLessThanWellFounded, WFMin
<1>2. \A m \in Nat \ T : ~(m < n)
  BY <1>1 DEF OpToRel
<1>3. n # 0 /\ n - 1 \in Nat
  OBVIOUS
<1>4. n - 1 \in T
  BY <1>2, <1>3
<1> QED BY <1>4

(* The recursion defines something.                                            *)
LEMMA FlattensExist ==
  ASSUME NEW parts, NEW len \in Nat, Len(parts) = len
  PROVE  \E g : Flattens(parts, g)
<1> DEFINE Part(g, i) == IF i = 1 THEN parts[i] ELSE g[i - 1] \o parts[i]
           T == {n \in Nat : \E g : g = [i \in 1 .. n |-> Part(g, i)]}
<1>1. 0 \in T
  <2>1. 1 .. 0 = {}
    OBVIOUS
  <2>2. PICK z : z = [i \in {} |-> {}]
    OBVIOUS
  <2>3. z = [i \in 1 .. 0 |-> Part(z, i)]
    BY <2>1, <2>2
  <2> QED BY <2>3
<1>2. ASSUME NEW n \in T PROVE n + 1 \in T
  <2>1. PICK g : g = [i \in 1 .. n |-> Part(g, i)]
    BY <1>2
  <2> DEFINE h == [i \in 1 .. n + 1 |-> Part(g, i)]
  <2>2. n \in Nat /\ \A i \in 1 .. n : i \in 1 .. n + 1
    OBVIOUS
  <2>3. \A i \in 1 .. n : h[i] = g[i]
    <3> TAKE i \in 1 .. n
    <3>1. g[i] = Part(g, i)
      BY <2>1
    <3> QED BY <2>2, <3>1
  <2>4. \A i \in 1 .. n + 1 : i # 1 => i - 1 \in 1 .. n
    BY <2>2
  <2>5. \A i \in 1 .. n + 1 : Part(g, i) = Part(h, i)
    BY <2>3, <2>4
  <2>6. h = [i \in 1 .. n + 1 |-> Part(h, i)]
    BY <2>5
  <2> HIDE DEF h, Part
  <2> QED BY <2>2, <2>6
<1>3. T = Nat
  <2> HIDE DEF Part
  <2> QED BY <1>1, <1>2, EveryNumber
<1>4. PICK g : g = [i \in 1 .. len |-> Part(g, i)]
  <2> HIDE DEF Part
  <2> QED BY <1>3
<1> QED BY <1>4 DEF Flattens

LEMMA JoinedMoves ==
  ASSUME NEW S, NEW parts \in Seq(Seq(S))
  PROVE  /\ Joined(parts, 0) = <<>>
         /\ \A k \in 1 .. Len(parts) : Joined(parts, k) = Joined(parts, k - 1) \o parts[k]
<1>1. PICK g : g = CHOOSE h : Flattens(parts, h)
  OBVIOUS
<1>2. PICK len \in Nat : len = Len(parts)
  OBVIOUS
<1>3. Flattens(parts, g)
  BY <1>1, <1>2, FlattensExist
<1>4. \A k : Joined(parts, k) = IF k = 0 THEN <<>> ELSE g[k]
  BY <1>1 DEF Joined
<1>5. \A k \in 1 .. len : g[k] = IF k = 1 THEN parts[k] ELSE g[k - 1] \o parts[k]
  BY <1>2, <1>3 DEF Flattens
<1>6. ASSUME NEW k \in 1 .. len
      PROVE  Joined(parts, k) = Joined(parts, k - 1) \o parts[k]
  <2>1. CASE k = 1
    <3>1. parts[1] \in Seq(S)
      BY <1>2, <2>1
    <3>2. <<>> \o parts[1] = parts[1]
      BY <3>1
    <3>3. Joined(parts, k) = parts[1] /\ Joined(parts, k - 1) = <<>>
      BY <1>4, <1>5, <2>1
    <3> QED BY <2>1, <3>2, <3>3
  <2>2. CASE k # 1
    <3>1. k # 0 /\ k - 1 # 0
      BY <2>2
    <3>2. Joined(parts, k) = g[k] /\ Joined(parts, k - 1) = g[k - 1]
      BY <1>4, <3>1
    <3> QED BY <1>5, <2>2, <3>2
  <2> QED BY <2>1, <2>2
<1> QED BY <1>2, <1>4, <1>6

(* What is joined is a sequence, each part standing after the ones before it;  *)
(* its length lies between the bounds that the lengths of its parts have.      *)
LEMMA JoinedHolds ==
  ASSUME NEW S, NEW parts \in Seq(Seq(S)), NEW n \in 0 .. Len(parts), NEW f, NEW s \in Nat
  PROVE  /\ Joined(parts, n) \in Seq(S)
         /\ Holds(f, s, Joined(parts, n)) <=>
              \A k \in 1 .. n : Holds(f, s + Len(Joined(parts, k - 1)), parts[k])
<1> DEFINE J(k) == Joined(parts, k)
           T == {m \in Nat : m <= Len(parts) =>
                   /\ J(m) \in Seq(S)
                   /\ Holds(f, s, J(m)) <=>
                        \A k \in 1 .. m : Holds(f, s + Len(J(k - 1)), parts[k])}
<1>1. J(0) = <<>> /\ \A k \in 1 .. Len(parts) : J(k) = J(k - 1) \o parts[k]
  BY JoinedMoves
<1> HIDE DEF J
<1>2. 0 \in T
  <2>1. Len(J(0)) = 0 /\ J(0) \in Seq(S) /\ 1 .. 0 = {}
    <3>1. Len(<<>>) = 0 /\ <<>> \in Seq(S)
      OBVIOUS
    <3>2. 1 .. 0 = {}
      OBVIOUS
    <3> QED BY <1>1, <3>1, <3>2
  <2>2. Holds(f, s, J(0))
    BY <2>1 DEF Holds
  <2>3. \A k \in 1 .. 0 : Holds(f, s + Len(J(k - 1)), parts[k])
    BY <2>1
  <2>4. 0 \in Nat
    OBVIOUS
  <2> HIDE DEF Holds
  <2> QED BY <2>1, <2>2, <2>3, <2>4, Zenon
<1>3. ASSUME NEW m \in T PROVE m + 1 \in T
  <2> SUFFICES ASSUME m + 1 <= Len(parts)
               PROVE  /\ J(m + 1) \in Seq(S)
                      /\ Holds(f, s, J(m + 1)) <=>
                           \A k \in 1 .. m + 1 : Holds(f, s + Len(J(k - 1)), parts[k])
    OBVIOUS
  <2>1. m \in Nat /\ m <= Len(parts) /\ Len(parts) \in Nat /\ m + 1 \in 1 .. Len(parts)
    OBVIOUS
  <2>2. J(m) \in Seq(S) /\ parts[m + 1] \in Seq(S)
    BY <2>1
  <2>3. PICK a \in Seq(S), b \in Seq(S) : a = J(m) /\ b = parts[m + 1]
    BY <2>2
  <2>4. J(m + 1) = a \o b
    <3>1. (m + 1) - 1 = m
      BY <2>1
    <3>2. J(m + 1) = J((m + 1) - 1) \o parts[m + 1]
      BY <1>1, <2>1
    <3> QED BY <2>3, <3>1, <3>2
  <2>5. Holds(f, s, a \o b) <=> Holds(f, s, a) /\ Holds(f, s + Len(a), b)
    BY HoldsJoin
  <2>6. a \o b \in Seq(S)
    OBVIOUS
  <2>7. Holds(f, s, a) <=> \A k \in 1 .. m : Holds(f, s + Len(J(k - 1)), parts[k])
    BY <2>1, <2>3
  <2>8. \A k : k \in 1 .. m + 1 <=> k \in 1 .. m \/ k = m + 1
    BY <2>1
  <2>9. (m + 1) - 1 = m
    BY <2>1
  <2> QED BY <2>3, <2>4, <2>5, <2>6, <2>7, <2>8, <2>9
<1>4. n \in T
  <2>1. T = Nat
    BY <1>2, <1>3, EveryNumber
  <2> QED BY <2>1
<1> QED BY <1>4 DEF J

LEMMA JoinedLength ==
  ASSUME NEW S, NEW parts \in Seq(Seq(S)), NEW lo \in Nat, NEW hi \in Nat,
         \A i \in 1 .. Len(parts) : lo <= Len(parts[i]) /\ Len(parts[i]) <= hi
  PROVE  \A n \in 0 .. Len(parts) :
           /\ Len(Joined(parts, n)) \in n * lo .. n * hi
           /\ \A k \in 0 .. n : Len(Joined(parts, k)) <= Len(Joined(parts, n))
<1> DEFINE J(k) == Joined(parts, k)
           T == {m \in Nat : m <= Len(parts) =>
                   /\ Len(J(m)) \in m * lo .. m * hi
                   /\ \A k \in 0 .. m : Len(J(k)) <= Len(J(m))}
<1>1. J(0) = <<>> /\ \A k \in 1 .. Len(parts) : J(k) = J(k - 1) \o parts[k]
  BY JoinedMoves
<1>2. \A k \in 0 .. Len(parts) : J(k) \in Seq(S)
  BY JoinedHolds
<1> HIDE DEF J
<1>3. 0 \in T
  <2>1. \A k \in 0 .. 0 : k = 0
    OBVIOUS
  <2>2. Len(J(0)) = 0
    BY <1>1
  <2>3. 0 * lo = 0 /\ 0 * hi = 0
    OBVIOUS
  <2>4. 0 \in 0 * lo .. 0 * hi
    BY <2>3
  <2> QED BY <2>1, <2>2, <2>4
<1>4. ASSUME NEW m \in T PROVE m + 1 \in T
  <2> SUFFICES ASSUME m + 1 <= Len(parts)
               PROVE  /\ Len(J(m + 1)) \in (m + 1) * lo .. (m + 1) * hi
                      /\ \A k \in 0 .. m + 1 : Len(J(k)) <= Len(J(m + 1))
    OBVIOUS
  <2>1. m \in Nat /\ m <= Len(parts) /\ Len(parts) \in Nat /\ m + 1 \in 1 .. Len(parts)
        /\ m \in 0 .. Len(parts)
    OBVIOUS
  <2>2. J(m) \in Seq(S) /\ parts[m + 1] \in Seq(S)
    BY <1>2, <2>1
  <2>3. PICK a \in Seq(S), b \in Seq(S) : a = J(m) /\ b = parts[m + 1]
    BY <2>2
  <2>4. J(m + 1) = a \o b
    <3>1. (m + 1) - 1 = m
      BY <2>1
    <3>2. J(m + 1) = J((m + 1) - 1) \o parts[m + 1]
      BY <1>1, <2>1
    <3> QED BY <2>3, <3>1, <3>2
  <2>5. Len(J(m + 1)) = Len(a) + Len(b)
    BY <2>4
  <2>6. PICK x \in Nat, y \in Nat : x = Len(a) /\ y = Len(b)
    OBVIOUS
  <2>7. lo <= y /\ y <= hi /\ m * lo <= x /\ x <= m * hi
    BY <2>1, <2>3, <2>6
  <2>8. m * lo + lo <= x + y /\ x + y <= m * hi + hi
    <3>1. m * lo \in Nat /\ m * hi \in Nat
      BY <2>1
    <3> QED BY <2>7, <3>1
  <2>9. (m + 1) * lo = m * lo + lo /\ (m + 1) * hi = m * hi + hi
    BY <2>1
  <2>10. Len(J(m + 1)) \in (m + 1) * lo .. (m + 1) * hi
    <3>1. (m + 1) * lo \in Int /\ (m + 1) * hi \in Int
      BY <2>1
    <3> QED BY <2>5, <2>6, <2>8, <2>9, <3>1
  <2>11. ASSUME NEW k \in 0 .. m + 1 PROVE Len(J(k)) <= Len(J(m + 1))
    <3>1. CASE k \in 0 .. m
      <4>1. Len(J(k)) <= x
        BY <2>1, <2>3, <2>6, <3>1
      <4>2. Len(J(k)) \in Nat
        <5>1. J(k) \in Seq(S)
          BY <1>2, <2>1, <3>1
        <5> QED BY <5>1
      <4> QED BY <2>5, <2>6, <4>1, <4>2
    <3>2. CASE k = m + 1
      BY <2>5, <2>6, <3>2
    <3> QED BY <2>1, <3>1, <3>2
  <2> QED BY <2>10, <2>11
<1>5. T = Nat
  BY <1>3, <1>4, EveryNumber
<1>6. ASSUME NEW n \in 0 .. Len(parts)
      PROVE  /\ Len(J(n)) \in n * lo .. n * hi
             /\ \A k \in 0 .. n : Len(J(k)) <= Len(J(n))
  <2>1. n \in T /\ n <= Len(parts)
    BY <1>5
  <2> QED BY <2>1
<1> QED BY <1>6 DEF J

(* The first parts decide what is joined of them.                              *)
LEMMA JoinedPrefix ==
  ASSUME NEW S, NEW parts \in Seq(Seq(S)), NEW others \in Seq(Seq(S)),
         NEW n \in Nat, n <= Len(parts), n <= Len(others),
         \A i \in 1 .. n : parts[i] = others[i]
  PROVE  Joined(parts, n) = Joined(others, n)
<1> DEFINE T == {m \in Nat : m <= n => Joined(parts, m) = Joined(others, m)}
<1>1. 0 \in T
  BY JoinedMoves
<1>2. ASSUME NEW m \in T PROVE m + 1 \in T
  <2> SUFFICES ASSUME m + 1 <= n PROVE Joined(parts, m + 1) = Joined(others, m + 1)
    OBVIOUS
  <2>1. /\ m \in Nat /\ m <= n /\ m + 1 \in 1 .. n /\ (m + 1) - 1 = m
        /\ m + 1 \in 1 .. Len(parts) /\ m + 1 \in 1 .. Len(others)
    OBVIOUS
  <2>2. Joined(parts, m + 1) = Joined(parts, (m + 1) - 1) \o parts[m + 1]
    BY <2>1, JoinedMoves
  <2>3. Joined(others, m + 1) = Joined(others, (m + 1) - 1) \o others[m + 1]
    BY <2>1, JoinedMoves
  <2> QED BY <2>1, <2>2, <2>3
<1>3. T = Nat
  BY <1>1, <1>2, EveryNumber
<1> QED BY <1>3

LEMMA ReverseTwice ==
  ASSUME NEW S, NEW b \in Seq(S)
  PROVE  Reverse(b) \in Seq(S) /\ Len(Reverse(b)) = Len(b) /\ Reverse(Reverse(b)) = b
<1>1. PICK n \in Nat : n = Len(b)
  OBVIOUS
<1>2. Reverse(b) = [i \in 1 .. n |-> b[(n - i) + 1]]
  BY <1>1 DEF Reverse
<1>3. \A i \in 1 .. n : (n - i) + 1 \in 1 .. n /\ (n - ((n - i) + 1)) + 1 = i
  BY <1>1
<1>4. Reverse(b) \in Seq(S) /\ Len(Reverse(b)) = n
  BY <1>1, <1>2, <1>3
<1>5. Reverse(Reverse(b)) = [i \in 1 .. n |-> Reverse(b)[(n - i) + 1]]
  BY <1>4 DEF Reverse
<1>6. \A i \in 1 .. n : Reverse(b)[(n - i) + 1] = b[i]
  BY <1>2, <1>3
<1>7. Reverse(Reverse(b)) = [i \in 1 .. n |-> b[i]]
  BY <1>5, <1>6
<1> QED BY <1>1, <1>4, <1>7

(* A slice is the block that the sequence holds there.                         *)
LEMMA SliceHolds ==
  ASSUME NEW S, NEW f \in Seq(S), NEW b \in Seq(S), NEW s \in Nat, s + Len(b) <= Len(f)
  PROVE  Holds(f, s, b) <=> SubSeq(f, s + 1, s + Len(b)) = b
<1>1. PICK n \in Nat : n = Len(b)
  OBVIOUS
<1>2. PICK c : c = SubSeq(f, s + 1, s + n)
  OBVIOUS
<1>3. c \in Seq(S) /\ Len(c) = n /\ \A i \in 1 .. n : c[i] = f[s + i]
  <2>1. Len(f) \in Nat /\ s + n <= Len(f) /\ s + 1 \in 1 .. Len(f) + 1 /\ (s + n) - (s + 1) + 1 = n
    BY <1>1
  <2> QED BY <1>2, <2>1
<1>4. c = b <=> \A i \in 1 .. n : c[i] = b[i]
  <2>1. c = [i \in 1 .. n |-> c[i]]
    BY <1>3
  <2>2. b = [i \in 1 .. n |-> b[i]]
    BY <1>1
  <2> QED BY <2>1, <2>2
<1> QED BY <1>1, <1>2, <1>3, <1>4 DEF Holds

(* Parts of the same length stand at its multiples.                            *)
LEMMA EqualParts ==
  ASSUME NEW S, NEW parts \in Seq(Seq(S)), NEW w \in Nat,
         \A i \in 1 .. Len(parts) : Len(parts[i]) = w, NEW f, NEW s \in Nat
  PROVE  /\ Joined(parts, Len(parts)) \in Seq(S)
         /\ Len(Joined(parts, Len(parts))) = Len(parts) * w
         /\ Holds(f, s, Joined(parts, Len(parts))) <=>
              \A i \in 1 .. Len(parts) : Holds(f, s + (i - 1) * w, parts[i])
<1>1. PICK n \in Nat : n = Len(parts)
  OBVIOUS
<1>2. \A k \in 0 .. n : Len(Joined(parts, k)) = k * w
  <2>1. \A k \in 0 .. n : Len(Joined(parts, k)) \in k * w .. k * w
    <3>1. \A i \in 1 .. Len(parts) : w <= Len(parts[i]) /\ Len(parts[i]) <= w
      OBVIOUS
    <3> QED BY <1>1, <3>1, JoinedLength
  <2>2. \A k \in 0 .. n : k * w \in Int
    OBVIOUS
  <2>3. \A x \in Int : \A y \in x .. x : y = x
    OBVIOUS
  <2> QED BY <2>1, <2>2, <2>3
<1>3. /\ Joined(parts, n) \in Seq(S)
      /\ Holds(f, s, Joined(parts, n)) <=>
           \A k \in 1 .. n : Holds(f, s + Len(Joined(parts, k - 1)), parts[k])
  <2>1. n \in 0 .. Len(parts)
    BY <1>1
  <2> QED BY <2>1, JoinedHolds
<1>4. \A k \in 1 .. n : Len(Joined(parts, k - 1)) = (k - 1) * w
  BY <1>2
<1>5. n \in 0 .. n
  BY <1>1
<1> QED BY <1>1, <1>2, <1>3, <1>4, <1>5

--------------------------------------------------------------------------------
(* The records of the list.                                                    *)

(* A record with this tag has n fields, of w bytes each.                       *)
Uniform(t, n, w) ==
  /\ t \in 1 .. 4 /\ n \in Nat \ {0} /\ w \in Nat \ {0}
  /\ Len(Widths[t]) = n /\ DOMAIN Widths[t] = 1 .. n /\ \A i \in 1 .. n : Widths[t][i] = w
  /\ RecordLength[t] = 1 + n * w

LEMMA Layouts ==
  /\ DOMAIN Widths = 1 .. 4
  /\ \A t \in 1 .. 4 : /\ \E n, w \in Nat : Uniform(t, n, w)
                       /\ RecordLength[t] \in MinRecord .. MaxRecord
<1>1. DOMAIN Widths = 1 .. 4
  BY DEF Widths
<1>2. Uniform(1, 3, 8) /\ RecordLength[1] \in MinRecord .. MaxRecord
  BY DEF Uniform, Widths, RecordLength, MinRecord, MaxRecord
<1>3. Uniform(2, 4, 4) /\ RecordLength[2] \in MinRecord .. MaxRecord
  BY DEF Uniform, Widths, RecordLength, MinRecord, MaxRecord
<1>4. Uniform(3, 7, 4) /\ RecordLength[3] \in MinRecord .. MaxRecord
  BY DEF Uniform, Widths, RecordLength, MinRecord, MaxRecord
<1>5. Uniform(4, 1, 8) /\ RecordLength[4] \in MinRecord .. MaxRecord
  BY DEF Uniform, Widths, RecordLength, MinRecord, MaxRecord
<1>6. \A t \in 1 .. 4 : t = 1 \/ t = 2 \/ t = 3 \/ t = 4
  OBVIOUS
<1> QED BY <1>1, <1>2, <1>3, <1>4, <1>5, <1>6

LEMMA CommandsAre ==
  ASSUME NEW t, NEW n, NEW w, Uniform(t, n, w)
  PROVE  \A cmd : cmd \in Commands /\ cmd.tag = t <=>
           \E fields \in Seq(Seq(Octet)) :
             /\ cmd = [tag |-> t, fields |-> fields] /\ Len(fields) = n
             /\ \A i \in 1 .. n : Len(fields[i]) = w
<1>1. t \in DOMAIN Widths
  BY Layouts DEF Uniform
<1>2. ASSUME NEW cmd, cmd \in Commands, cmd.tag = t
      PROVE  \E fields \in Seq(Seq(Octet)) :
               /\ cmd = [tag |-> t, fields |-> fields] /\ Len(fields) = n
               /\ \A i \in 1 .. n : Len(fields[i]) = w
  <2>1. /\ cmd \in [tag : DOMAIN Widths, fields : Seq(Seq(Octet))]
        /\ Len(cmd.fields) = Len(Widths[cmd.tag])
        /\ \A i \in DOMAIN cmd.fields : Len(cmd.fields[i]) = Widths[cmd.tag][i]
    BY <1>2 DEF Commands
  <2>2. cmd = [tag |-> t, fields |-> cmd.fields] /\ cmd.fields \in Seq(Seq(Octet))
    BY <1>2, <2>1
  <2>3. Len(cmd.fields) = n /\ DOMAIN cmd.fields = 1 .. n
    BY <1>2, <2>1, <2>2 DEF Uniform
  <2>4. \A i \in 1 .. n : Len(cmd.fields[i]) = w
    BY <1>2, <2>1, <2>3 DEF Uniform
  <2> QED BY <2>2, <2>3, <2>4
<1>3. ASSUME NEW cmd, NEW fields \in Seq(Seq(Octet)),
             cmd = [tag |-> t, fields |-> fields], Len(fields) = n,
             \A i \in 1 .. n : Len(fields[i]) = w
      PROVE  cmd \in Commands /\ cmd.tag = t
  <2>1. cmd.tag = t /\ cmd.fields = fields
    BY <1>3
  <2>2. cmd \in [tag : DOMAIN Widths, fields : Seq(Seq(Octet))]
    BY <1>1, <1>3
  <2>3. Len(cmd.fields) = Len(Widths[cmd.tag])
    BY <1>3, <2>1 DEF Uniform
  <2>4. DOMAIN cmd.fields = 1 .. n
    BY <1>3, <2>1
  <2>5. \A i \in DOMAIN cmd.fields : Len(cmd.fields[i]) = Widths[cmd.tag][i]
    BY <1>3, <2>1, <2>4 DEF Uniform
  <2> QED BY <2>1, <2>2, <2>3, <2>5 DEF Commands
<1> QED BY <1>2, <1>3

LEMMA EncodedCommand ==
  ASSUME NEW t, NEW n, NEW w, Uniform(t, n, w),
         NEW cmd \in Commands, cmd.tag = t, NEW f, NEW s \in Nat
  PROVE  /\ EncodeCommand(cmd) \in Seq(Octet) /\ Len(EncodeCommand(cmd)) = RecordLength[t]
         /\ EncodeCommand(cmd)[1] = t
         /\ Holds(f, s, EncodeCommand(cmd)) <=>
              /\ f[s + 1] = t
              /\ \A i \in 1 .. n : Holds(f, s + 1 + (i - 1) * w, Reverse(cmd.fields[i]))
<1>1. PICK fields \in Seq(Seq(Octet)) :
        /\ cmd = [tag |-> t, fields |-> fields] /\ Len(fields) = n
        /\ \A i \in 1 .. n : Len(fields[i]) = w
  BY CommandsAre
<1>2. t \in Octet /\ n \in Nat /\ w \in Nat /\ RecordLength[t] = 1 + n * w
  BY DEF Uniform, Octet
<1> DEFINE parts == [i \in DOMAIN fields |-> LittleEndian(fields[i])]
<1>3. DOMAIN fields = 1 .. n
  BY <1>1
<1>4. \A i \in 1 .. n : /\ LittleEndian(fields[i]) \in Seq(Octet)
                        /\ Len(LittleEndian(fields[i])) = w
  <2>1. \A i \in 1 .. n : fields[i] \in Seq(Octet)
    BY <1>1, <1>3
  <2> QED BY <1>1, <2>1, ReverseTwice DEF LittleEndian
<1>5. /\ parts \in Seq(Seq(Octet)) /\ Len(parts) = n
      /\ \A i \in 1 .. n : parts[i] = LittleEndian(fields[i]) /\ Len(parts[i]) = w
  BY <1>2, <1>3, <1>4
<1>6. EncodeCommand(cmd) = <<t>> \o FlattenSeq(parts)
  BY <1>1 DEF EncodeCommand
<1> HIDE DEF parts
<1>7. PICK j : j = Joined(parts, n)
  OBVIOUS
<1>8. EncodeCommand(cmd) = <<t>> \o j
  BY <1>5, <1>6, <1>7, FlattenIsJoined
<1>9. /\ j \in Seq(Octet) /\ Len(j) = n * w
      /\ Holds(f, s + 1, j) <=> \A i \in 1 .. n : Holds(f, s + 1 + (i - 1) * w, parts[i])
  <2>1. s + 1 \in Nat /\ w \in Nat
    BY <1>2
  <2>2. \A i \in 1 .. Len(parts) : Len(parts[i]) = w
    BY <1>5
  <2>3. /\ Joined(parts, Len(parts)) \in Seq(Octet)
        /\ Len(Joined(parts, Len(parts))) = Len(parts) * w
        /\ Holds(f, s + 1, Joined(parts, Len(parts))) <=>
             \A i \in 1 .. Len(parts) : Holds(f, s + 1 + (i - 1) * w, parts[i])
    BY <1>5, <2>1, <2>2, EqualParts
  <2> QED BY <1>5, <1>7, <2>3
<1>10. <<t>> \in Seq(Octet) /\ Len(<<t>>) = 1
  BY <1>2
<1>11. PICK a \in Seq(Octet) : a = <<t>> /\ Len(a) = 1 /\ a[1] = t
  BY <1>10
<1>12. Holds(f, s, a \o j) <=> Holds(f, s, a) /\ Holds(f, s + 1, j)
  BY <1>9, <1>11, HoldsJoin
<1>13. Holds(f, s, a) <=> f[s + 1] = t
  BY <1>11 DEF Holds
<1>14. a \o j \in Seq(Octet) /\ Len(a \o j) = Len(a) + Len(j) /\ (a \o j)[1] = a[1]
  BY <1>9, <1>11
<1>15. Len(a \o j) = 1 + n * w
  BY <1>9, <1>11, <1>14
<1>16. \A i \in 1 .. n : parts[i] = Reverse(cmd.fields[i])
  BY <1>1, <1>5 DEF LittleEndian
<1> QED BY <1>2, <1>8, <1>9, <1>11, <1>12, <1>13, <1>14, <1>15, <1>16

(* A record that the list decoder cut out.                                     *)
Whole(record, t) ==
  /\ t \in 1 .. 4 /\ record \in Seq(Octet) /\ Len(record) = RecordLength[t] /\ record[1] = t

LEMMA DecodedCommand ==
  ASSUME NEW t, NEW n, NEW w, Uniform(t, n, w), NEW record, Whole(record, t)
  PROVE  /\ DecodeCommand(record) \in Commands /\ DecodeCommand(record).tag = t
         /\ \A i \in 1 .. n :
              LET part == SubSeq(record, 1 + (i - 1) * w + 1, 1 + (i - 1) * w + w)
              IN /\ part \in Seq(Octet) /\ Len(part) = w
                 /\ 1 + (i - 1) * w \in Nat /\ 1 + (i - 1) * w + w <= Len(record)
                 /\ DecodeCommand(record).fields[i] = Reverse(part)
<1> DEFINE part(i) == SubSeq(record, 1 + (i - 1) * w + 1, 1 + (i - 1) * w + w)
           fields == Fields(t, record)
<1>1. /\ t \in 1 .. 4 /\ n \in Nat \ {0} /\ w \in Nat \ {0} /\ DOMAIN Widths[t] = 1 .. n
      /\ \A i \in 1 .. n : Widths[t][i] = w
  BY DEF Uniform
<1>2. record \in Seq(Octet) /\ Len(record) = 1 + n * w /\ record[1] = t
  BY DEF Uniform, Whole
<1>3. ASSUME NEW i \in 1 .. n
      PROVE  /\ part(i) \in Seq(Octet) /\ Len(part(i)) = w
             /\ 1 + (i - 1) * w \in Nat /\ 1 + (i - 1) * w + w <= Len(record)
             /\ fields[i] = Reverse(part(i))
  <2>1. PICK k \in Nat : k = (i - 1) * w
    BY <1>1
  <2>2. i * w = k + w /\ i * w <= n * w
    <3>1. i * w = (i - 1) * w + w
      BY <1>1
    <3>2. i <= n /\ i \in Nat
      BY <1>1
    <3> QED BY <1>1, <2>1, <3>1, <3>2
  <2>3. 1 + k + w <= Len(record) /\ Len(record) \in Nat
    BY <1>1, <1>2, <2>1, <2>2
  <2>4. part(i) = SubSeq(record, 1 + k + 1, 1 + k + w)
    BY <2>1
  <2>5. part(i) \in Seq(Octet) /\ Len(part(i)) = w
    <3>1. 1 + k + 1 \in 1 .. Len(record) + 1 /\ 1 + k + w \in 0 .. Len(record)
      BY <1>1, <2>1, <2>3
    <3>2. (1 + k + w) - (1 + k + 1) + 1 = w /\ 1 + k + 1 <= 1 + k + w
      BY <1>1, <2>1
    <3> QED BY <1>1, <1>2, <2>4, <3>1, <3>2
  <2>6. fields[i] = Reverse(SubSeq(record, 2 + (i - 1) * w, 1 + i * w))
    BY <1>1 DEF Fields, LittleEndian
  <2>7. 2 + (i - 1) * w = 1 + k + 1 /\ 1 + i * w = 1 + k + w
    BY <1>1, <2>1, <2>2
  <2>8. fields[i] = Reverse(part(i))
    BY <2>4, <2>6, <2>7
  <2>9. 1 + (i - 1) * w \in Nat /\ 1 + (i - 1) * w + w <= Len(record)
    BY <2>1, <2>3
  <2> HIDE DEF part, fields
  <2> QED BY <2>5, <2>8, <2>9
<1>4. DOMAIN fields = 1 .. n
  BY <1>1 DEF Fields
<1>5. \A i \in 1 .. n : fields[i] \in Seq(Octet) /\ Len(fields[i]) = w
  <2> HIDE DEF part, fields
  <2> QED BY <1>3, ReverseTwice
<1>6. fields \in Seq(Seq(Octet)) /\ Len(fields) = n
  <2>1. fields = [i \in 1 .. n |-> fields[i]]
    BY <1>1 DEF Fields
  <2> HIDE DEF fields
  <2> QED BY <1>1, <1>5, <2>1
<1>7. DecodeCommand(record) = [tag |-> t, fields |-> fields]
  BY <1>2 DEF DecodeCommand
<1>8. DecodeCommand(record) \in Commands /\ DecodeCommand(record).tag = t
  <2> HIDE DEF fields
  <2> QED BY <1>5, <1>6, <1>7, CommandsAre
<1>9. DecodeCommand(record).fields = fields
  BY <1>7
<1> HIDE DEF fields
<1> QED BY <1>3, <1>8, <1>9

(* Encoding and decoding of a record are inverse.                              *)
LEMMA RecordInverse ==
  ASSUME NEW t, NEW record, Whole(record, t)
  PROVE  /\ DecodeCommand(record) \in Commands /\ DecodeCommand(record).tag = t
         /\ EncodeCommand(DecodeCommand(record)) = record
<1>1. PICK n, w : Uniform(t, n, w)
  BY Layouts DEF Whole
<1>2. PICK cmd : cmd = DecodeCommand(record)
  OBVIOUS
<1>3. cmd \in Commands /\ cmd.tag = t
  BY <1>1, <1>2, DecodedCommand
<1>4. \A i \in 1 .. n : Holds(record, 0 + 1 + (i - 1) * w, Reverse(cmd.fields[i]))
  <2> TAKE i \in 1 .. n
  <2>1. PICK k \in Nat : k = 1 + (i - 1) * w
    BY <1>1, DecodedCommand
  <2>2. PICK part : part = SubSeq(record, k + 1, k + w)
    OBVIOUS
  <2>3. /\ part \in Seq(Octet) /\ Len(part) = w /\ k + w <= Len(record)
        /\ cmd.fields[i] = Reverse(part)
    BY <1>1, <1>2, <2>1, <2>2, DecodedCommand
  <2>4. record \in Seq(Octet)
    BY DEF Whole
  <2>5. Holds(record, k, part)
    BY <2>2, <2>3, <2>4, SliceHolds
  <2>6. Reverse(cmd.fields[i]) = part
    BY <2>3, ReverseTwice
  <2>7. 0 + 1 + (i - 1) * w = k
    <3>1. w \in Nat /\ (i - 1) * w \in Int
      BY <1>1 DEF Uniform
    <3> QED BY <2>1, <3>1
  <2> QED BY <2>5, <2>6, <2>7
<1>5. Holds(record, 0, EncodeCommand(cmd))
  <2>1. record[0 + 1] = t
    BY DEF Whole
  <2> QED BY <1>1, <1>3, <1>4, <2>1, EncodedCommand
<1>6. EncodeCommand(cmd) \in Seq(Octet) /\ Len(EncodeCommand(cmd)) = RecordLength[t]
  BY <1>1, <1>3, EncodedCommand
<1>7. record \in Seq(Octet) /\ Len(record) = RecordLength[t]
  BY DEF Whole
<1>8. record = EncodeCommand(cmd)
  <2>1. PICK e \in Seq(Octet) : e = EncodeCommand(cmd)
    BY <1>6
  <2> QED BY <1>5, <1>6, <1>7, <2>1, HoldsWhole
<1> QED BY <1>2, <1>3, <1>8

LEMMA CommandInverse ==
  ASSUME NEW cmd \in Commands
  PROVE  /\ cmd.tag \in 1 .. 4 /\ Whole(EncodeCommand(cmd), cmd.tag)
         /\ DecodeCommand(EncodeCommand(cmd)) = cmd
<1>1. PICK t : t = cmd.tag
  OBVIOUS
<1>2. t \in 1 .. 4
  BY <1>1, Layouts DEF Commands
<1>3. PICK n, w : Uniform(t, n, w)
  BY <1>2, Layouts
<1>4. PICK record : record = EncodeCommand(cmd)
  OBVIOUS
<1>5. Whole(record, t)
  BY <1>1, <1>2, <1>3, <1>4, EncodedCommand DEF Whole
<1>6. PICK back : back = DecodeCommand(record)
  OBVIOUS
<1>7. PICK fields \in Seq(Seq(Octet)) :
        /\ cmd = [tag |-> t, fields |-> fields] /\ Len(fields) = n
        /\ \A i \in 1 .. n : Len(fields[i]) = w
  BY <1>1, <1>3, CommandsAre
<1>8. back \in Commands /\ back.tag = t
  BY <1>3, <1>5, <1>6, DecodedCommand
<1>9. PICK others \in Seq(Seq(Octet)) :
        /\ back = [tag |-> t, fields |-> others] /\ Len(others) = n
        /\ \A i \in 1 .. n : Len(others[i]) = w
  BY <1>3, <1>8, CommandsAre
<1>10. \A i \in 1 .. n : Holds(record, 0 + 1 + (i - 1) * w, Reverse(cmd.fields[i]))
  <2>1. record \in Seq(Octet)
    BY <1>5 DEF Whole
  <2>2. Holds(record, 0, record)
    BY <2>1, HoldsItself
  <2> QED BY <1>1, <1>3, <1>4, <2>2, EncodedCommand
<1>11. ASSUME NEW i \in 1 .. n PROVE others[i] = fields[i]
  <2>1. PICK k \in Nat : k = 1 + (i - 1) * w
    BY <1>3, <1>5, DecodedCommand
  <2>2. PICK part : part = SubSeq(record, k + 1, k + w)
    OBVIOUS
  <2>3. /\ part \in Seq(Octet) /\ Len(part) = w /\ k + w <= Len(record)
        /\ back.fields[i] = Reverse(part)
    BY <1>3, <1>5, <1>6, <2>1, <2>2, DecodedCommand
  <2>4. fields[i] \in Seq(Octet) /\ Len(fields[i]) = w
    BY <1>7
  <2>5. PICK b \in Seq(Octet) : b = Reverse(fields[i]) /\ Len(b) = w
    BY <2>4, ReverseTwice
  <2>6. 0 + 1 + (i - 1) * w = k
    <3>1. w \in Nat /\ (i - 1) * w \in Int
      BY <1>3 DEF Uniform
    <3> QED BY <2>1, <3>1
  <2>7. Holds(record, k, b)
    BY <1>7, <1>10, <2>5, <2>6
  <2>8. record \in Seq(Octet)
    BY <1>5 DEF Whole
  <2>9. part = b
    BY <2>2, <2>3, <2>5, <2>7, <2>8, SliceHolds
  <2>10. others[i] = Reverse(Reverse(fields[i]))
    BY <1>9, <2>3, <2>5, <2>9
  <2> QED BY <2>4, <2>10, ReverseTwice
<1>12. others = fields
  BY <1>7, <1>9, <1>11
<1> QED BY <1>1, <1>2, <1>4, <1>5, <1>6, <1>7, <1>9, <1>12

--------------------------------------------------------------------------------
(* The payload: the count, and the records after it.                           *)

CountOf(p) == p[1] + 256 * (p[2] + 256 * (p[3] + 256 * p[4]))
FitsU32(n) == Shifted(Shifted(Shifted(n))) < 256

LEMMA CountWritten ==
  ASSUME NEW n \in Nat, FitsU32(n)
  PROVE  /\ CountBytes(n) \in Seq(Octet) /\ Len(CountBytes(n)) = 4
         /\ \A p : Holds(p, 0, CountBytes(n)) => CountOf(p) = n
<1>1. PICK m \in Nat, l \in Nat, k \in Nat : m = n \div 256 /\ l = m \div 256 /\ k = l \div 256
  OBVIOUS
<1>2. k < 256
  BY <1>1 DEF FitsU32, Shifted
<1>3. PICK a \in Octet, b \in Octet, c \in Octet :
        a = n % 256 /\ b = m % 256 /\ c = l % 256
  <2>1. \A x \in Nat : x % 256 \in Octet
    BY DEF Octet
  <2> QED BY <2>1
<1>4. k \in Octet /\ k % 256 = k
  BY <1>2 DEF Octet
<1>5. CountBytes(n) = <<a, b, c, k>>
  BY <1>1, <1>3, <1>4 DEF CountBytes, Shifted
<1>6. n = a + 256 * m /\ m = b + 256 * l /\ l = c + 256 * k
  BY <1>1, <1>3
<1>7. ASSUME NEW p, Holds(p, 0, <<a, b, c, k>>) PROVE CountOf(p) = n
  <2>1. p[1] = a /\ p[2] = b /\ p[3] = c /\ p[4] = k
    BY <1>7 DEF Holds
  <2> QED BY <1>6, <2>1 DEF CountOf
<1> QED BY <1>4, <1>5, <1>7

LEMMA WithinCount ==
  ASSUME NEW n \in Nat, n <= MaxCommands
  PROVE  MaxCommands \in Nat /\ FitsU32(n)
<1>1. PICK top \in Nat : top = MaxCommands
  BY WireAssumption
<1>2. ((top \div 256) \div 256) \div 256 < 256
  BY <1>1, WireAssumption DEF Shifted
<1>3. n \div 256 <= top \div 256
  BY <1>1
<1>4. (n \div 256) \div 256 <= (top \div 256) \div 256
  BY <1>3
<1>5. ((n \div 256) \div 256) \div 256 <= ((top \div 256) \div 256) \div 256
  BY <1>4
<1>6. ((n \div 256) \div 256) \div 256 < 256
  BY <1>2, <1>5
<1> QED BY <1>1, <1>6 DEF FitsU32, Shifted

LEMMA CountRead ==
  ASSUME NEW p \in Seq(Octet), Len(p) >= 4
  PROVE  CountOf(p) \in Nat /\ Holds(p, 0, CountBytes(CountOf(p)))
<1>1. PICK a \in Octet, b \in Octet, c \in Octet, d \in Octet :
        a = p[1] /\ b = p[2] /\ c = p[3] /\ d = p[4]
  OBVIOUS
<1>2. PICK l \in Nat, m \in Nat, n \in Nat : l = c + 256 * d /\ m = b + 256 * l /\ n = a + 256 * m
  BY DEF Octet
<1>3. CountOf(p) = n
  BY <1>1, <1>2 DEF CountOf
<1>4. \A x \in Octet, y \in Nat : (x + 256 * y) % 256 = x /\ Shifted(x + 256 * y) = y
  <2> TAKE x \in Octet, y \in Nat
  <2>1. PICK z \in Int : z = x + 256 * y
    BY DEF Octet
  <2>2. z = 256 * y + x /\ x \in 0 .. 256 - 1
    BY <2>1 DEF Octet
  <2>3. z % 256 = x /\ z \div 256 = y
    BY <2>2, RemainderIs
  <2> QED BY <2>1, <2>3 DEF Shifted
<1>5. n % 256 = a /\ Shifted(n) = m
  BY <1>2, <1>4
<1>6. m % 256 = b /\ Shifted(m) = l
  BY <1>2, <1>4
<1>7. l % 256 = c /\ Shifted(l) = d
  <2>1. d \in Nat
    BY DEF Octet
  <2> QED BY <1>2, <1>4, <2>1
<1>8. d % 256 = d
  <2>1. d \in Nat /\ d < 256
    BY DEF Octet
  <2> QED BY <2>1
<1>9. CountBytes(n) = <<a, b, c, d>>
  BY <1>5, <1>6, <1>7, <1>8 DEF CountBytes
<1> QED BY <1>1, <1>3, <1>9 DEF Holds

Parts(list) == [i \in DOMAIN list |-> EncodeCommand(list[i])]
Joint(list, k) == Joined(Parts(list), k)

LEMMA PartsAre ==
  ASSUME NEW list \in Seq(Commands)
  PROVE  /\ Parts(list) \in Seq(Seq(Octet)) /\ Len(Parts(list)) = Len(list)
         /\ \A i \in 1 .. Len(list) :
              /\ Parts(list)[i] = EncodeCommand(list[i])
              /\ 9 <= Len(Parts(list)[i]) /\ Len(Parts(list)[i]) <= 29
         /\ EncodeList(list) = CountBytes(Len(list)) \o Joint(list, Len(list))
<1>1. PICK n \in Nat : n = Len(list)
  OBVIOUS
<1>2. \A i \in 1 .. n : list[i] \in Commands
  BY <1>1
<1>3. \A i \in 1 .. n : /\ EncodeCommand(list[i]) \in Seq(Octet)
                        /\ 9 <= Len(EncodeCommand(list[i]))
                        /\ Len(EncodeCommand(list[i])) <= 29
  <2> TAKE i \in 1 .. n
  <2>1. PICK e, t : e = EncodeCommand(list[i]) /\ t = list[i].tag
    OBVIOUS
  <2>2. t \in 1 .. 4 /\ e \in Seq(Octet) /\ Len(e) = RecordLength[t]
    BY <1>2, <2>1, CommandInverse DEF Whole
  <2>3. RecordLength[t] \in 9 .. 29
    BY <2>2, Layouts DEF MinRecord, MaxRecord
  <2>4. 9 <= Len(e) /\ Len(e) <= 29
    <3>1. \A x \in 9 .. 29 : 9 <= x /\ x <= 29
      OBVIOUS
    <3> QED BY <2>2, <2>3, <3>1
  <2> QED BY <2>1, <2>2, <2>4
<1>4. Parts(list) = [i \in 1 .. n |-> EncodeCommand(list[i])]
  BY <1>1 DEF Parts
<1>5. Parts(list) \in Seq(Seq(Octet)) /\ Len(Parts(list)) = n
  BY <1>3, <1>4
<1>6. EncodeList(list) = CountBytes(Len(list)) \o FlattenSeq(Parts(list))
  BY DEF EncodeList, Parts
<1>7. FlattenSeq(Parts(list)) = Joint(list, Len(list))
  BY <1>1, <1>5, FlattenIsJoined DEF Joint
<1> QED BY <1>1, <1>3, <1>4, <1>5, <1>6, <1>7

LEMMA JointIs ==
  ASSUME NEW list \in Seq(Commands)
  PROVE  /\ Joint(list, 0) = <<>>
         /\ \A k \in 0 .. Len(list) :
              /\ Joint(list, k) \in Seq(Octet)
              /\ 9 * k <= Len(Joint(list, k)) /\ Len(Joint(list, k)) <= 29 * k
              /\ \A j \in 0 .. k : Len(Joint(list, j)) <= Len(Joint(list, k))
         /\ \A k \in 1 .. Len(list) :
              Joint(list, k) = Joint(list, k - 1) \o EncodeCommand(list[k])
<1>1. PICK n \in Nat : n = Len(list)
  OBVIOUS
<1>2. PICK parts \in Seq(Seq(Octet)) :
        /\ parts = Parts(list) /\ Len(parts) = n
        /\ \A i \in 1 .. n : /\ parts[i] = EncodeCommand(list[i])
                             /\ 9 <= Len(parts[i]) /\ Len(parts[i]) <= 29
  BY <1>1, PartsAre
<1>3. \A k : Joint(list, k) = Joined(parts, k)
  BY <1>2 DEF Joint
<1>4. /\ Joined(parts, 0) = <<>>
      /\ \A k \in 1 .. n : Joined(parts, k) = Joined(parts, k - 1) \o parts[k]
  BY <1>2, JoinedMoves
<1>5. \A k \in 0 .. n : Joined(parts, k) \in Seq(Octet)
  BY <1>2, JoinedHolds
<1>6. \A k \in 0 .. n :
        /\ Len(Joined(parts, k)) \in k * 9 .. k * 29
        /\ \A j \in 0 .. k : Len(Joined(parts, j)) <= Len(Joined(parts, k))
  <2>1. \A i \in 1 .. Len(parts) : 9 <= Len(parts[i]) /\ Len(parts[i]) <= 29
    BY <1>2
  <2>2. 9 \in Nat /\ 29 \in Nat
    OBVIOUS
  <2>3. \A k \in 0 .. Len(parts) :
          /\ Len(Joined(parts, k)) \in k * 9 .. k * 29
          /\ \A j \in 0 .. k : Len(Joined(parts, j)) <= Len(Joined(parts, k))
    BY <2>1, <2>2, JoinedLength
  <2> QED BY <1>2, <2>3
<1>7. \A k \in 0 .. n : 9 * k <= Len(Joined(parts, k)) /\ Len(Joined(parts, k)) <= 29 * k
  BY <1>5, <1>6
<1> QED BY <1>1, <1>2, <1>3, <1>4, <1>5, <1>6, <1>7

(* What the encoder makes of a list within the limit.                          *)
LEMMA EncodedPayload ==
  ASSUME NEW list \in Seq(Commands), Len(list) <= MaxCommands, NEW p, p = EncodeList(list)
  PROVE  /\ p \in Seq(Octet) /\ CountOf(p) = Len(list)
         /\ Len(p) = 4 + Len(Joint(list, Len(list)))
         /\ 4 + 9 * Len(list) <= Len(p) /\ Len(p) <= MaxBytes
         /\ Holds(p, 4, Joint(list, Len(list)))
<1>1. PICK n \in Nat : n = Len(list)
  OBVIOUS
<1>2. MaxCommands \in Nat /\ n <= MaxCommands /\ FitsU32(n)
  BY <1>1, WithinCount
<1>3. PICK a \in Seq(Octet) : a = CountBytes(n) /\ Len(a) = 4
  BY <1>2, CountWritten
<1>4. PICK j \in Seq(Octet) : /\ j = Joint(list, n) /\ 9 * n <= Len(j) /\ Len(j) <= 29 * n
  BY <1>1, JointIs
<1>5. p = a \o j
  BY <1>1, <1>3, <1>4, PartsAre
<1>6. p \in Seq(Octet) /\ Len(p) = 4 + Len(j)
  <2>1. a \o j \in Seq(Octet)
    OBVIOUS
  <2>2. Len(a \o j) = Len(a) + Len(j)
    OBVIOUS
  <2> QED BY <1>3, <1>5, <2>1, <2>2
<1>7. Holds(p, 0, a) /\ Holds(p, 4, j)
  <2>1. Holds(p, 0, p)
    BY <1>6, HoldsItself
  <2>2. Holds(p, 0, a) /\ Holds(p, 0 + Len(a), j)
    BY <1>5, <2>1, HoldsJoin
  <2>3. 0 + Len(a) = 4
    BY <1>3
  <2> QED BY <2>2, <2>3
<1>8. CountOf(p) = n
  BY <1>2, <1>3, <1>7, CountWritten
<1>9. Len(p) <= MaxBytes
  BY <1>2, <1>4, <1>6 DEF MaxBytes, HeaderSize, MaxRecord
<1> QED BY <1>1, <1>4, <1>6, <1>7, <1>8, <1>9

(* The record that follows the first k of an encoded list.                     *)
LEMMA NextRecord ==
  ASSUME NEW list \in Seq(Commands), Len(list) <= MaxCommands, NEW p, p = EncodeList(list),
         NEW k \in Nat, k < Len(list), NEW c, c = 4 + Len(Joint(list, k)),
         NEW cmd, cmd = list[k + 1]
  PROVE  /\ c \in Nat /\ c < Len(p) /\ p[c + 1] = cmd.tag /\ cmd.tag \in 1 .. 4
         /\ c + RecordLength[cmd.tag] <= Len(p)
         /\ SubSeq(p, c + 1, c + RecordLength[cmd.tag]) = EncodeCommand(cmd)
<1>1. PICK n \in Nat : n = Len(list) /\ k + 1 \in 1 .. n /\ k \in 0 .. n /\ n \in 0 .. n
  OBVIOUS
<1>2. cmd \in Commands
  BY <1>1
<1>3. PICK e, t : e = EncodeCommand(cmd) /\ t = cmd.tag
  OBVIOUS
<1>4. /\ t \in 1 .. 4 /\ e \in Seq(Octet) /\ Len(e) = RecordLength[t] /\ e[1] = t
      /\ RecordLength[t] \in MinRecord .. MaxRecord
  <2>1. t \in 1 .. 4 /\ Whole(e, t)
    BY <1>2, <1>3, CommandInverse
  <2>2. RecordLength[t] \in MinRecord .. MaxRecord
    BY <2>1, Layouts
  <2> QED BY <2>1, <2>2 DEF Whole
<1>5. PICK r \in Nat : r = RecordLength[t] /\ r >= 9
  <2>1. RecordLength[t] \in 9 .. 29
    BY <1>4 DEF MinRecord, MaxRecord
  <2>2. \A x \in 9 .. 29 : x \in Nat /\ x >= 9
    OBVIOUS
  <2> QED BY <2>1, <2>2
<1>6. PICK a \in Seq(Octet) : a = Joint(list, k)
  BY <1>1, JointIs
<1>7. Joint(list, k + 1) = a \o e
  <2>1. (k + 1) - 1 = k
    OBVIOUS
  <2> QED BY <1>1, <1>2, <1>3, <1>6, <2>1, JointIs
<1>8. Len(a \o e) = Len(a) + r
  <2>1. e \in Seq(Octet)
    BY <1>4
  <2>2. Len(a \o e) = Len(a) + Len(e)
    BY <2>1
  <2> QED BY <1>4, <1>5, <2>2
<1>9. c + r <= Len(p) /\ c \in Nat /\ c = 4 + Len(a)
  <2>1. Len(Joint(list, k + 1)) <= Len(Joint(list, n))
    <3>1. k + 1 \in 0 .. n
      BY <1>1
    <3> QED BY <1>1, <3>1, JointIs
  <2>2. Len(p) = 4 + Len(Joint(list, n))
    BY <1>1, EncodedPayload
  <2>3. PICK x \in Nat, y \in Nat : x = Len(a) /\ y = Len(Joint(list, n))
    <3>1. Joint(list, n) \in Seq(Octet)
      BY <1>1, JointIs
    <3>2. Len(Joint(list, n)) \in Nat /\ Len(a) \in Nat
      BY <3>1
    <3> QED BY <3>2
  <2> QED BY <1>6, <1>7, <1>8, <2>1, <2>2, <2>3
<1>10. Holds(p, c, e)
  <2>1. PICK parts \in Seq(Seq(Octet)) :
          parts = Parts(list) /\ Len(parts) = n /\ parts[k + 1] = e
    BY <1>1, <1>2, <1>3, PartsAre
  <2>2. Holds(p, 4, Joined(parts, n))
    BY <1>1, <2>1, EncodedPayload DEF Joint
  <2>3. Holds(p, 4 + Len(Joined(parts, (k + 1) - 1)), parts[k + 1])
    BY <1>1, <2>1, <2>2, JoinedHolds
  <2>4. (k + 1) - 1 = k
    OBVIOUS
  <2> QED BY <2>1, <2>3, <2>4 DEF Joint
<1>11. p[c + 1] = t
  <2>1. 1 \in 1 .. Len(e)
    BY <1>4, <1>5
  <2> QED BY <1>4, <1>10, <2>1 DEF Holds
<1>12. SubSeq(p, c + 1, c + r) = e
  <2>1. p \in Seq(Octet)
    BY EncodedPayload
  <2>2. e \in Seq(Octet) /\ Len(e) = r /\ c \in Nat /\ c + Len(e) <= Len(p)
    BY <1>4, <1>5, <1>9
  <2>3. SubSeq(p, c + 1, c + Len(e)) = e
    BY <1>10, <2>1, <2>2, SliceHolds
  <2> QED BY <2>2, <2>3
<1>13. c < Len(p)
  <2>1. Len(p) \in Nat
    <3>1. p \in Seq(Octet)
      BY EncodedPayload
    <3> QED BY <3>1
  <2> QED BY <1>5, <1>9, <2>1
<1> QED BY <1>2, <1>3, <1>4, <1>5, <1>9, <1>11, <1>12, <1>13

(* A payload that consists of the count and of these records encodes the list. *)
LEMMA ReadPayload ==
  ASSUME NEW list \in Seq(Commands), NEW p \in Seq(Octet), Len(list) = CountOf(p),
         Len(p) = 4 + Len(Joint(list, Len(list))), Holds(p, 4, Joint(list, Len(list))),
         CountOf(p) <= MaxCommands
  PROVE  EncodeList(list) = p
<1>1. PICK n \in Nat : n = Len(list) /\ n \in 0 .. n
  OBVIOUS
<1>2. PICK j \in Seq(Octet) : j = Joint(list, n)
  BY <1>1, JointIs
<1>3. Len(p) >= 4 /\ Len(p) = 4 + Len(j)
  BY <1>1, <1>2
<1>4. FitsU32(n)
  BY <1>1, WithinCount
<1>5. PICK a \in Seq(Octet) : a = CountBytes(n) /\ Len(a) = 4
  BY <1>4, CountWritten
<1>6. Holds(p, 0, a)
  BY <1>1, <1>3, <1>5, CountRead
<1>7. Holds(p, 0, a \o j)
  <2>1. 0 + Len(a) = 4 /\ 0 \in Nat
    BY <1>5
  <2>2. Holds(p, 4, j)
    BY <1>1, <1>2
  <2> QED BY <1>6, <2>1, <2>2, HoldsJoin
<1>8. a \o j \in Seq(Octet) /\ Len(a \o j) = Len(p)
  <2>1. a \o j \in Seq(Octet)
    OBVIOUS
  <2>2. Len(a \o j) = Len(a) + Len(j)
    OBVIOUS
  <2> QED BY <1>3, <1>5, <2>1, <2>2
<1>9. p = a \o j
  BY <1>7, <1>8, HoldsWhole
<1> QED BY <1>1, <1>2, <1>5, <1>9, PartsAre

(* Lists that begin alike.                                                     *)
LEMMA JointPrefix ==
  ASSUME NEW list \in Seq(Commands), NEW other \in Seq(Commands), NEW n \in Nat,
         n <= Len(list), n <= Len(other), \A i \in 1 .. n : list[i] = other[i]
  PROVE  Joint(list, n) = Joint(other, n)
<1>1. PICK a \in Seq(Seq(Octet)) :
        /\ a = Parts(list) /\ n <= Len(a) /\ \A i \in 1 .. n : a[i] = EncodeCommand(list[i])
  <2>1. /\ Parts(list) \in Seq(Seq(Octet)) /\ Len(Parts(list)) = Len(list)
        /\ \A i \in 1 .. Len(list) : Parts(list)[i] = EncodeCommand(list[i])
    BY PartsAre
  <2>2. PICK p : p = Parts(list)
    OBVIOUS
  <2> QED BY <2>1, <2>2
<1>2. PICK b \in Seq(Seq(Octet)) :
        /\ b = Parts(other) /\ n <= Len(b) /\ \A i \in 1 .. n : b[i] = EncodeCommand(other[i])
  <2>1. /\ Parts(other) \in Seq(Seq(Octet)) /\ Len(Parts(other)) = Len(other)
        /\ \A i \in 1 .. Len(other) : Parts(other)[i] = EncodeCommand(other[i])
    BY PartsAre
  <2>2. PICK p : p = Parts(other)
    OBVIOUS
  <2> QED BY <2>1, <2>2
<1>3. ASSUME NEW i \in 1 .. n PROVE a[i] = b[i]
  <2>1. list[i] = other[i]
    OBVIOUS
  <2>2. a[i] = EncodeCommand(list[i]) /\ b[i] = EncodeCommand(other[i])
    BY <1>1, <1>2
  <2> QED BY <2>1, <2>2, Zenon
<1>4. Joined(a, n) = Joined(b, n)
  BY <1>1, <1>2, <1>3, JoinedPrefix
<1> QED BY <1>1, <1>2, <1>4 DEF Joint

(* Another record.                                                             *)
LEMMA JointAppend ==
  ASSUME NEW list \in Seq(Commands), NEW cmd \in Commands, NEW n, n = Len(list)
  PROVE  /\ Append(list, cmd) \in Seq(Commands) /\ Len(Append(list, cmd)) = n + 1
         /\ Joint(Append(list, cmd), n + 1) = Joint(list, n) \o EncodeCommand(cmd)
<1>1. PICK longer \in Seq(Commands) :
        /\ longer = Append(list, cmd) /\ Len(longer) = n + 1 /\ longer[n + 1] = cmd
        /\ \A i \in 1 .. n : longer[i] = list[i]
  <2>1. PICK longer : longer = Append(list, cmd)
    OBVIOUS
  <2>2. longer \in Seq(Commands) /\ Len(longer) = n + 1
    BY <2>1
  <2>3. longer[n + 1] = cmd /\ \A i \in 1 .. n : longer[i] = list[i]
    BY <2>1
  <2> QED BY <2>1, <2>2, <2>3
<1>2. n \in Nat /\ n + 1 \in 1 .. n + 1 /\ (n + 1) - 1 = n
  OBVIOUS
<1>3. Joint(longer, n + 1) = Joint(longer, n) \o EncodeCommand(cmd)
  BY <1>1, <1>2, JointIs
<1>4. Joint(longer, n) = Joint(list, n)
  <2>1. n <= Len(longer) /\ n <= Len(list)
    BY <1>1, <1>2
  <2> QED BY <1>1, <1>2, <2>1, JointPrefix
<1> QED BY <1>1, <1>3, <1>4

--------------------------------------------------------------------------------
(* The decoder.                                                                *)

(* The bytes that the window names encode this list.                           *)
Sent(list) ==
  /\ list \in Lists /\ Len(list) <= MaxCommands
  /\ Offset + Length <= Len(snapshot) /\ Named = EncodeList(list)

(* What has been read of the payload are its first records, and if it encodes  *)
(* a list, these are the first commands of the list.                           *)
RecordsRead ==
  /\ Len(payload) >= 4 /\ count = CountOf(payload) /\ count \in Nat /\ count <= MaxCommands
  /\ cmds \in Seq(Commands) /\ Len(cmds) <= count
  /\ cursor = 4 + Len(Joint(cmds, Len(cmds))) /\ cursor <= Len(payload)
  /\ Holds(payload, 4, Joint(cmds, Len(cmds)))
  /\ \A list : Sent(list) => count = Len(list) /\ \A i \in 1 .. Len(cmds) : cmds[i] = list[i]

WireInv ==
  /\ snapshot \in Seq(Octet) /\ Len(snapshot) <= MaxU64
  /\ Offset \in Nat /\ Length \in Nat
  /\ pc \in {"idle", "window", "header"} => cmds = <<>>
  /\ pc \in {"header", "records"} =>
       /\ payload = Named /\ payload \in Seq(Octet) /\ Len(payload) = Length
       /\ Offset + Length <= Len(snapshot)
  /\ pc = "records" => RecordsRead
  /\ DecodesExactly

LEMMA WireStart == Init => WireInv
  BY WireAssumption DEF Init, WireInv, DecodesExactly, Offset, Length

(* A window of the snapshot.                                                   *)
LEMMA NamedIs ==
  ASSUME WireInv, Offset + Length <= Len(snapshot)
  PROVE  Named \in Seq(Octet) /\ Len(Named) = Length
<1>1. PICK o \in Nat, l \in Nat : o = Offset /\ l = Length
  BY DEF WireInv
<1>2. PICK f \in Seq(Octet) : f = snapshot
  BY DEF WireInv
<1>3. Named = SubSeq(f, o + 1, o + l)
  BY <1>1, <1>2 DEF Named
<1>4. o + l <= Len(f) /\ Len(f) \in Nat
  BY <1>1, <1>2
<1>5. SubSeq(f, o + 1, o + l) \in Seq(Octet) /\ Len(SubSeq(f, o + 1, o + l)) = l
  <2>1. o + 1 \in 1 .. Len(f) + 1 /\ o + l \in 0 .. Len(f) /\ (o + l) - (o + 1) + 1 = l
    BY <1>4
  <2> QED BY <1>4, <2>1
<1> QED BY <1>1, <1>3, <1>5

LEMMA SentIs ==
  ASSUME WireInv, NEW list, Sent(list)
  PROVE  /\ list \in Seq(Commands) /\ Len(list) \in Nat
         /\ CountOf(Named) = Len(list) /\ 4 + 9 * Len(list) <= Length /\ Length <= MaxBytes
<1>1. list \in Seq(Commands) /\ Len(list) <= MaxCommands /\ Named = EncodeList(list)
  BY WireAssumption DEF Sent
<1>2. /\ CountOf(Named) = Len(list) /\ 4 + 9 * Len(list) <= Len(Named)
      /\ Len(Named) <= MaxBytes
  BY <1>1, EncodedPayload
<1>3. Len(Named) = Length
  BY NamedIs DEF Sent
<1> QED BY <1>1, <1>2, <1>3

(* A refusal is right if no list was sent.                                     *)
LEMMA RefuseKeeps ==
  ASSUME WireInv, NEW error, error # "ok", Refuse(error), \A list : ~Sent(list)
  PROVE  WireInv'
<1>1. /\ pc' = "done" /\ result' = error /\ snapshot' = snapshot /\ window' = window
  BY DEF Refuse
<1>2. Named' = Named /\ Offset' = Offset /\ Length' = Length
  BY <1>1 DEF Named, Offset, Length
<1>3. ASSUME NEW e \in Encodings
      PROVE  ~(/\ Len(e[1]) <= MaxCommands
               /\ Offset + Length <= Len(snapshot) /\ Named = e[2])
  <2>1. PICK list \in Lists : e = <<list, EncodeList(list)>>
    BY DEF Encodings
  <2>2. e[1] = list /\ e[2] = EncodeList(list)
    BY <2>1
  <2> QED BY <2>2 DEF Sent
<1>4. Encodings' = Encodings
  BY DEF Encodings
<1>5. DecodesExactly'
  BY <1>1, <1>2, <1>3 DEF DecodesExactly, Encodings
<1> QED BY <1>1, <1>2, <1>5 DEF WireInv

LEMMA HeaderRefusals ==
  ASSUME WireInv, pc = "header", NEW list, Sent(list)
  PROVE  /\ Len(payload) >= HeaderSize /\ PayloadCount = Len(list)
         /\ PayloadCount <= MaxCommands /\ ~Unbacked(PayloadCount)
<1>1. payload = Named /\ Len(payload) = Length
  BY DEF WireInv
<1>2. PICK n \in Nat : n = Len(list)
  BY SentIs
<1>3. CountOf(payload) = n /\ 4 + 9 * n <= Len(payload) /\ n <= MaxCommands
  BY <1>1, <1>2, SentIs DEF Sent
<1>4. PayloadCount = n
  BY <1>3 DEF PayloadCount, CountOf
<1>5. PICK m \in Nat : m = Len(payload)
  BY <1>1 DEF WireInv
<1>6. ~(n > (m - 4) \div 9)
  BY <1>3, <1>5
<1> QED BY <1>2, <1>3, <1>4, <1>5, <1>6 DEF Unbacked, HeaderSize, MinRecord

(* The record under the cursor of a payload that encodes a list.               *)
LEMMA RecordUnderCursor ==
  ASSUME WireInv, pc = "records", Len(cmds) < count, NEW list, Sent(list)
  PROVE  /\ WholeRecord
         /\ DecodeCommand(SubSeq(payload, cursor + 1, cursor + RecordLength[TagAt(cursor)]))
              = list[Len(cmds) + 1]
<1>1. /\ payload = Named /\ payload \in Seq(Octet) /\ count = Len(list)
      /\ cmds \in Seq(Commands) /\ cursor = 4 + Len(Joint(cmds, Len(cmds)))
      /\ \A i \in 1 .. Len(cmds) : cmds[i] = list[i]
  BY DEF WireInv, RecordsRead
<1>2. list \in Seq(Commands) /\ Len(list) <= MaxCommands /\ payload = EncodeList(list)
  BY <1>1, SentIs DEF Sent
<1>3. PICK k \in Nat : k = Len(cmds) /\ k < Len(list)
  BY <1>1
<1>4. Joint(cmds, k) = Joint(list, k)
  <2>1. k <= Len(cmds) /\ k <= Len(list)
    BY <1>2, <1>3
  <2> QED BY <1>1, <1>2, <1>3, <2>1, JointPrefix
<1>5. cursor = 4 + Len(Joint(list, k))
  BY <1>1, <1>3, <1>4
<1>6. PICK cmd : cmd = list[k + 1]
  OBVIOUS
<1>7. /\ cursor < Len(payload) /\ payload[cursor + 1] = cmd.tag /\ cmd.tag \in 1 .. 4
      /\ cursor + RecordLength[cmd.tag] <= Len(payload)
      /\ SubSeq(payload, cursor + 1, cursor + RecordLength[cmd.tag]) = EncodeCommand(cmd)
  <2>1. PICK p, c : p = payload /\ c = cursor
    OBVIOUS
  <2>2. p = EncodeList(list) /\ c = 4 + Len(Joint(list, k))
    BY <1>2, <1>5, <2>1
  <2>3. list \in Seq(Commands) /\ Len(list) <= MaxCommands /\ k < Len(list)
    BY <1>2, <1>3
  <2>4. /\ c \in Nat /\ c < Len(p) /\ p[c + 1] = cmd.tag /\ cmd.tag \in 1 .. 4
        /\ c + RecordLength[cmd.tag] <= Len(p)
        /\ SubSeq(p, c + 1, c + RecordLength[cmd.tag]) = EncodeCommand(cmd)
    BY <1>6, <2>2, <2>3, NextRecord
  <2> QED BY <2>1, <2>4
<1>8. cmd \in Commands
  BY <1>2, <1>3, <1>6
<1>9. DecodeCommand(EncodeCommand(cmd)) = cmd
  BY <1>8, CommandInverse
<1>10. DOMAIN Widths = 1 .. 4
  BY Layouts
<1> QED BY <1>3, <1>6, <1>7, <1>9, <1>10 DEF WholeRecord, TagAt

(* Reading a record keeps what is known of the ones before it.                 *)
LEMMA RecordKeeps ==
  ASSUME WireInv, Record
  PROVE  WireInv'
<1>1. /\ pc = "records" /\ Len(cmds) < count /\ WholeRecord
      /\ UNCHANGED <<snapshot, window, pc, payload, count, result>>
  BY DEF Record
<1>2. RecordsRead /\ payload = Named /\ payload \in Seq(Octet)
  BY <1>1 DEF WireInv
<1>3. PICK t, r : t = TagAt(cursor) /\ r = RecordLength[t]
  OBVIOUS
<1>4. PICK n \in Nat : n = Len(cmds) /\ cmds \in Seq(Commands) /\ n < count /\ count \in Nat
  BY <1>1, <1>2 DEF RecordsRead
<1>5. PICK c \in Nat, j \in Seq(Octet) :
        /\ c = cursor /\ j = Joint(cmds, n) /\ c = 4 + Len(j) /\ Holds(payload, 4, j)
  <2>1. n \in 0 .. Len(cmds)
    BY <1>4
  <2>2. Joint(cmds, n) \in Seq(Octet)
    BY <1>4, <2>1, JointIs
  <2> QED BY <1>2, <1>4, <2>2 DEF RecordsRead
<1>6. t \in 1 .. 4 /\ r \in Nat /\ c + r <= Len(payload) /\ payload[c + 1] = t /\ r >= 9
  <2>1. t \in 1 .. 4 /\ c + r <= Len(payload) /\ payload[c + 1] = t
    BY <1>1, <1>3, <1>5, Layouts DEF WholeRecord, TagAt
  <2>2. r \in 9 .. 29
    BY <1>3, <2>1, Layouts DEF MinRecord, MaxRecord
  <2> QED BY <2>1, <2>2
<1>7. PICK record : record = SubSeq(payload, c + 1, c + r)
  OBVIOUS
<1>8. record \in Seq(Octet) /\ Len(record) = r /\ record[1] = payload[c + 1]
  <2>1. Len(payload) \in Nat
    BY <1>2
  <2>2. c + 1 \in 1 .. Len(payload) + 1 /\ c + r \in 0 .. Len(payload) /\ (c + r) - (c + 1) + 1 = r
    BY <1>6, <2>1
  <2> QED BY <1>2, <1>6, <1>7, <2>1, <2>2
<1>9. Whole(record, t)
  BY <1>3, <1>6, <1>8 DEF Whole
<1>10. PICK cmd \in Commands : cmd = DecodeCommand(record) /\ EncodeCommand(cmd) = record
  BY <1>9, RecordInverse
<1>11. cmds' = Append(cmds, cmd) /\ cursor' = c + r
  BY <1>3, <1>5, <1>7, <1>10 DEF Record
<1>12. /\ cmds' \in Seq(Commands) /\ Len(cmds') = n + 1
       /\ Joint(cmds', n + 1) = j \o record
  <2>1. PICK list \in Seq(Commands) : list = cmds /\ n = Len(list)
    BY <1>4
  <2>2. /\ Append(list, cmd) \in Seq(Commands) /\ Len(Append(list, cmd)) = n + 1
        /\ Joint(Append(list, cmd), n + 1) = Joint(list, n) \o EncodeCommand(cmd)
    BY <2>1, JointAppend
  <2> QED BY <1>5, <1>10, <1>11, <2>1, <2>2
<1>13. Len(j \o record) = Len(j) + r
  BY <1>8
<1>14. Holds(payload, 4, j \o record)
  <2>1. Holds(payload, c, record)
    <3>1. c + Len(record) <= Len(payload)
      BY <1>6, <1>8
    <3> QED BY <1>2, <1>7, <1>8, <3>1, SliceHolds
  <2>2. 4 + Len(j) = c /\ 4 \in Nat
    BY <1>5
  <2> QED BY <1>5, <1>8, <2>1, <2>2, HoldsJoin
<1>15. ASSUME NEW list, Sent(list)'
       PROVE  count = Len(list) /\ \A i \in 1 .. n + 1 : cmds'[i] = list[i]
  <2>1. Sent(list)
    BY <1>1, <1>15 DEF Sent, Named, Offset, Length
  <2>2. count = Len(list) /\ \A i \in 1 .. n : cmds[i] = list[i]
    BY <1>2, <1>4, <2>1 DEF RecordsRead
  <2>3. cmd = list[n + 1]
    BY <1>1, <1>3, <1>4, <1>5, <1>7, <1>10, <2>1, RecordUnderCursor
  <2>4. cmds'[n + 1] = cmd /\ \A i \in 1 .. n : cmds'[i] = cmds[i]
    BY <1>4, <1>11
  <2>5. \A i \in 1 .. n + 1 : i \in 1 .. n \/ i = n + 1
    BY <1>4
  <2> QED BY <2>2, <2>3, <2>4, <2>5
<1>16. RecordsRead'
  <2>1. Len(payload) >= 4 /\ count = CountOf(payload) /\ count <= MaxCommands
    BY <1>2 DEF RecordsRead
  <2>2. Len(cmds') <= count
    BY <1>4, <1>12
  <2>3. cursor' = 4 + Len(j \o record) /\ cursor' <= Len(payload)
    <3>1. Len(j) \in Nat
      OBVIOUS
    <3> QED BY <1>5, <1>6, <1>11, <1>13, <3>1
  <2> QED BY <1>1, <1>4, <1>12, <1>14, <1>15, <2>1, <2>2, <2>3 DEF RecordsRead
<1>17. Named' = Named /\ Offset' = Offset /\ Length' = Length
  BY <1>1 DEF Named, Offset, Length
<1>18. pc' # "done"
  BY <1>1
<1> QED BY <1>1, <1>16, <1>17, <1>18 DEF WireInv, DecodesExactly

(* The list is accepted when its payload is used up.                           *)
LEMMA AcceptKeeps ==
  ASSUME WireInv, Accept
  PROVE  WireInv'
<1>1. /\ pc = "records" /\ Len(cmds) = count /\ cursor = Len(payload)
      /\ pc' = "done" /\ result' = "ok"
      /\ UNCHANGED <<snapshot, window, payload, count, cursor, cmds>>
  BY DEF Accept
<1>2. /\ RecordsRead /\ payload = Named /\ payload \in Seq(Octet)
      /\ Offset + Length <= Len(snapshot)
  BY <1>1 DEF WireInv
<1>3. EncodeList(cmds) = Named
  BY <1>1, <1>2, ReadPayload DEF RecordsRead
<1>4. ASSUME NEW list, Sent(list) PROVE cmds = list
  <2>1. count = Len(list) /\ \A i \in 1 .. Len(cmds) : cmds[i] = list[i]
    BY <1>2, <1>4 DEF RecordsRead
  <2>2. cmds \in Seq(Commands) /\ list \in Seq(Commands)
    BY <1>2, <1>4, SentIs DEF RecordsRead
  <2> QED BY <1>1, <2>1, <2>2
<1>5. ASSUME NEW e \in Encodings, Len(e[1]) <= MaxCommands, Named = e[2]
      PROVE  cmds = e[1]
  <2>1. PICK list \in Lists : e = <<list, EncodeList(list)>>
    BY DEF Encodings
  <2>2. e[1] = list /\ e[2] = EncodeList(list)
    BY <2>1
  <2> QED BY <1>2, <1>4, <1>5, <2>2 DEF Sent
<1>6. Named' = Named /\ Offset' = Offset /\ Length' = Length
  BY <1>1 DEF Named, Offset, Length
<1>7. EncodeList(cmds)' = EncodeList(cmds)
  BY <1>1
<1>8. DecodesExactly'
  BY <1>1, <1>2, <1>3, <1>5, <1>6 DEF DecodesExactly, Encodings
<1> QED BY <1>1, <1>6, <1>8 DEF WireInv

LEMMA WireStep == WireInv /\ [Next]_vars => WireInv'
<1> SUFFICES ASSUME WireInv, [Next]_vars PROVE WireInv'
  OBVIOUS
<1>1. ASSUME NEW bytes \in Snapshots, NEW range \in Windows, DecodeWindow(bytes, range),
             pc = "idle"
      PROVE  WireInv'
  <2>1. bytes \in Seq(Octet) /\ Len(bytes) <= MaxU64 /\ range[1] \in Nat /\ range[2] \in Nat
    BY WireAssumption
  <2> QED BY <1>1, <2>1 DEF DecodeWindow, WireInv, DecodesExactly, Offset, Length
<1>2. CASE WindowTooLong
  <2>1. \A list : ~Sent(list)
    <3> SUFFICES ASSUME NEW list, Sent(list) PROVE FALSE
      OBVIOUS
    <3>1. Length <= MaxBytes /\ Length > MaxBytes /\ Length \in Nat
      BY <1>2, SentIs DEF WindowTooLong, WireInv
    <3>2. MaxBytes \in Nat
      BY WireAssumption DEF MaxBytes, HeaderSize, MaxRecord
    <3> QED BY <3>1, <3>2
  <2> QED BY <1>2, <2>1, RefuseKeeps DEF WindowTooLong
<1>3. CASE WindowOutside
  <2>1. \A list : ~Sent(list)
    <3> SUFFICES ASSUME NEW list, Sent(list) PROVE FALSE
      OBVIOUS
    <3>1. PICK k \in Nat, l \in Nat, m \in Nat :
            k = Offset + Length /\ l = Len(snapshot) /\ m = MaxU64
      <4>1. snapshot \in Seq(Octet) /\ Offset \in Nat /\ Length \in Nat
        BY DEF WireInv
      <4>2. Len(snapshot) \in Nat
        BY <4>1
      <4>3. Offset + Length \in Nat /\ MaxU64 \in Nat
        BY <4>1, WireAssumption
      <4> QED BY <4>2, <4>3
    <3>2. k <= l /\ l <= m /\ (k > m \/ k > l)
      BY <1>3, <3>1 DEF Sent, WindowOutside, WireInv
    <3> QED BY <3>1, <3>2
  <2> QED BY <1>3, <2>1, RefuseKeeps DEF WindowOutside
<1>4. CASE Slice
  <2>1. /\ payload' = Named /\ Offset + Length <= Len(snapshot)
        /\ pc' = "header" /\ pc = "window" /\ UNCHANGED <<snapshot, window, cmds>>
    BY <1>4 DEF Slice, Named
  <2>2. Named \in Seq(Octet) /\ Len(Named) = Length
    BY <2>1, NamedIs
  <2>3. Named' = Named /\ Offset' = Offset /\ Length' = Length
    BY <2>1 DEF Named, Offset, Length
  <2> QED BY <2>1, <2>2, <2>3 DEF WireInv, DecodesExactly
<1>5. CASE NoHeader
  <2>1. \A list : ~Sent(list)
    BY <1>5, HeaderRefusals DEF NoHeader, HeaderSize, WireInv
  <2> QED BY <1>5, <2>1, RefuseKeeps DEF NoHeader
<1>6. CASE TooMany
  <2>1. \A list : ~Sent(list)
    BY <1>6, HeaderRefusals, WireAssumption, SentIs DEF TooMany
  <2> QED BY <1>6, <2>1, RefuseKeeps DEF TooMany
<1>7. CASE CountUnbacked
  <2>1. \A list : ~Sent(list)
    BY <1>7, HeaderRefusals DEF CountUnbacked
  <2> QED BY <1>7, <2>1, RefuseKeeps DEF CountUnbacked
<1>8. CASE Reserve
  <2>1. /\ pc = "header" /\ Len(payload) >= 4 /\ PayloadCount <= MaxCommands
        /\ count' = PayloadCount /\ cursor' = 4 /\ pc' = "records"
        /\ UNCHANGED <<snapshot, window, payload, cmds>>
    BY <1>8 DEF Reserve, HeaderSize
  <2>2. /\ cmds = <<>> /\ payload = Named /\ payload \in Seq(Octet) /\ Len(payload) = Length
        /\ Offset + Length <= Len(snapshot)
    BY <2>1 DEF WireInv
  <2>3. PayloadCount = CountOf(payload) /\ CountOf(payload) \in Nat
    BY <2>1, <2>2, CountRead DEF PayloadCount, CountOf
  <2>4. <<>> \in Seq(Commands) /\ Len(<<>>) = 0
    OBVIOUS
  <2>5. Joint(<<>>, 0) = <<>>
    BY <2>4, JointIs
  <2>6. Holds(payload, 4, <<>>)
    BY <2>4 DEF Holds
  <2>7. ASSUME NEW list, Sent(list)' PROVE PayloadCount = Len(list)
    <3>1. Sent(list)
      BY <2>1, <2>7 DEF Sent, Named, Offset, Length
    <3> QED BY <2>1, <3>1, HeaderRefusals
  <2>8. RecordsRead'
    BY <2>1, <2>2, <2>3, <2>4, <2>5, <2>6, <2>7 DEF RecordsRead
  <2>9. Named' = Named /\ Offset' = Offset /\ Length' = Length
    BY <2>1 DEF Named, Offset, Length
  <2> QED BY <2>1, <2>2, <2>8, <2>9 DEF WireInv, DecodesExactly
<1>9. CASE Record
  BY <1>9, RecordKeeps
<1>10. CASE BadRecord
  <2>1. \A list : ~Sent(list)
    BY <1>10, RecordUnderCursor DEF BadRecord
  <2> QED BY <1>10, <2>1, RefuseKeeps DEF BadRecord
<1>11. CASE TrailingBytes
  <2>1. \A list : ~Sent(list)
    <3> SUFFICES ASSUME NEW list, Sent(list) PROVE FALSE
      OBVIOUS
    <3>1. /\ cmds \in Seq(Commands) /\ Len(cmds) = Len(list) /\ cursor # Len(payload)
          /\ cursor = 4 + Len(Joint(cmds, Len(cmds))) /\ payload = Named
          /\ \A i \in 1 .. Len(cmds) : cmds[i] = list[i]
      BY <1>11 DEF TrailingBytes, WireInv, RecordsRead
    <3>2. list \in Seq(Commands) /\ Len(list) <= MaxCommands /\ payload = EncodeList(list)
      BY <3>1, SentIs DEF Sent
    <3>3. cmds = list
      BY <3>1, <3>2
    <3>4. Len(payload) = 4 + Len(Joint(list, Len(list)))
      BY <3>2, EncodedPayload
    <3> QED BY <3>1, <3>3, <3>4
  <2> QED BY <1>11, <2>1, RefuseKeeps DEF TrailingBytes
<1>12. CASE Accept
  BY <1>12, AcceptKeeps
<1>13. CASE Return
  <2>1. Len(<<>>) = 0 /\ <<>> \in Seq(Octet) /\ MaxU64 \in Nat
    BY WireAssumption
  <2> QED BY <1>13, <2>1 DEF Return, WireInv, DecodesExactly, Offset, Length
<1>14. CASE UNCHANGED vars
  <2>1. \A list : Sent(list)' <=> Sent(list)
    BY <1>14 DEF vars, Sent, Named, Offset, Length
  <2>2. RecordsRead' <=> RecordsRead
    BY <1>14, <2>1 DEF vars, RecordsRead
  <2>3. DecodesExactly' <=> DecodesExactly
    BY <1>14 DEF vars, DecodesExactly, Encodings, Named, Offset, Length
  <2> QED BY <1>14, <2>2, <2>3 DEF vars, WireInv, Named, Offset, Length
<1> QED BY <1>1, <1>2, <1>3, <1>4, <1>5, <1>6, <1>7, <1>8, <1>9, <1>10, <1>11, <1>12, <1>13, <1>14
        DEF Next

(* SgpuCommandList::decode_window gives back exactly what was encoded, for     *)
(* lists of any length up to the limit, and accepts nothing else: an accepted  *)
(* payload is the one encoding of its commands.                                *)
THEOREM PayloadsAreLists == Spec => []DecodesExactly
<1>1. WireInv => DecodesExactly
  BY DEF WireInv
<1> QED BY <1>1, WireStart, WireStep, PTL DEF Spec

--------------------------------------------------------------------------------
(* What is reported of guest Metal.                                            *)

LEMMA RangeJoin ==
  ASSUME NEW S, NEW a \in Seq(S), NEW b \in Seq(S)
  PROVE  /\ a \o b \in Seq(S)
         /\ Range(a \o b) = Range(a) \cup Range(b)
<1>1. PICK m \in Nat, n \in Nat : m = Len(a) /\ n = Len(b)
  OBVIOUS
<1>2. a \o b \in Seq(S)
  OBVIOUS
<1>3. Len(a \o b) = m + n
  BY <1>1
<1>4. DOMAIN a = 1 .. m /\ DOMAIN b = 1 .. n /\ DOMAIN (a \o b) = 1 .. m + n
  BY <1>1, <1>2, <1>3
<1>5. ASSUME NEW i \in 1 .. m PROVE i \in 1 .. m + n /\ (a \o b)[i] = a[i]
  BY <1>1, <1>5
<1>6. ASSUME NEW i \in 1 .. n PROVE m + i \in 1 .. m + n /\ (a \o b)[m + i] = b[i]
  BY <1>1, <1>6
<1>7. ASSUME NEW k \in 1 .. m + n PROVE (a \o b)[k] \in Range(a) \cup Range(b)
  <2>1. CASE k <= m
    BY <1>1, <1>4, <1>5, <2>1 DEF Range
  <2>2. CASE k > m
    <3>1. k - m \in 1 .. n /\ m + (k - m) = k
      BY <1>1, <2>2
    <3> QED BY <1>4, <1>6, <3>1 DEF Range
  <2> QED BY <1>1, <2>1, <2>2
<1>8. Range(a) \cup Range(b) \subseteq Range(a \o b)
  BY <1>4, <1>5, <1>6 DEF Range
<1>9. Range(a \o b) \subseteq Range(a) \cup Range(b)
  BY <1>4, <1>7 DEF Range
<1> QED BY <1>2, <1>8, <1>9

LEMMA RangeOne ==
  ASSUME NEW x PROVE Range(<<x>>) = {x} /\ <<x>> # <<>> /\ Range(<<>>) = {}
<1>1. DOMAIN <<x>> = {1} /\ <<x>>[1] = x
  OBVIOUS
<1>2. Len(<<x>>) = 1 /\ Len(<<>>) = 0
  OBVIOUS
<1>3. DOMAIN <<>> = {}
  OBVIOUS
<1> QED BY <1>1, <1>2, <1>3 DEF Range

If(code, applies) == IF applies THEN <<code>> ELSE <<>>

(* The codes of all answers.                                                   *)
Codes == {"absent", "fixture", "live", "enumeration", "resources", "queue", "fences",
          "cannotVerify", "guest-runtime-unavailable", "virtual-device-no-metal",
          "acceptance-unmet", "enumeration-not-advertised", "capability-unsupported",
          "no-metal-device", "pass-forbidden-without-guest-device"}

LEMMA CodeList ==
  ASSUME NEW x \in Codes PROVE <<x>> \in Seq(Codes) /\ <<>> \in Seq(Codes)
<1> HIDE DEF Codes
<1> QED OBVIOUS

(* What the report of a transcript has to name.                                *)
Missed(t) ==
  LET unable == t.from # "live" /\ t.body = Gates
  IN (Gates \ t.body) \cup ({t.from} \ {"live"})
       \cup (IF unable THEN {"cannotVerify"} ELSE {})

(* A report names what is missing, and nothing else.                           *)
LEMMA MissingAreNamed ==
  ASSUME NEW t \in Transcripts
  PROVE  Range(FailCodes(t)) = Missed(t)
<1> DEFINE Missing(gate) == If(gate, gate \notin Met(t))
           a == If(t.from, ~MayPromote(t))
           b == Missing("enumeration")
           c == Missing("resources")
           d == Missing("queue")
           e == Missing("fences")
           f == If("cannotVerify", Complete(t) /\ ~MayPromote(t))
           codes == a \o b \o c \o d \o e \o f
<1>1. FailCodes(t) = IF Verified(t) THEN <<>>
                     ELSE IF codes = <<>> THEN <<"acceptanceUnmet">> ELSE codes
  BY DEF FailCodes, If
<1>2. /\ a \in Seq(Codes) /\ b \in Seq(Codes) /\ c \in Seq(Codes) /\ d \in Seq(Codes)
      /\ e \in Seq(Codes) /\ f \in Seq(Codes)
  <2>1. t.from \in Codes /\ \A g \in Gates \cup {"cannotVerify"} : g \in Codes
    BY DEF Transcripts, Provenance, Codes, Gates
  <2>2. \A x \in Codes, applies \in BOOLEAN : If(x, applies) \in Seq(Codes)
    BY CodeList DEF If
  <2> QED BY <2>1, <2>2 DEF Gates
<1>3. \A x, applies : Range(If(x, applies)) = IF applies THEN {x} ELSE {}
  BY RangeOne DEF If
<1>4. Range(a) = {t.from} \ {"live"}
  BY <1>3 DEF MayPromote
<1>5. Range(b) \cup Range(c) \cup Range(d) \cup Range(e) = Gates \ t.body
  <2>1. ASSUME NEW g PROVE Range(Missing(g)) = {g} \ t.body
    <3>1. CASE g \in t.body
      BY <3>1, RangeOne DEF If, Met
    <3>2. CASE g \notin t.body
      BY <3>2, RangeOne DEF If, Met
    <3> QED BY <3>1, <3>2
  <2>2. /\ Range(b) = {"enumeration"} \ t.body /\ Range(c) = {"resources"} \ t.body
        /\ Range(d) = {"queue"} \ t.body /\ Range(e) = {"fences"} \ t.body
    BY <2>1
  <2> HIDE DEF b, c, d, e
  <2> QED BY <2>2 DEF Gates
<1>6. Range(f) = IF t.from # "live" /\ t.body = Gates THEN {"cannotVerify"} ELSE {}
  BY <1>3 DEF Complete, Met, MayPromote
<1> HIDE DEF a, b, c, d, e, f
<1>7. Range(codes) = Range(a) \cup (Range(b) \cup Range(c) \cup Range(d) \cup Range(e)) \cup Range(f)
  <2>1. a \o b \in Seq(Codes) /\ Range(a \o b) = Range(a) \cup Range(b)
    BY <1>2, RangeJoin
  <2>2. PICK p \in Seq(Codes) : p = a \o b
    BY <2>1
  <2>3. p \o c \in Seq(Codes) /\ Range(p \o c) = Range(p) \cup Range(c)
    BY <1>2, RangeJoin
  <2>4. PICK q \in Seq(Codes) : q = p \o c
    BY <2>3
  <2>5. q \o d \in Seq(Codes) /\ Range(q \o d) = Range(q) \cup Range(d)
    BY <1>2, RangeJoin
  <2>6. PICK r \in Seq(Codes) : r = q \o d
    BY <2>5
  <2>7. r \o e \in Seq(Codes) /\ Range(r \o e) = Range(r) \cup Range(e)
    BY <1>2, RangeJoin
  <2>8. PICK s \in Seq(Codes) : s = r \o e
    BY <2>7
  <2>9. Range(s \o f) = Range(s) \cup Range(f)
    BY <1>2, RangeJoin
  <2>10. codes = s \o f
    BY <2>2, <2>4, <2>6, <2>8
  <2> QED BY <2>1, <2>2, <2>3, <2>4, <2>5, <2>6, <2>7, <2>8, <2>9, <2>10
<1> HIDE DEF codes
<1>8. Range(codes) = Missed(t)
  BY <1>4, <1>5, <1>6, <1>7 DEF Missed
<1>9. CASE Verified(t)
  <2>1. t.from = "live" /\ t.body = Gates
    BY <1>9 DEF Verified, Complete, Met, MayPromote
  <2>2. Missed(t) = {}
    BY <2>1 DEF Missed
  <2> QED BY <1>1, <1>9, <2>2, RangeOne
(* The fallback is never taken: what does not verify has a reason.             *)
<1>10. CASE ~Verified(t)
  <2>1. t.from # "live" \/ Gates \ t.body # {}
    BY <1>10 DEF Verified, Complete, Met, MayPromote, Transcripts
  <2>2. Missed(t) # {}
    BY <2>1 DEF Missed
  <2>3. codes # <<>>
    BY <1>8, <2>2, RangeOne
  <2> QED BY <1>1, <1>8, <1>10, <2>3
<1> QED BY <1>9, <1>10

(* What the detection of host Vulkan may find.                                 *)
Findings == IF VulkanFeature THEN {"present", "unavailable"} ELSE {"disabled"}

TrackInv ==
  /\ HonestReports
  /\ probe.pc \in {"idle", "load", "query", "create", "enumerate", "destroy", "software"}
  /\ probe = [pc |-> probe.pc, host |-> probe.host]
  /\ instances = IF probe.pc \in {"enumerate", "destroy"} THEN 1 ELSE 0
  /\ probe.pc \in {"load", "query", "create", "enumerate", "destroy"} => VulkanFeature
  /\ probe.pc \in {"destroy", "software"} => probe.host \in Findings

(* The clauses of HonestReports about answers.                                 *)
AnswerHonest(r) ==
  /\ r.kind = "evaluation" =>
       LET live == r.from = "live" /\ r.body = Gates
       IN /\ r.verified = live /\ r.continued = ~live
          /\ r.acceptance.verified = live /\ D10Complete(r.acceptance) = live
          /\ Range(r.codes) = Missed(r)
          /\ [from |-> r.from, body |-> r.body] = AbsentOnHost => AssertsHonestFailWithoutGuest(r)
  /\ r.kind = "op" => r.answer # "ok"
  /\ r.kind = "acceptance" /\ r.acceptance.verified => D10Complete(r.acceptance)
  /\ r.kind = "guestProbe" => AssertsHonestFailWithoutDevice(r)
  /\ r.kind = "accelProbe" => r.host \in Findings

LEMMA EvaluationHonest ==
  ASSUME NEW t \in Transcripts
  PROVE  AnswerHonest(EvaluateTranscript(t))
<1> DEFINE r == EvaluateTranscript(t)
           live == t.from = "live" /\ t.body = Gates
<1>1. Verified(t) <=> live
  BY DEF Verified, Complete, MayPromote, Met
<1>2. /\ r.kind = "evaluation" /\ r.from = t.from /\ r.body = t.body
      /\ r.verified = Verified(t) /\ r.continued = ~Verified(t) /\ r.codes = FailCodes(t)
      /\ r.met = t.body
      /\ r.acceptance = IF Verified(t) THEN [gates |-> Gates, verified |-> TRUE] ELSE Unmet
  BY Zenon DEF EvaluateTranscript, Met
<1>4. {} # Gates
  BY DEF Gates
<1>5. r.acceptance.verified = Verified(t) /\ D10Complete(r.acceptance) = Verified(t)
  <2>1. CASE Verified(t)
    <3>1. r.acceptance = [gates |-> Gates, verified |-> TRUE]
      BY <1>2, <2>1
    <3>2. r.acceptance.gates = Gates /\ r.acceptance.verified = TRUE
      BY <3>1
    <3> QED BY <2>1, <3>2 DEF D10Complete
  <2>2. CASE ~Verified(t)
    <3>1. r.acceptance = [gates |-> {}, verified |-> FALSE]
      BY <1>2, <2>2 DEF Unmet
    <3>2. r.acceptance.gates = {} /\ r.acceptance.verified = FALSE
      BY <3>1
    <3>3. ~D10Complete(r.acceptance)
      BY <1>4, <3>2 DEF D10Complete
    <3>4. PICK claim : claim = r.acceptance
      OBVIOUS
    <3>5. D10Complete(claim) \in BOOLEAN /\ Verified(t) \in BOOLEAN
      BY Zenon DEF D10Complete, Verified, Complete, MayPromote
    <3> QED BY <2>2, <3>2, <3>3, <3>4, <3>5, Zenon
  <2> QED BY <2>1, <2>2
<1>6. Range(FailCodes(t)) = Missed(t)
  BY MissingAreNamed
<1>7. Range(r.codes) = Missed(r)
  <2>1. Missed(r) = Missed(t)
    BY <1>2 DEF Missed
  <2> QED BY <1>2, <1>6, <2>1
<1>8. ASSUME [from |-> t.from, body |-> t.body] = AbsentOnHost
      PROVE  t.body = {} /\ ~Verified(t)
  <2>1. t.body = {}
    BY <1>8 DEF AbsentOnHost
  <2> QED BY <1>1, <1>4, <2>1
<1> HIDE DEF r
<1>9. ASSUME [from |-> r.from, body |-> r.body] = AbsentOnHost
      PROVE  AssertsHonestFailWithoutGuest(r)
  <2>1. t.body = {} /\ ~Verified(t)
    BY <1>2, <1>8, <1>9
  <2>2. ~r.verified /\ r.continued
    BY <1>2, <2>1, Zenon
  <2>3. ~r.acceptance.verified /\ ~D10Complete(r.acceptance)
    BY <1>5, <2>1, Zenon
  <2>4. r.met = {} /\ r.codes # <<>>
    <3>1. Gates \subseteq Range(FailCodes(t))
      BY <1>6, <2>1 DEF Missed
    <3>2. FailCodes(t) # <<>>
      BY <1>4, <3>1, RangeOne
    <3> QED BY <1>2, <2>1, <3>2
  <2> QED BY <2>2, <2>3, <2>4 DEF AssertsHonestFailWithoutGuest
<1>10. /\ r.verified = live /\ r.continued = ~live
       /\ r.acceptance.verified = live /\ D10Complete(r.acceptance) = live
  <2>1. live \in BOOLEAN /\ Verified(t) \in BOOLEAN
    BY Zenon DEF Verified, Complete, MayPromote
  <2>2. Verified(t) = live
    BY <1>1, <2>1, Zenon
  <2> QED BY <1>2, <1>5, <2>2, Zenon
<1>11. AnswerHonest(r)
  BY <1>2, <1>7, <1>9, <1>10, Zenon DEF AnswerHonest
<1> QED BY <1>11 DEF r

LEMMA GuestReceiptHonest == AnswerHonest(GuestReceipt)
<1> DEFINE samples == << "guest-runtime-unavailable", ExecuteOp(Abi, "enumerateDevices") >>
                        \o <<ExecuteOp(Abi, "createBuffer"), "virtual-device-no-metal">>
           device == IF "no-metal-device" \in Range(samples) THEN samples
                     ELSE Append(samples, "no-metal-device")
           middle == IF D10Complete(Abi.acceptance) THEN <<>> ELSE <<"acceptance-unmet">>
           last   == <<"pass-forbidden-without-guest-device">>
           r == GuestReceipt
<1>1. /\ r.kind = "guestProbe" /\ r.passed = FALSE /\ r.verified = FALSE /\ r.device = FALSE
      /\ r.codes = device \o middle \o last
  BY DEF GuestReceipt
<1>3. samples \in Seq(Codes)
  <2>1. PICK a, b, c, d :
          /\ a = "guest-runtime-unavailable" /\ b = ExecuteOp(Abi, "enumerateDevices")
          /\ c = ExecuteOp(Abi, "createBuffer") /\ d = "virtual-device-no-metal"
    OBVIOUS
  <2>2. a \in Codes /\ b \in Codes /\ c \in Codes /\ d \in Codes
    BY <2>1 DEF ExecuteOp, Codes
  <2>3. samples = <<a, b>> \o <<c, d>>
    BY <2>1
  <2> HIDE DEF Codes, samples
  <2> QED BY <2>2, <2>3
<1> HIDE DEF samples
<1>4. device \in Seq(Codes) /\ "no-metal-device" \in Range(device)
  <2>1. CASE "no-metal-device" \in Range(samples)
    BY <1>3, <2>1
  <2>2. CASE "no-metal-device" \notin Range(samples)
    <3>1. PICK x \in Codes : x = "no-metal-device"
      BY DEF Codes
    <3>2. PICK one \in Seq(Codes) : one = <<x>>
      BY CodeList
    <3>3. Append(samples, x) = samples \o one
      BY <1>3, <3>2
    <3>4. x \in Range(one)
      BY <3>2, RangeOne
    <3>5. samples \o one \in Seq(Codes) /\ x \in Range(samples \o one)
      BY <1>3, <3>4, RangeJoin
    <3>6. device = Append(samples, x)
      BY <2>2, <3>1
    <3> HIDE DEF device
    <3> QED BY <3>1, <3>3, <3>5, <3>6
  <2> QED BY <2>1, <2>2
<1>5. middle \in Seq(Codes) /\ last \in Seq(Codes)
  <2>1. "acceptance-unmet" \in Codes /\ "pass-forbidden-without-guest-device" \in Codes
    BY DEF Codes
  <2> QED BY <2>1, CodeList
<1>6. "pass-forbidden-without-guest-device" \in Range(last)
  BY RangeOne
<1> HIDE DEF device, middle, last
<1>7. device \o middle \in Seq(Codes) /\ "no-metal-device" \in Range(device \o middle)
  BY <1>4, <1>5, RangeJoin
<1>8. PICK p \in Seq(Codes) : p = device \o middle
  BY <1>7
<1>9. \A x : x \in Range(p) \/ x \in Range(last) => x \in Range(p \o last)
  BY <1>5, RangeJoin
<1>10. {"no-metal-device", "pass-forbidden-without-guest-device"} \subseteq Range(r.codes)
  BY <1>1, <1>6, <1>7, <1>8, <1>9
<1> HIDE DEF r
<1>11. AssertsHonestFailWithoutDevice(r)
  BY <1>1, <1>10 DEF AssertsHonestFailWithoutDevice
<1>12. AnswerHonest(r)
  <2>1. r.kind # "evaluation" /\ r.kind # "acceptance" /\ r.kind # "accelProbe" /\ r.kind # "op"
    BY <1>1
  <2> QED BY <1>11, <2>1, Zenon DEF AnswerHonest
<1> QED BY <1>12 DEF r

LEMMA HonestIs == HonestReports <=> AnswerHonest(receipt) /\ (probe.pc = "idle" => instances = 0)
  BY Zenon DEF HonestReports, AnswerHonest, Missed, Findings

LEMMA TrackStart == TrackInit => TrackInv
<1> SUFFICES ASSUME TrackInit PROVE TrackInv
  OBVIOUS
<1>1. AnswerHonest(receipt)
  BY DEF TrackInit, NoReceipt, AnswerHonest
<1>2. probe.pc = "idle" /\ probe.host = "unknown" /\ instances = 0 /\ probe = Resting
  BY DEF TrackInit, Resting
<1> QED BY <1>1, <1>2, HonestIs DEF TrackInv, Resting

LEMMA TrackStep == TrackInv /\ [TrackNext]_trackVars => TrackInv'
<1> SUFFICES ASSUME TrackInv, [TrackNext]_trackVars PROVE TrackInv'
  OBVIOUS
<1>h. HonestReports' <=> AnswerHonest(receipt') /\ (probe'.pc = "idle" => instances' = 0)
  BY Zenon DEF HonestReports, AnswerHonest, Missed, Findings
<1>a. AnswerHonest(receipt)
  BY HonestIs DEF TrackInv
(* An answer of a surface that is asked.                                       *)
<1>s. ASSUME UNCHANGED <<probe, instances>>, AnswerHonest(receipt') PROVE TrackInv'
  BY <1>s, <1>h, HonestIs DEF TrackInv
<1>d. ASSUME receipt' = receipt, VulkanFeature,
             probe' = [pc |-> probe'.pc, host |-> probe'.host],
             probe'.pc \in {"load", "query", "create", "enumerate", "destroy", "software"},
             probe'.pc \in {"destroy", "software"} => probe'.host \in {"present", "unavailable"},
             instances' = IF probe'.pc \in {"enumerate", "destroy"} THEN 1 ELSE 0
      PROVE  TrackInv'
  <2>1. probe'.pc # "idle"
    BY <1>d
  <2>2. Findings = {"present", "unavailable"}
    BY <1>d DEF Findings
  <2> QED BY <1>a, <1>d, <1>h, <2>1, <2>2 DEF TrackInv
<1>1. ASSUME NEW t \in Transcripts, Evaluate(t) PROVE TrackInv'
  BY <1>1, <1>s, EvaluationHonest DEF Evaluate
<1>2. CASE RunProbeAttempt
  BY <1>2, <1>s, GuestReceiptHonest DEF RunProbeAttempt
<1>3. ASSUME NEW op \in DOMAIN RequiredCapability, GuestCalls(op) PROVE TrackInv'
  <2>1. receipt'.kind = "op" /\ UNCHANGED <<probe, instances>>
    BY <1>3 DEF GuestCalls
  <2>2. receipt'.answer = ExecuteOp(Abi, op) /\ ExecuteOp(Abi, op) # "ok"
    BY <1>3 DEF GuestCalls, ExecuteOp
  <2>3. AnswerHonest(receipt')
    BY <2>1, <2>2 DEF AnswerHonest
  <2> QED BY <1>s, <2>1, <2>3
<1>4. ASSUME NEW gates \in SUBSET Gates, NEW verified \in BOOLEAN, Promote(gates, verified)
      PROVE  TrackInv'
  <2>1. UNCHANGED <<probe, instances>>
    BY <1>4 DEF Promote
  <2>2. PICK a : a = [gates |-> gates, verified |-> FALSE]
    OBVIOUS
  <2>3. receipt' = IF verified /\ ~D10Complete(a) THEN [kind |-> "refused"]
                   ELSE [kind |-> "acceptance", acceptance |-> [a EXCEPT !.verified = verified]]
    BY <1>4, <2>2 DEF Promote, WithMetalVerified
  <2>4. CASE verified /\ ~D10Complete(a)
    <3>1. receipt'.kind = "refused"
      BY <2>3, <2>4
    <3> QED BY <1>s, <2>1, <3>1 DEF AnswerHonest
  <2>5. CASE ~(verified /\ ~D10Complete(a))
    <3>1. PICK b : b = [a EXCEPT !.verified = verified]
      OBVIOUS
    <3>2. receipt' = [kind |-> "acceptance", acceptance |-> b]
      BY <2>3, <2>5, <3>1
    <3>3. receipt'.kind = "acceptance" /\ receipt'.acceptance = b
      BY <3>2
    <3>4. b.gates = a.gates /\ b.verified = verified
      BY <2>2, <3>1
    <3>5. b.verified => D10Complete(b)
      BY <2>5, <3>4 DEF D10Complete
    <3>6. AnswerHonest(receipt')
      BY <3>3, <3>5 DEF AnswerHonest
    <3> QED BY <1>s, <2>1, <3>6
  <2> QED BY <2>4, <2>5
<1>5. CASE RunSoftwareProbe
  <2>1. receipt' = NoReceipt /\ instances' = instances /\ probe.pc = "idle" /\ instances = 0
    BY <1>5 DEF RunSoftwareProbe, Asked, TrackInv, HonestReports
  <2>2. AnswerHonest(receipt')
    BY <2>1 DEF NoReceipt, AnswerHonest
  <2>3. \/ VulkanFeature /\ probe' = [pc |-> "load", host |-> "unknown"]
        \/ Findings = {"disabled"} /\ probe' = [pc |-> "software", host |-> "disabled"]
    BY <1>5 DEF RunSoftwareProbe, Resting, Findings
  <2>4. /\ probe'.pc \in {"load", "software"} /\ probe' = [pc |-> probe'.pc, host |-> probe'.host]
        /\ probe'.pc = "load" => VulkanFeature
        /\ probe'.pc = "software" => probe'.host \in Findings
    BY <2>3
  <2> QED BY <1>h, <2>1, <2>2, <2>4 DEF TrackInv
<1>6. CASE Load
  <2>1. PICK at, host : probe = [pc |-> at, host |-> host] /\ at \in {"load", "query"}
    BY <1>6 DEF Load, TrackInv
  <2>2. instances' = 0 /\ receipt' = receipt /\ VulkanFeature
    BY <1>6, <2>1 DEF Load, TrackInv
  <2>3. \/ probe' = [pc |-> "query", host |-> host] \/ probe' = [pc |-> "create", host |-> host]
        \/ probe' = [pc |-> "software", host |-> "unavailable"]
    BY <1>6, <2>1 DEF Load, Absent
  <2> QED BY <1>d, <2>2, <2>3
<1>7. CASE CreateInstance
  <2>1. PICK host : probe = [pc |-> "create", host |-> host]
    BY <1>7 DEF CreateInstance, TrackInv
  <2>2. instances = 0 /\ receipt' = receipt /\ VulkanFeature
    BY <1>7, <2>1 DEF CreateInstance, TrackInv
  <2>3. \/ probe' = [pc |-> "enumerate", host |-> host] /\ instances' = 1
        \/ probe' = [pc |-> "software", host |-> "unavailable"] /\ instances' = 0
    BY <1>7, <2>1, <2>2 DEF CreateInstance, Absent
  <2> QED BY <1>d, <2>2, <2>3
<1>8. CASE EnumerateDevices
  <2>1. instances = 1 /\ instances' = instances /\ receipt' = receipt /\ VulkanFeature
    BY <1>8 DEF EnumerateDevices, TrackInv
  <2>2. \/ probe' = [pc |-> "destroy", host |-> "unavailable"]
        \/ probe' = [pc |-> "destroy", host |-> "present"]
    BY <1>8 DEF EnumerateDevices, Absent
  <2> QED BY <1>d, <2>1, <2>2
<1>9. CASE DestroyInstance
  <2>1. PICK host : probe = [pc |-> "destroy", host |-> host]
    BY <1>9 DEF DestroyInstance, TrackInv
  <2>2. /\ instances = 1 /\ instances' = 0 /\ receipt' = receipt
        /\ VulkanFeature /\ host \in {"present", "unavailable"}
    BY <1>9, <2>1 DEF DestroyInstance, TrackInv, Findings
  <2>3. probe' = [pc |-> "software", host |-> host]
    BY <1>9, <2>1 DEF DestroyInstance
  <2> QED BY <1>d, <2>2, <2>3
<1>10. ASSUME NEW computeOk \in BOOLEAN, NEW renderOk \in BOOLEAN,
              SoftwareProbes(computeOk, renderOk)
       PROVE  TrackInv'
  <2>1. receipt'.kind = "accelProbe" /\ receipt'.host = probe.host
    BY <1>10 DEF SoftwareProbes
  <2>2. probe.host \in Findings
    BY <1>10 DEF SoftwareProbes, TrackInv
  <2>3. AnswerHonest(receipt')
    BY <2>1, <2>2 DEF AnswerHonest
  <2>4. probe' = [pc |-> "idle", host |-> "unknown"] /\ instances' = 0
    BY <1>10 DEF SoftwareProbes, Resting, TrackInv
  <2> QED BY <1>h, <2>3, <2>4 DEF TrackInv
<1>11. CASE UNCHANGED trackVars
  BY <1>11, <1>a, <1>s DEF trackVars
<1> QED BY <1>1, <1>2, <1>3, <1>4, <1>5, <1>6, <1>7, <1>8, <1>9, <1>10, <1>11 DEF TrackNext

(* No surface of the crate claims Metal without a live transcript with all     *)
(* four pieces of evidence, and what is missing is named exactly; no call of a *)
(* guest succeeds; and with host Vulkan or without, no failure of its          *)
(* detection goes without an answer or leaves an instance behind.              *)
THEOREM ReportsAreHonest == TrackInit /\ [][TrackNext]_trackVars => []HonestReports
<1>1. TrackInv => HonestReports
  BY DEF TrackInv
<1> QED BY <1>1, TrackStart, TrackStep, PTL

================================================================================
