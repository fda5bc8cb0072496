---------------------------- MODULE Base64_proofs ----------------------------
(* Base64 for data, buffers and texts of any length.                         *)
EXTENDS Base64, SequenceTheorems, TLAPS

Octet == 0 .. 255

(* The tables are inverse to each other, and neither padding nor a line      *)
(* break is a code.                                                          *)
LEMMA Tables ==
    /\ \A v \in 0 .. 63 : g_pCodes(v) \in 0 .. 127 /\ g_pMap(g_pCodes(v)) = v
    /\ g_pMap(Pad) = 254 /\ g_pMap(Break) = 255 /\ Pad \in 0 .. 127
<1>1. \A v \in 0 .. 63 : g_pCodes(v) \in 0 .. 127
  BY DEF g_pCodes
<1>2. \A v \in 0 .. 63 : g_pMap(g_pCodes(v)) = v
  <2> SUFFICES ASSUME NEW v \in 0 .. 63 PROVE g_pMap(g_pCodes(v)) = v
    OBVIOUS
  <2>1. CASE v < 26
    <3>1. g_pCodes(v) = 65 + v /\ 65 + v \in 65 .. 90
      BY <2>1 DEF g_pCodes
    <3> QED
      BY <3>1 DEF g_pMap
  <2>2. CASE v >= 26 /\ v < 52
    <3>1. g_pCodes(v) = 71 + v /\ 71 + v \in 97 .. 122 /\ 71 + v \notin 65 .. 90
      BY <2>2 DEF g_pCodes
    <3> QED
      BY <3>1 DEF g_pMap
  <2>3. CASE v >= 52 /\ v < 62
    <3>1. g_pCodes(v) = v - 4 /\ v - 4 \in 48 .. 57
          /\ v - 4 \notin 65 .. 90 /\ v - 4 \notin 97 .. 122
      BY <2>3 DEF g_pCodes
    <3> QED
      BY <3>1 DEF g_pMap
  <2>4. CASE v = 62 \/ v = 63
    BY <2>4 DEF g_pCodes, g_pMap
  <2> QED
    BY <2>1, <2>2, <2>3, <2>4
<1>3. g_pMap(Pad) = 254
  BY SMT DEF g_pMap, Pad
<1>4. g_pMap(Break) = 255
  BY SMT DEF g_pMap, Pad, Break
<1>5. Pad \in 0 .. 127
  BY SMT DEF Pad
<1> QED
  BY <1>1, <1>2, <1>3, <1>4, <1>5

(* The sextets of a word of three bytes ...                                  *)
LEMMA Sextets ==
    ASSUME NEW a \in Octet, NEW b \in Octet, NEW c \in Octet
    PROVE  /\ Sextet(Join(a, b, c), 0) = a \div 4
           /\ Sextet(Join(a, b, c), 1) = (a % 4) * 16 + b \div 16
           /\ Sextet(Join(a, b, c), 2) = (b % 16) * 4 + c \div 64
           /\ Sextet(Join(a, b, c), 3) = c % 64
<1> DEFINE w == Join(a, b, c)
<1>1. w % 64 = c % 64
  BY SMT DEF Octet, Join
<1>2. w \div 64 = 1024 * a + 4 * b + c \div 64
  BY SMT DEF Octet, Join
<1>3. (1024 * a + 4 * b + c \div 64) % 64 = (b % 16) * 4 + c \div 64
  BY SMT DEF Octet
<1>4. (1024 * a + 4 * b + c \div 64) \div 64 = 16 * a + b \div 16
  BY SMT DEF Octet
<1>5. (16 * a + b \div 16) % 64 = (a % 4) * 16 + b \div 16
  BY SMT DEF Octet
<1>6. (16 * a + b \div 16) \div 64 = a \div 4 /\ (a \div 4) % 64 = a \div 4
  BY SMT DEF Octet
<1>7. /\ Sextet(w, 0) = (((w \div 64) \div 64) \div 64) % 64
      /\ Sextet(w, 1) = ((w \div 64) \div 64) % 64
      /\ Sextet(w, 2) = (w \div 64) % 64
      /\ Sextet(w, 3) = w % 64
  BY SMT DEF Sextet
<1> QED
  BY <1>1, <1>2, <1>3, <1>4, <1>5, <1>6, <1>7, SMT

(* ... make the word again, six bits at a time ...                           *)
LEMMA Joined ==
    ASSUME NEW a \in Octet, NEW b \in Octet, NEW c \in Octet
    PROVE  /\ 64 * (a \div 4) + ((a % 4) * 16 + b \div 16) = 16 * a + b \div 16
           /\ 64 * (16 * a + b \div 16) + ((b % 16) * 4 + c \div 64)
                = 1024 * a + 4 * b + c \div 64
           /\ 64 * (1024 * a + 4 * b + c \div 64) + (c % 64) = Join(a, b, c)
           /\ a \div 4 \in 0 .. 63
           /\ (a % 4) * 16 + b \div 16 \in 0 .. 63
           /\ (b % 16) * 4 + c \div 64 \in 0 .. 63
           /\ c % 64 \in 0 .. 63
           /\ 16 * a + b \div 16 \in Nat
           /\ 1024 * a + 4 * b + c \div 64 \in Nat
<1> DEFINE a1 == a \div 4
           a0 == a % 4
           b1 == b \div 16
           b0 == b % 16
           c1 == c \div 64
           c0 == c % 64
<1>1. /\ a1 \in 0 .. 63 /\ a0 \in 0 .. 3 /\ 4 * a1 + a0 = a
      /\ b1 \in 0 .. 15 /\ b0 \in 0 .. 15 /\ 16 * b1 + b0 = b
      /\ c1 \in 0 .. 3 /\ c0 \in 0 .. 63 /\ 64 * c1 + c0 = c
  BY SMT DEF Octet
<1> HIDE DEF a1, a0, b1, b0, c1, c0
<1>2. /\ 64 * a1 + (a0 * 16 + b1) = 16 * a + b1
      /\ 64 * (16 * a + b1) + (b0 * 4 + c1) = 1024 * a + 4 * b + c1
      /\ 64 * (1024 * a + 4 * b + c1) + c0 = Join(a, b, c)
      /\ a0 * 16 + b1 \in 0 .. 63
      /\ b0 * 4 + c1 \in 0 .. 63
      /\ 16 * a + b1 \in Nat
      /\ 1024 * a + 4 * b + c1 \in Nat
  BY <1>1, SMT DEF Octet, Join
<1> QED
  BY <1>1, <1>2, SMT DEF a1, a0, b1, b0, c1, c0

(* ... and the word gives back its bytes.                                    *)
LEMMA BytesOfWord ==
    ASSUME NEW a \in Octet, NEW b \in Octet, NEW c \in Octet
    PROVE  /\ (Join(a, b, c) \div 65536) % 256 = a
           /\ (Join(a, b, c) \div 256) % 256 = b
           /\ Join(a, b, c) % 256 = c
<1> DEFINE w == Join(a, b, c)
<1>1. w % 256 = c
  BY SMT DEF Octet, Join
<1>2. w \div 256 = 256 * a + b
  BY SMT DEF Octet, Join
<1>3. (256 * a + b) % 256 = b
  BY SMT DEF Octet
<1>4. w \div 65536 = a /\ a % 256 = a
  BY SMT DEF Octet, Join
<1> QED
  BY <1>1, <1>2, <1>3, <1>4, SMT

LEMMA ByteType ==
    ASSUME NEW d \in Seq(Octet), NEW k \in Nat \ {0}
    PROVE  Byte(d, k) \in Octet
<1>1. CASE k <= Len(d)
  <2>1. k \in 1 .. Len(d)
    BY <1>1
  <2>2. d[k] \in Octet
    BY <2>1
  <2> QED
    BY <1>1, <2>2 DEF Byte
<1>2. CASE ~(k <= Len(d))
  BY <1>2 DEF Byte, Octet
<1> QED
  BY <1>1, <1>2

Padded(d, m, r) == r > 1 /\ 3 * m + r > Len(d)

(* Where a character of the text comes from.                                 *)
LEMMA SymbolAt ==
    ASSUME NEW d \in Seq(Octet), NEW m \in Nat, NEW r \in 0 .. 3
    PROVE  Symbol(d, 4 * m + 1 + r)
             = IF Padded(d, m, r) THEN Pad ELSE g_pCodes(Sextet(Word(d, m), r))
<1>1. ((4 * m + 1 + r) - 1) \div 4 = m /\ ((4 * m + 1 + r) - 1) % 4 = r
  BY SMT
<1> QED
  BY <1>1 DEF Symbol, Padded

(* What Decode makes of it: the sextet, which is zero under padding.         *)
LEMMA SymbolValue ==
    ASSUME NEW d \in Seq(Octet), NEW m \in Nat, NEW r \in 0 .. 3
    PROVE  /\ Sextet(Word(d, m), r) \in 0 .. 63
           /\ Symbol(d, 4 * m + 1 + r) \in 0 .. 127
           /\ Padded(d, m, r) => /\ Sextet(Word(d, m), r) = 0
                                 /\ g_pMap(Symbol(d, 4 * m + 1 + r)) = 254
           /\ ~Padded(d, m, r) =>
                g_pMap(Symbol(d, 4 * m + 1 + r)) = Sextet(Word(d, m), r)
<1> DEFINE a == Byte(d, 3 * m + 1)
           b == Byte(d, 3 * m + 2)
           c == Byte(d, 3 * m + 3)
<1>1. a \in Octet /\ b \in Octet /\ c \in Octet
  <2>1. 3 * m + 1 \in Nat \ {0} /\ 3 * m + 2 \in Nat \ {0} /\ 3 * m + 3 \in Nat \ {0}
    OBVIOUS
  <2> QED
    BY <2>1, ByteType
<1>2. Word(d, m) = Join(a, b, c)
  BY DEF Word
<1>3. Padded(d, m, r) => c = 0 /\ (r = 2 => b = 0)
  BY DEF Padded, Byte
<1>4. Padded(d, m, r) => r = 2 \/ r = 3
  BY DEF Padded
<1> HIDE DEF a, b, c
<1>5. Sextet(Word(d, m), r) \in 0 .. 63
  <2>1. /\ Sextet(Word(d, m), 0) \in 0 .. 63 /\ Sextet(Word(d, m), 1) \in 0 .. 63
        /\ Sextet(Word(d, m), 2) \in 0 .. 63 /\ Sextet(Word(d, m), 3) \in 0 .. 63
    <3>1. /\ Sextet(Word(d, m), 0) = a \div 4
          /\ Sextet(Word(d, m), 1) = (a % 4) * 16 + b \div 16
          /\ Sextet(Word(d, m), 2) = (b % 16) * 4 + c \div 64
          /\ Sextet(Word(d, m), 3) = c % 64
      BY <1>1, <1>2, Sextets
    <3>2. /\ a \div 4 \in 0 .. 63 /\ (a % 4) * 16 + b \div 16 \in 0 .. 63
          /\ (b % 16) * 4 + c \div 64 \in 0 .. 63 /\ c % 64 \in 0 .. 63
      BY <1>1, Joined
    <3> QED
      BY <3>1, <3>2, Zenon
  <2>2. r = 0 \/ r = 1 \/ r = 2 \/ r = 3
    OBVIOUS
  <2> QED
    BY <2>1, <2>2
<1>6. Padded(d, m, r) => Sextet(Word(d, m), r) = 0
  <2>1. CASE Padded(d, m, r) /\ r = 2
    BY <1>1, <1>2, <1>3, <2>1, Sextets, SMT
  <2>2. CASE Padded(d, m, r) /\ r = 3
    BY <1>1, <1>2, <1>3, <2>2, Sextets, SMT
  <2> QED
    BY <1>4, <2>1, <2>2
<1> QED
  <2> DEFINE x == Sextet(Word(d, m), r)
             s == Symbol(d, 4 * m + 1 + r)
  <2>1. s = IF Padded(d, m, r) THEN Pad ELSE g_pCodes(x)
    BY SymbolAt
  <2>2. x \in 0 .. 63
    BY <1>5
  <2> HIDE DEF x, s
  <2>3. CASE Padded(d, m, r)
    <3>1. s = Pad /\ g_pMap(Pad) = 254 /\ Pad \in 0 .. 127
      BY <2>1, <2>3, Tables
    <3> QED
      BY <1>5, <1>6, <2>3, <3>1, Zenon DEF x, s
  <2>4. CASE ~Padded(d, m, r)
    <3>1. s = g_pCodes(x)
      BY <2>1, <2>4
    <3>2. g_pCodes(x) \in 0 .. 127 /\ g_pMap(g_pCodes(x)) = x
      <4>1. \A z \in 0 .. 63 : g_pCodes(z) \in 0 .. 127 /\ g_pMap(g_pCodes(z)) = z
        BY Tables, Zenon
      <4> QED
        BY <2>2, <4>1, Zenon
    <3>3. s \in 0 .. 127 /\ g_pMap(s) = x
      BY <3>1, <3>2
    <3> QED
      BY <1>5, <2>4, <3>3 DEF x, s
  <2> QED
    BY <2>3, <2>4
-----------------------------------------------------------------------------
(* The invariant.  Encode has written the symbols of the groups that it has  *)
(* passed, and Decode the bytes of those that it has read; t has the bits of *)
(* the group that is not complete, and g knows of the padding in it.         *)
Types == /\ in \in Seq(Octet) /\ form \in {"string", "buffer"}
         /\ into \in Nat /\ room \in Nat
         /\ i \in Nat /\ text \in Seq(0 .. 127) /\ out \in Seq(Octet)
         /\ n \in 0 .. Len(text) /\ y \in 0 .. 3 /\ g \in 1 .. 3
         /\ at \in {"call", "refused", "groups", "text", "done", "overflow"}

Encoded == /\ at \in {"call", "refused"} => i = 0 /\ text = <<>>
           /\ at = "groups" => i <= leven /\ i % 3 = 0 /\ Len(text) = 4 * (i \div 3)
           /\ at \in {"text", "done", "overflow"} => Len(text) = len2
           /\ \A k \in 1 .. Len(text) : text[k] = Symbol(in, k)
           /\ form = "buffer" /\ at # "call" => (at = "refused" <=> into <= len2)

Bits(m, r) == LET a == Byte(in, 3 * m + 1)
                  b == Byte(in, 3 * m + 2)
                  c == Byte(in, 3 * m + 3)
              IN  IF r = 0 THEN 0
                  ELSE IF r = 1 THEN a \div 4
                  ELSE IF r = 2 THEN 16 * a + b \div 16
                  ELSE 1024 * a + 4 * b + c \div 64

Unpadded(m, r) == IF r = 3 /\ 3 * m + 2 > Len(in) THEN 2 ELSE 3

Group == n \div 4

Decoded ==
    /\ at \in {"call", "refused", "groups"} => n = 0 /\ y = 0 /\ t = 0 /\ g = 3 /\ out = <<>>
    /\ at \in {"text", "done"} =>
         /\ y = n % 4
         /\ t = Bits(Group, y)
         /\ Len(out) = IF 3 * Group <= Len(in) THEN 3 * Group ELSE Len(in)
         /\ n < Len(text) => g = Unpadded(Group, y)
    /\ \A k \in 1 .. Len(out) : k <= Len(in) /\ out[k] = in[k]
    /\ Len(out) <= room
    /\ at = "overflow" => room < Len(in)

IInv == Types /\ Encoded /\ Decoded

LEMMA Start == Init => IInv
<1> SUFFICES ASSUME Init PROVE IInv
  OBVIOUS
<1>1. in \in Seq(Octet)
  <2>1. PICK k \in 0 .. MaxLen : in \in [1 .. k -> Bytes]
    BY DEF Init
  <2>2. in \in [1 .. k -> Octet]
    BY <2>1, BytesAssumption DEF Octet
  <2> QED
    BY <2>1, <2>2, BoundsAssumption
<1>2. into \in Nat /\ room \in Nat
  BY BoundsAssumption DEF Init
<1>3. Types /\ Encoded
  BY <1>1, <1>2 DEF Init, Types, Encoded
<1>4. Decoded
  BY <1>2 DEF Init, Decoded
<1> QED
  BY <1>3, <1>4 DEF IInv

(* The invariant of Decode is untouched while Encode works.                  *)
LEMMA DecodeWaits ==
    ASSUME IInv, at \in {"call", "groups"}, UNCHANGED <<data, n, breaks, y, t, g, out>>,
           at' \in {"call", "refused", "groups", "text"}
    PROVE  Decoded'
<1>1. n = 0 /\ y = 0 /\ t = 0 /\ g = 3 /\ out = <<>>
  BY DEF IInv, Decoded
<1>2. n' = 0 /\ y' = 0 /\ t' = 0 /\ g' = 3 /\ out' = <<>> /\ room' \in Nat /\ in' \in Seq(Octet)
  BY <1>1 DEF data, IInv, Types
<1>3. Group' = 0 /\ Bits(0, 0)' = 0 /\ Unpadded(0, 0)' = 3
  BY <1>2 DEF Group, Bits, Unpadded
<1> QED
  BY <1>2, <1>3 DEF Decoded

LEMMA KeepCall == IInv /\ EncodeCall => IInv'
<1> SUFFICES ASSUME IInv, EncodeCall PROVE IInv'
  OBVIOUS
<1>1. Types' /\ Decoded'
  <2>1. Types'
    BY DEF EncodeCall, data, IInv, Types
  <2>2. at \in {"call", "groups"} /\ at' \in {"call", "refused", "groups", "text"}
        /\ UNCHANGED <<data, n, breaks, y, t, g, out>>
    BY DEF EncodeCall
  <2> QED
    BY <2>1, <2>2, DecodeWaits
<1>2. Encoded'
  <2>1. i' = 0 /\ text' = <<>> /\ in' = in /\ into' = into /\ form' = form
    BY DEF EncodeCall, data, IInv, Encoded
  <2>2. len2 \in Nat /\ leven \in Nat /\ into \in Nat
    BY DEF IInv, Types, len2, leven
  <2>3. at' = IF form = "buffer" /\ into < len2 + 1 THEN "refused" ELSE "groups"
    BY DEF EncodeCall, TooSmall
  <2>4. len2' = len2 /\ leven' = leven
    BY <2>1 DEF len2, leven
  <2> QED
    BY <2>1, <2>2, <2>3, <2>4 DEF Encoded
<1> QED
  BY <1>1, <1>2 DEF IInv

(* Four characters of a group, whole or not.                                 *)
LEMMA GroupOfSymbols ==
    ASSUME NEW d \in Seq(Octet), NEW m \in Nat, 3 * m + 1 <= Len(d)
    PROVE  LET a == d[3 * m + 1]
               b == Byte(d, 3 * m + 2)
               c == Byte(d, 3 * m + 3)
           IN  /\ Symbol(d, 4 * m + 1) = g_pCodes(a \div 4)
               /\ Symbol(d, 4 * m + 2) = g_pCodes((a % 4) * 16 + b \div 16)
               /\ Symbol(d, 4 * m + 3) = IF 3 * m + 2 > Len(d) THEN Pad
                                         ELSE g_pCodes((b % 16) * 4 + c \div 64)
               /\ Symbol(d, 4 * m + 4) = IF 3 * m + 3 > Len(d) THEN Pad
                                         ELSE g_pCodes(c % 64)
<1> DEFINE a == d[3 * m + 1]
           b == Byte(d, 3 * m + 2)
           c == Byte(d, 3 * m + 3)
<1>1. a = Byte(d, 3 * m + 1)
  BY DEF Byte
<1>2. a \in Octet /\ b \in Octet /\ c \in Octet
  <2>1. 3 * m + 1 \in Nat \ {0} /\ 3 * m + 2 \in Nat \ {0} /\ 3 * m + 3 \in Nat \ {0}
    OBVIOUS
  <2> QED
    BY <1>1, <2>1, ByteType
<1>3. Word(d, m) = Join(a, b, c)
  BY <1>1 DEF Word
<1> HIDE DEF a, b, c
<1>4. /\ Sextet(Word(d, m), 0) = a \div 4
      /\ Sextet(Word(d, m), 1) = (a % 4) * 16 + b \div 16
      /\ Sextet(Word(d, m), 2) = (b % 16) * 4 + c \div 64
      /\ Sextet(Word(d, m), 3) = c % 64
  BY <1>2, <1>3, Sextets
<1>5. /\ Symbol(d, 4 * m + 1 + 0) = g_pCodes(Sextet(Word(d, m), 0))
      /\ Symbol(d, 4 * m + 1 + 1) = g_pCodes(Sextet(Word(d, m), 1))
      /\ Symbol(d, 4 * m + 1 + 2) = IF 3 * m + 2 > Len(d) THEN Pad
                                    ELSE g_pCodes(Sextet(Word(d, m), 2))
      /\ Symbol(d, 4 * m + 1 + 3) = IF 3 * m + 3 > Len(d) THEN Pad
                                    ELSE g_pCodes(Sextet(Word(d, m), 3))
  <2>1. ~Padded(d, m, 0) /\ ~Padded(d, m, 1)
        /\ (Padded(d, m, 2) <=> 3 * m + 2 > Len(d))
        /\ (Padded(d, m, 3) <=> 3 * m + 3 > Len(d))
    BY DEF Padded
  <2>2. 0 \in 0 .. 3 /\ 1 \in 0 .. 3 /\ 2 \in 0 .. 3 /\ 3 \in 0 .. 3
    OBVIOUS
  <2> QED
    BY <2>1, <2>2, SymbolAt, Zenon
<1>6. 4 * m + 1 + 0 = 4 * m + 1 /\ 4 * m + 1 + 1 = 4 * m + 2
      /\ 4 * m + 1 + 2 = 4 * m + 3 /\ 4 * m + 1 + 3 = 4 * m + 4
  OBVIOUS
<1>7. /\ Symbol(d, 4 * m + 1) = g_pCodes(a \div 4)
      /\ Symbol(d, 4 * m + 2) = g_pCodes((a % 4) * 16 + b \div 16)
      /\ Symbol(d, 4 * m + 3) = IF 3 * m + 2 > Len(d) THEN Pad
                                ELSE g_pCodes((b % 16) * 4 + c \div 64)
      /\ Symbol(d, 4 * m + 4) = IF 3 * m + 3 > Len(d) THEN Pad ELSE g_pCodes(c % 64)
  BY <1>4, <1>5, <1>6, Zenon
<1> QED
  BY <1>7 DEF a, b, c

(* Four more symbols after m groups.                                         *)
LEMMA FourMore ==
    ASSUME IInv, NEW m \in Nat, Len(text) = 4 * m,
           text' = text \o << Symbol(in, 4 * m + 1), Symbol(in, 4 * m + 2),
                             Symbol(in, 4 * m + 3), Symbol(in, 4 * m + 4) >>
    PROVE  /\ text' \in Seq(0 .. 127) /\ Len(text') = 4 * m + 4
           /\ \A k \in 1 .. Len(text') : text'[k] = Symbol(in, k)
<1> DEFINE u == << Symbol(in, 4 * m + 1), Symbol(in, 4 * m + 2),
                   Symbol(in, 4 * m + 3), Symbol(in, 4 * m + 4) >>
<1>1. u \in Seq(0 .. 127) /\ Len(u) = 4
  <2>1. \A r \in 0 .. 3 : Symbol(in, 4 * m + 1 + r) \in 0 .. 127
    BY SymbolValue DEF IInv, Types
  <2>2. /\ Symbol(in, 4 * m + 1) \in 0 .. 127 /\ Symbol(in, 4 * m + 2) \in 0 .. 127
        /\ Symbol(in, 4 * m + 3) \in 0 .. 127 /\ Symbol(in, 4 * m + 4) \in 0 .. 127
    <3>1. 4 * m + 1 + 0 = 4 * m + 1 /\ 4 * m + 1 + 1 = 4 * m + 2
          /\ 4 * m + 1 + 2 = 4 * m + 3 /\ 4 * m + 1 + 3 = 4 * m + 4
          /\ 0 \in 0 .. 3 /\ 1 \in 0 .. 3 /\ 2 \in 0 .. 3 /\ 3 \in 0 .. 3
      OBVIOUS
    <3> QED
      BY <2>1, <3>1, Zenon
  <2> QED
    BY <2>2
<1>2. text \in Seq(0 .. 127) /\ \A k \in 1 .. Len(text) : text[k] = Symbol(in, k)
  BY DEF IInv, Types, Encoded
<1>3. u[1] = Symbol(in, 4 * m + 1) /\ u[2] = Symbol(in, 4 * m + 2)
      /\ u[3] = Symbol(in, 4 * m + 3) /\ u[4] = Symbol(in, 4 * m + 4)
  OBVIOUS
<1> HIDE DEF u
<1>4. text' = text \o u
  BY DEF u
<1>5. text' \in Seq(0 .. 127) /\ Len(text') = 4 * m + 4
  <2>1. text \o u \in Seq(0 .. 127) /\ Len(text \o u) = Len(text) + Len(u)
    BY <1>1, <1>2, ConcatProperties
  <2> QED
    BY <1>1, <1>4, <2>1
<1>6. ASSUME NEW k \in 1 .. Len(text') PROVE text'[k] = Symbol(in, k)
  <2>1. CASE k <= 4 * m
    <3>1. k \in 1 .. Len(text) /\ text'[k] = text[k]
      BY <1>1, <1>2, <1>4, <1>5, <2>1, ConcatProperties
    <3> QED
      BY <1>2, <3>1
  <2>2. CASE k > 4 * m
    <3>1. text'[k] = u[k - 4 * m]
      BY <1>1, <1>2, <1>4, <1>5, <2>2, ConcatProperties
    <3>2. k = 4 * m + 1 \/ k = 4 * m + 2 \/ k = 4 * m + 3 \/ k = 4 * m + 4
      BY <1>5, <2>2
    <3> QED
      BY <1>3, <3>1, <3>2
  <2> QED
    BY <1>5, <2>1, <2>2
<1> QED
  BY <1>5, <1>6

LEMMA KeepGroup == IInv /\ EncodeGroup => IInv'
<1> SUFFICES ASSUME IInv, EncodeGroup PROVE IInv'
  OBVIOUS
<1> DEFINE m == i \div 3
<1>1. /\ m \in Nat /\ i = 3 * m /\ 3 * m + 3 <= Len(in) /\ i' = 3 * m + 3
      /\ Len(text) = 4 * m /\ i + 3 <= leven /\ (i + 3) % 3 = 0
      /\ (i + 3) \div 3 = m + 1
  <2>1. i \in Nat /\ i % 3 = 0 /\ Len(in) \in Nat /\ i < leven /\ Len(text) = 4 * m
    BY DEF IInv, Types, Encoded, EncodeGroup
  <2>2. i' = i + 3
    BY DEF EncodeGroup
  <2> QED
    BY <2>1, <2>2 DEF leven
<1> HIDE DEF m
<1>2. in \in Seq(Octet) /\ in' = in /\ form' = form /\ into' = into /\ room' = room /\ at' = "groups"
  BY DEF EncodeGroup, data, IInv, Types
<1>3. Byte(in, 3 * m + 2) = in[3 * m + 2] /\ Byte(in, 3 * m + 3) = in[3 * m + 3]
  BY <1>1, <1>2 DEF Byte
<1>4. text' = text \o << Symbol(in, 4 * m + 1), Symbol(in, 4 * m + 2),
                         Symbol(in, 4 * m + 3), Symbol(in, 4 * m + 4) >>
  <2> DEFINE a == in[3 * m + 1]
             b == in[3 * m + 2]
             c == in[3 * m + 3]
  <2>1. /\ 3 * m + 1 <= Len(in) /\ ~(3 * m + 2 > Len(in)) /\ ~(3 * m + 3 > Len(in))
    BY <1>1, <1>2
  <2>2. /\ Symbol(in, 4 * m + 1) = g_pCodes(a \div 4)
        /\ Symbol(in, 4 * m + 2) = g_pCodes((a % 4) * 16 + b \div 16)
        /\ Symbol(in, 4 * m + 3) = g_pCodes((b % 16) * 4 + c \div 64)
        /\ Symbol(in, 4 * m + 4) = g_pCodes(c % 64)
    BY <1>1, <1>2, <1>3, <2>1, GroupOfSymbols, Zenon
  <2>3. i + 1 = 3 * m + 1 /\ i + 2 = 3 * m + 2 /\ i + 3 = 3 * m + 3
    BY <1>1
  <2>4. text' = text \o << g_pCodes(a \div 4), g_pCodes((a % 4) * 16 + b \div 16),
                           g_pCodes((b % 16) * 4 + c \div 64), g_pCodes(c % 64) >>
    BY <2>3, Zenon DEF EncodeGroup
  <2> QED
    BY <2>2, <2>4, Zenon
<1>5. /\ text' \in Seq(0 .. 127) /\ Len(text') = 4 * m + 4
      /\ \A k \in 1 .. Len(text') : text'[k] = Symbol(in, k)
  BY <1>1, <1>4, FourMore
<1>6. Types'
  <2>1. n' = 0 /\ y' = y /\ g' = g /\ out' = out /\ y \in 0 .. 3 /\ g \in 1 .. 3
        /\ out \in Seq(Octet) /\ form \in {"string", "buffer"} /\ into \in Nat /\ room \in Nat
    BY DEF EncodeGroup, IInv, Types, Decoded
  <2> QED
    BY <1>1, <1>2, <1>5, <2>1 DEF Types
<1>7. Encoded'
  <2>1. leven' = leven /\ len2' = len2
    BY <1>2 DEF leven, len2
  <2>2. form = "buffer" => ~(into <= len2)
    BY DEF IInv, Encoded, EncodeGroup
  <2> QED
    BY <1>1, <1>2, <1>5, <2>1, <2>2 DEF Encoded
<1>8. Decoded'
  BY <1>2, DecodeWaits DEF EncodeGroup
<1> QED
  BY <1>6, <1>7, <1>8 DEF IInv

LEMMA KeepRest == IInv /\ EncodeRest => IInv'
<1> SUFFICES ASSUME IInv, EncodeRest PROVE IInv'
  OBVIOUS
<1> DEFINE m == i \div 3
<1>1. /\ m \in Nat /\ i = 3 * m /\ Len(text) = 4 * m /\ Len(in) \in Nat
      /\ 3 * m <= Len(in) /\ Len(in) < 3 * m + 3
      /\ i < Len(in) => len2 = 4 * m + 4
      /\ ~(i < Len(in)) => len2 = 4 * m
  <2>1. i \in Nat /\ Len(in) \in Nat /\ i = leven /\ Len(text) = 4 * m
    BY DEF IInv, Types, Encoded, EncodeRest
  <2> QED
    BY <2>1 DEF leven, len2
<1> HIDE DEF m
<1>2. /\ in \in Seq(Octet) /\ in' = in /\ form' = form /\ into' = into /\ room' = room
      /\ i' = i /\ at' = "text" /\ at = "groups"
  BY DEF EncodeRest, data, IInv, Types
<1>3. text' = IF i < Len(in)
              THEN text \o << Symbol(in, 4 * m + 1), Symbol(in, 4 * m + 2),
                              Symbol(in, 4 * m + 3), Symbol(in, 4 * m + 4) >>
              ELSE text
  <2>1. CASE i < Len(in)
    <3> DEFINE a == in[3 * m + 1]
               b == Byte(in, 3 * m + 2)
    <3>1. /\ 3 * m + 1 <= Len(in) /\ 3 * m + 3 > Len(in) /\ i + 1 = 3 * m + 1 /\ i + 2 = 3 * m + 2
          /\ (i + 1 < Len(in)) <=> ~(3 * m + 2 > Len(in))
      BY <1>1, <2>1
    <3>2. b = IF i + 1 < Len(in) THEN in[i + 2] ELSE 0
      BY <1>1, <3>1 DEF Byte
    <3>3. Byte(in, 3 * m + 3) = 0 /\ 0 \div 64 = 0
      BY <1>1, <3>1 DEF Byte
    <3>4. (b % 16) * 4 + 0 = (b % 16) * 4
      <4>1. 3 * m + 2 \in Nat \ {0}
        BY <1>1
      <4>2. b \in Octet
        BY <1>2, <4>1, ByteType
      <4> HIDE DEF b
      <4> QED
        BY <4>2 DEF Octet
    <3>5. /\ Symbol(in, 4 * m + 1) = g_pCodes(a \div 4)
          /\ Symbol(in, 4 * m + 2) = g_pCodes((a % 4) * 16 + b \div 16)
          /\ Symbol(in, 4 * m + 3) = IF 3 * m + 2 > Len(in) THEN Pad
                                     ELSE g_pCodes((b % 16) * 4 + 0)
          /\ Symbol(in, 4 * m + 4) = Pad
      <4>1. /\ Symbol(in, 4 * m + 1) = g_pCodes(a \div 4)
            /\ Symbol(in, 4 * m + 2) = g_pCodes((a % 4) * 16 + b \div 16)
            /\ Symbol(in, 4 * m + 3) = IF 3 * m + 2 > Len(in) THEN Pad
                     ELSE g_pCodes((b % 16) * 4 + Byte(in, 3 * m + 3) \div 64)
            /\ Symbol(in, 4 * m + 4) = IF 3 * m + 3 > Len(in) THEN Pad
                     ELSE g_pCodes(Byte(in, 3 * m + 3) % 64)
        BY <1>1, <1>2, <3>1, GroupOfSymbols, Zenon
      <4> QED
        BY <3>1, <3>3, <4>1, Zenon
    <3>6. Rest = << Symbol(in, 4 * m + 1), Symbol(in, 4 * m + 2),
                    Symbol(in, 4 * m + 3), Symbol(in, 4 * m + 4) >>
      <4>1. Rest = << g_pCodes(a \div 4), g_pCodes((a % 4) * 16 + b \div 16),
                      IF i + 1 < Len(in) THEN g_pCodes((b % 16) * 4) ELSE Pad, Pad >>
        BY <3>1, <3>2, Zenon DEF Rest
      <4>2. Symbol(in, 4 * m + 3) = IF i + 1 < Len(in) THEN g_pCodes((b % 16) * 4) ELSE Pad
        BY <3>1, <3>4, <3>5, Zenon
      <4> QED
        BY <3>5, <4>1, <4>2, Zenon
    <3> QED
      BY <2>1, <3>6, Zenon DEF EncodeRest
  <2> QED
    BY <2>1 DEF EncodeRest
<1>4. /\ text' \in Seq(0 .. 127) /\ Len(text') = len2
      /\ \A k \in 1 .. Len(text') : text'[k] = Symbol(in, k)
  <2>1. CASE i < Len(in)
    <3>1. /\ text' \in Seq(0 .. 127) /\ Len(text') = 4 * m + 4
          /\ \A k \in 1 .. Len(text') : text'[k] = Symbol(in, k)
      BY <1>1, <1>3, <2>1, FourMore, Zenon
    <3> QED
      BY <1>1, <2>1, <3>1
  <2>2. CASE ~(i < Len(in))
    BY <1>1, <1>3, <2>2 DEF IInv, Types, Encoded
  <2> QED
    BY <2>1, <2>2
<1>5. len2' = len2 /\ len2 \in Nat
  BY <1>1, <1>2 DEF len2
<1>6. Types'
  BY <1>2, <1>4, <1>5 DEF EncodeRest, IInv, Types, Decoded
<1>7. Encoded'
  <2>1. form = "buffer" => ~(into <= len2)
    BY <1>2 DEF IInv, Encoded
  <2> QED
    BY <1>2, <1>4, <1>5, <2>1 DEF Encoded
<1>8. Decoded'
  BY <1>2, DecodeWaits DEF EncodeRest
<1> QED
  BY <1>6, <1>7, <1>8 DEF IInv

(* Another sextet.                                                           *)
LEMMA NextBits ==
    ASSUME in \in Seq(Octet), NEW m \in Nat, NEW r \in 0 .. 3
    PROVE  64 * Bits(m, r) + Sextet(Word(in, m), r)
             = IF r < 3 THEN Bits(m, r + 1) ELSE Word(in, m)
<1> DEFINE a == Byte(in, 3 * m + 1)
           b == Byte(in, 3 * m + 2)
           c == Byte(in, 3 * m + 3)
<1>1. a \in Octet /\ b \in Octet /\ c \in Octet
  <2>1. 3 * m + 1 \in Nat \ {0} /\ 3 * m + 2 \in Nat \ {0} /\ 3 * m + 3 \in Nat \ {0}
    OBVIOUS
  <2> QED
    BY <2>1, ByteType
<1>2. Word(in, m) = Join(a, b, c)
  BY DEF Word
<1>3. /\ Bits(m, 0) = 0 /\ Bits(m, 1) = a \div 4
      /\ Bits(m, 2) = 16 * a + b \div 16
      /\ Bits(m, 3) = 1024 * a + 4 * b + c \div 64
  BY DEF Bits
<1> HIDE DEF a, b, c
<1>4. /\ Sextet(Word(in, m), 0) = a \div 4
      /\ Sextet(Word(in, m), 1) = (a % 4) * 16 + b \div 16
      /\ Sextet(Word(in, m), 2) = (b % 16) * 4 + c \div 64
      /\ Sextet(Word(in, m), 3) = c % 64
  BY <1>1, <1>2, Sextets
<1>5. /\ 64 * (a \div 4) + ((a % 4) * 16 + b \div 16) = 16 * a + b \div 16
      /\ 64 * (16 * a + b \div 16) + ((b % 16) * 4 + c \div 64)
           = 1024 * a + 4 * b + c \div 64
      /\ 64 * (1024 * a + 4 * b + c \div 64) + (c % 64) = Join(a, b, c)
      /\ a \div 4 \in 0 .. 63
  BY <1>1, Joined
<1>6. CASE r = 0
  <2>1. \A p \in 0 .. 63 : 64 * 0 + p = p
    OBVIOUS
  <2>2. r < 3 /\ r + 1 = 1
    BY <1>6
  <2>3. 64 * 0 + a \div 4 = a \div 4
    <3>1. a \div 4 \in 0 .. 63
      BY <1>5
    <3> QED
      BY <2>1, <3>1, Zenon
  <2>4. Bits(m, r) = 0 /\ Bits(m, r + 1) = a \div 4 /\ Sextet(Word(in, m), r) = a \div 4
    BY <1>3, <1>4, <1>6, <2>2, Zenon
  <2> QED
    BY <2>2, <2>3, <2>4
<1>7. CASE r = 1
  BY <1>3, <1>4, <1>5, <1>7
<1>8. CASE r = 2
  BY <1>3, <1>4, <1>5, <1>8
<1>9. CASE r = 3
  BY <1>2, <1>3, <1>4, <1>5, <1>9
<1> QED
  BY <1>6, <1>7, <1>8, <1>9

(* The bytes of a group that is complete, as many as were not padded.        *)
LEMMA FullGroup ==
    ASSUME in \in Seq(Octet), NEW m \in Nat, 3 * m + 1 <= Len(in),
           out \in Seq(Octet), Len(out) = 3 * m,
           \A k \in 1 .. Len(out) : k <= Len(in) /\ out[k] = in[k],
           g' = IF 3 * m + 2 > Len(in) THEN 1 ELSE IF 3 * m + 3 > Len(in) THEN 2 ELSE 3,
           out' = out \o Full(Word(in, m))
    PROVE  /\ out' \in Seq(Octet) /\ Len(out') = 3 * m + g'
           /\ \A k \in 1 .. Len(out') : k <= Len(in) /\ out'[k] = in[k]
<1> DEFINE a == Byte(in, 3 * m + 1)
           b == Byte(in, 3 * m + 2)
           c == Byte(in, 3 * m + 3)
<1>1. a \in Octet /\ b \in Octet /\ c \in Octet
  <2>1. 3 * m + 1 \in Nat \ {0} /\ 3 * m + 2 \in Nat \ {0} /\ 3 * m + 3 \in Nat \ {0}
    OBVIOUS
  <2> QED
    BY <2>1, ByteType
<1>2. /\ a = in[3 * m + 1]
      /\ 3 * m + 2 <= Len(in) => b = in[3 * m + 2]
      /\ 3 * m + 3 <= Len(in) => c = in[3 * m + 3]
  BY DEF Byte
<1>3. Word(in, m) = Join(a, b, c)
  BY DEF Word
<1> HIDE DEF a, b, c
<1>4. /\ (Word(in, m) \div 65536) % 256 = a
      /\ (Word(in, m) \div 256) % 256 = b
      /\ Word(in, m) % 256 = c
  BY <1>1, <1>3, BytesOfWord
<1>5. Full(Word(in, m)) = SubSeq(<<a, b, c>>, 1, g')
  <2> DEFINE w == Word(in, m)
             p == (w \div 65536) % 256
             q == (w \div 256) % 256
             r == w % 256
  <2>1. Full(w) = SubSeq(<<p, q, r>>, 1, g')
    BY DEF Full
  <2>2. p = a /\ q = b /\ r = c
    BY <1>4
  <2> HIDE DEF w, p, q, r
  <2>3. Full(w) = SubSeq(<<a, b, c>>, 1, g')
    BY <2>1, <2>2, Zenon
  <2> QED
    BY <2>3 DEF w
<1>6. PICK v : /\ v \in Seq(Octet) /\ Full(Word(in, m)) = v /\ Len(v) = g' /\ g' \in 1 .. 3
               /\ v[1] = a /\ (g' > 1 => v[2] = b) /\ (g' > 2 => v[3] = c)
  <2> DEFINE u == SubSeq(<<a, b, c>>, 1, g')
  <2>1. g' \in 1 .. 3
    BY SMT
  <2>2. u \in Seq(Octet) /\ Len(u) = g'
    BY <1>1, <2>1
  <2>3. u[1] = a /\ (g' > 1 => u[2] = b) /\ (g' > 2 => u[3] = c)
    BY <1>1, <2>1
  <2> QED
    BY <1>5, <2>1, <2>2, <2>3
<1>7. out' \in Seq(Octet) /\ Len(out') = 3 * m + g'
      /\ \A k \in 1 .. 3 * m + g' : out'[k] = IF k <= 3 * m THEN out[k] ELSE v[k - 3 * m]
  <2>1. /\ out \o v \in Seq(Octet) /\ Len(out \o v) = Len(out) + Len(v)
        /\ \A k \in 1 .. Len(out) + Len(v) :
              (out \o v)[k] = IF k <= Len(out) THEN out[k] ELSE v[k - Len(out)]
    <3>1. v \in Seq(Octet) /\ out \in Seq(Octet)
      BY <1>6
    <3> QED
      BY <3>1, ConcatProperties, Zenon
  <2> QED
    BY <1>6, <2>1
<1>8. ASSUME NEW k \in 1 .. Len(out') PROVE k <= Len(in) /\ out'[k] = in[k]
  <2>1. k \in 1 .. 3 * m + g' /\ Len(in) \in Nat /\ 3 * m + g' <= Len(in)
    BY <1>6, <1>7
  <2>2. CASE k <= 3 * m
    BY <1>7, <2>1, <2>2
  <2>3. CASE k = 3 * m + 1
    BY <1>2, <1>6, <1>7, <2>1, <2>3
  <2>4. CASE k = 3 * m + 2
    BY <1>2, <1>6, <1>7, <2>1, <2>4
  <2>5. CASE k = 3 * m + 3
    BY <1>2, <1>6, <1>7, <2>1, <2>5
  <2> QED
    BY <1>6, <2>1, <2>2, <2>3, <2>4, <2>5
<1> QED
  BY <1>7, <1>8

LEMMA KeepChar == IInv /\ DecodeChar => IInv'
<1> SUFFICES ASSUME IInv, DecodeChar PROVE IInv'
  OBVIOUS
<1> DEFINE m == Group
           s == Sextet(Word(in, m), y)
<1>1. /\ m \in Nat /\ y \in 0 .. 3 /\ n = 4 * m + y /\ n \in Nat /\ n' = n + 1
      /\ Len(in) \in Nat /\ 3 * m + 1 <= Len(in)
      /\ Len(text) = len2 /\ n < len2 /\ 4 * m + 4 <= len2
      /\ Len(out) = 3 * m
  <2>1. /\ n \in Nat /\ Len(in) \in Nat /\ n < len2 /\ Len(text) = len2 /\ y = n % 4 /\ n' = n + 1
        /\ Len(out) = IF 3 * Group <= Len(in) THEN 3 * Group ELSE Len(in)
    BY DEF IInv, Types, Encoded, Decoded, DecodeChar
  <2>2. Group \in Nat /\ n = 4 * Group + y /\ y \in 0 .. 3
    BY <2>1 DEF Group
  <2> HIDE DEF m
  <2>3. 4 * Group + 4 <= len2 /\ 3 * Group + 1 <= Len(in)
    BY <2>1, <2>2 DEF len2
  <2> QED
    BY <2>1, <2>2, <2>3 DEF m
<1>2. /\ in \in Seq(Octet) /\ in' = in /\ form' = form /\ into' = into /\ room' = room
      /\ i' = i /\ text' = text /\ at = "text"
  BY DEF DecodeChar, data, IInv, Types
<1>3. text[n + 1] = Symbol(in, 4 * m + 1 + y)
  <2>1. n + 1 \in 1 .. Len(text) /\ n + 1 = 4 * m + 1 + y
    BY <1>1
  <2> QED
    BY <2>1 DEF IInv, Encoded
<1>4. t = Bits(m, y) /\ g = Unpadded(m, y)
  BY <1>1, <1>2 DEF IInv, Decoded
<1> DEFINE v == IF y < 3 THEN Bits(m, y + 1) ELSE Word(in, m)
           padded == Padded(in, m, y)
<1>5. /\ g' = IF padded THEN g - 1 ELSE g
      /\ y < 3 => y' = y + 1 /\ t' = v /\ out' = out /\ at' = at
      /\ ~(y < 3) => /\ y' = 0 /\ t' = 0
                     /\ NoRoom => at' = "overflow" /\ out' = out
                     /\ ~NoRoom => out' = out \o Full(v) /\ at' = at
  <2> DEFINE ch == Symbol(in, 4 * m + 1 + y)
  <2>1. /\ s \in 0 .. 63
        /\ padded => s = 0 /\ g_pMap(ch) = 254
        /\ ~padded => g_pMap(ch) = s
    <3>1. m \in Nat /\ y \in 0 .. 3 /\ in \in Seq(Octet)
      BY <1>1, <1>2
    <3> HIDE DEF m
    <3> QED
      BY <3>1, SymbolValue, Zenon
  <2>2. 64 * t + s = v
    BY <1>1, <1>2, <1>4, NextBits
  <2>3. Round(ch)
    BY <1>3 DEF DecodeChar
  <2> HIDE DEF ch, s, v, padded
  <2>4. g_pMap(ch) # 255 /\ (g_pMap(ch) = 254 <=> padded)
        /\ s = IF g_pMap(ch) = 254 THEN 0 ELSE g_pMap(ch)
    BY <2>1
  <2>5. Take(ch)
    BY <2>3, <2>4 DEF Round
  <2> QED
    BY <2>2, <2>4, <2>5, Zenon DEF Take
<1> HIDE DEF m, s, v, padded
<1>6. /\ Len(in') = Len(in) /\ len2' = len2 /\ leven' = leven
      /\ \A p \in Nat, r \in 0 .. 3 : Bits(p, r)' = Bits(p, r) /\ Unpadded(p, r)' = Unpadded(p, r)
  BY <1>2 DEF len2, leven, Bits, Unpadded, Byte
<1>7. Encoded'
  <2>1. at' \in {"text", "overflow"}
    BY <1>1, <1>2, <1>5
  <2> QED
    BY <1>1, <1>2, <1>6, <2>1 DEF IInv, Encoded
<1>8. /\ out \in Seq(Octet) /\ room \in Nat /\ Len(out) <= room
      /\ \A k \in 1 .. Len(out) : k <= Len(in) /\ out[k] = in[k]
  BY DEF IInv, Types, Decoded
<1>9. CASE y < 3
  <2>1. Group' = m /\ n' % 4 = y + 1 /\ y + 1 \in 0 .. 3
    BY <1>1, <1>9 DEF Group
  <2>2. g' = Unpadded(m, y + 1) /\ g' \in 1 .. 3
    BY <1>1, <1>4, <1>5, <1>9 DEF Unpadded, Padded, padded
  <2>3. t' = Bits(m, y + 1) /\ y' = y + 1 /\ out' = out /\ at' = "text"
    BY <1>2, <1>5, <1>9 DEF v
  <2>4. Types'
    BY <1>1, <1>2, <2>1, <2>2, <2>3 DEF IInv, Types
  <2>5. Decoded'
    BY <1>1, <1>2, <1>6, <1>8, <2>1, <2>2, <2>3 DEF Decoded
  <2> QED
    BY <1>7, <2>4, <2>5 DEF IInv
<1>10. CASE ~(y < 3)
  <2>1. y = 3 /\ Group' = m + 1 /\ n' % 4 = 0
    BY <1>1, <1>10 DEF Group
  <2>2. g' = IF 3 * m + 2 > Len(in) THEN 1 ELSE IF 3 * m + 3 > Len(in) THEN 2 ELSE 3
    BY <1>1, <1>4, <1>5, <2>1 DEF Unpadded, Padded, padded
  <2>3. y' = 0 /\ t' = 0 /\ g' \in 1 .. 3
    <3>1. y' = 0 /\ t' = 0
      BY <1>5, <1>10
    <3> QED
      BY <2>2, <3>1
  <2>4. CASE NoRoom
    <3>1. at' = "overflow" /\ out' = out
      BY <1>5, <1>10, <2>4
    <3>2. room < Len(in)
      BY <1>1, <1>8, <2>2, <2>4 DEF NoRoom
    <3>3. Types'
      BY <1>1, <1>2, <2>3, <3>1 DEF IInv, Types
    <3>4. Decoded'
      BY <1>2, <1>6, <1>8, <3>1, <3>2 DEF Decoded
    <3> QED
      BY <1>7, <3>3, <3>4 DEF IInv
  <2>5. CASE ~NoRoom
    <3>1. at' = "text" /\ out' = out \o Full(Word(in, m))
      BY <1>2, <1>5, <1>10, <2>5 DEF v
    <3>2. /\ out' \in Seq(Octet) /\ Len(out') = 3 * m + g'
          /\ \A k \in 1 .. Len(out') : k <= Len(in) /\ out'[k] = in[k]
      BY <1>1, <1>2, <1>8, <2>2, <3>1, FullGroup
    <3>3. Types'
      BY <1>1, <1>2, <2>3, <3>1, <3>2 DEF IInv, Types
    <3>4. Len(out') <= room
      BY <1>1, <1>8, <2>3, <2>5, <3>2 DEF NoRoom
    <3>5. Len(out') = IF 3 * (m + 1) <= Len(in) THEN 3 * (m + 1) ELSE Len(in)
      BY <1>1, <2>2, <3>2
    <3>6. n' < Len(text) => g' = 3
      BY <1>1, <2>1, <2>2 DEF len2
    <3>7. Bits(m + 1, 0) = 0 /\ Unpadded(m + 1, 0) = 3 /\ m + 1 \in Nat /\ 0 \in 0 .. 3
      BY <1>1 DEF Bits, Unpadded
    <3>8. Decoded'
      BY <1>2, <1>6, <2>1, <2>3, <3>1, <3>2, <3>4, <3>5, <3>6, <3>7 DEF Decoded
    <3> QED
      BY <1>7, <3>3, <3>8 DEF IInv
  <2> QED
    BY <2>4, <2>5
<1> QED
  BY <1>9, <1>10

LEMMA KeepBreak == IInv /\ DecodeBreak => IInv'
<1> SUFFICES ASSUME IInv, DecodeBreak PROVE IInv'
  OBVIOUS
<1>1. UNCHANGED <<data, i, text, n, y, t, g, out, at>>
  BY Tables DEF DecodeBreak, Round
<1>2. UNCHANGED <<in, form, into, room>>
  BY <1>1 DEF data
<1> QED
  BY <1>1, <1>2 DEF IInv, Types, Encoded, Decoded, leven, len2, Group, Bits, Unpadded,
                    Symbol, Word, Byte

LEMMA KeepReturn == IInv /\ DecodeReturn => IInv'
<1> SUFFICES ASSUME IInv, DecodeReturn PROVE IInv'
  OBVIOUS
<1>1. UNCHANGED <<in, form, into, room, i, text, n, y, t, g, out>> /\ at = "text" /\ at' = "done"
  BY DEF DecodeReturn, data
<1>2. /\ len2' = len2 /\ leven' = leven /\ Group' = Group
      /\ Bits(Group, y)' = Bits(Group, y) /\ Unpadded(Group, y)' = Unpadded(Group, y)
  BY <1>1 DEF leven, len2, Group, Bits, Unpadded, Byte
<1>3. Types'
  BY <1>1 DEF IInv, Types
<1>4. Encoded'
  BY <1>1, <1>2 DEF IInv, Encoded
<1>5. Decoded'
  BY <1>1, <1>2 DEF IInv, Decoded
<1> QED
  BY <1>3, <1>4, <1>5 DEF IInv

LEMMA Invariance == Spec => []IInv
<1>1. IInv /\ UNCHANGED vars => IInv'
  <2> SUFFICES ASSUME IInv, UNCHANGED vars PROVE IInv'
    OBVIOUS
  <2>1. UNCHANGED <<in, form, into, room, i, text, n, breaks, y, t, g, out, at>>
    BY DEF vars, data
  <2> QED
    BY <2>1 DEF IInv, Types, Encoded, Decoded, leven, len2, Group, Bits, Unpadded,
                Symbol, Word, Byte
<1>2. IInv /\ [Next]_vars => IInv'
  BY <1>1, KeepCall, KeepGroup, KeepRest, KeepChar, KeepBreak, KeepReturn DEF Next
<1> QED
  BY <1>2, Start, PTL DEF Spec
-----------------------------------------------------------------------------
(* Encode gives the base64 of data of any length, in either form, and stays  *)
(* inside every buffer.                                                      *)
THEOREM Base64EncodeRight == Spec => []EncodeRight
<1>1. IInv => EncodeRight
  BY DEF IInv, Encoded, EncodeRight
<1> QED
  BY <1>1, Invariance, PTL

(* Decode gives back data of any length, with any number of line breaks and  *)
(* wherever the text was cut.                                                *)
THEOREM Base64RoundTrip == Spec => []RoundTrip
<1>1. IInv => RoundTrip
  <2> SUFFICES ASSUME IInv PROVE RoundTrip
    OBVIOUS
  <2>1. Len(out) <= Len(in) /\ out = SubSeq(in, 1, Len(out))
    <3>1. /\ in \in Seq(Octet) /\ out \in Seq(Octet)
          /\ \A k \in 1 .. Len(out) : k <= Len(in) /\ out[k] = in[k]
      BY DEF IInv, Types, Decoded
    <3>2. Len(out) \in Nat /\ Len(in) \in Nat /\ Len(out) <= Len(in)
      BY <3>1
    <3> QED
      BY <3>1, <3>2
  <2>2. ASSUME at = "done"
        PROVE  Len(out) = 3 * (n \div 4) \/ (n = Len(text) /\ Len(out) = Len(in))
    <3>1. /\ n \in 0 .. Len(text) /\ Len(text) = len2 /\ Len(in) \in Nat
          /\ Len(out) = IF 3 * (n \div 4) <= Len(in) THEN 3 * (n \div 4) ELSE Len(in)
      BY <2>2 DEF IInv, Types, Encoded, Decoded, Group
    <3>2. 3 * (n \div 4) > Len(in) => n = Len(text)
      BY <3>1 DEF len2
    <3> QED
      BY <3>1, <3>2
  <2> QED
    BY <2>1, <2>2 DEF RoundTrip
<1> QED
  BY <1>1, Invariance, PTL

(* Decode stays inside its buffer, and a buffer as large as the data will do.*)
THEOREM Base64DecodeFits == Spec => []DecodeFits
<1>1. IInv => DecodeFits
  BY DEF IInv, Decoded, DecodeFits
<1> QED
  BY <1>1, Invariance, PTL
=============================================================================
