------------------------------- MODULE Base64 -------------------------------
(* CBase64 (src/common_component/base64/base64.cpp): Encode in its two forms,*)
(* for a string and for a buffer, and Decode, which gets what was encoded,   *)
(* perhaps with line breaks, perhaps cut short.  A round of a loop is a step.*)
(* Characters are their ASCII codes.                                         *)
EXTENDS Integers, Sequences

CONSTANTS Bytes, MaxLen,     \* data to encode
          Rooms,             \* sizes of the buffers that callers pass
          MaxBreaks          \* bound on the line breaks in a text

ASSUME BytesAssumption == Bytes \subseteq 0 .. 255
ASSUME BoundsAssumption == MaxLen \in Nat /\ Rooms \subseteq Nat /\ MaxBreaks \in Nat

Pad == 61                    \* '='
Break == 10

(* The two tables.                                                           *)
g_pCodes(v) == IF v < 26 THEN 65 + v          \* letters
               ELSE IF v < 52 THEN 71 + v     \* small letters
               ELSE IF v < 62 THEN v - 4      \* digits
               ELSE IF v = 62 THEN 43 ELSE 47 \* plus and slash

g_pMap(c) == IF c \in 65 .. 90 THEN c - 65
             ELSE IF c \in 97 .. 122 THEN c - 71
             ELSE IF c \in 48 .. 57 THEN c + 4
             ELSE IF c = 43 THEN 62
             ELSE IF c = 47 THEN 63
             ELSE IF c = Pad THEN 254 ELSE 255

VARIABLES in,                \* the data
          form, into,        \* which Encode, and *uOutLen of the one for a buffer
          i, text,           \* Encode: bytes and characters so far
          n, breaks,         \* Decode: characters of text taken, and line breaks
          y, t, g,           \* its variables of these names
          out, room,         \* pOut with z bytes in it, and *uOutLen
          at

data == <<in, form, into, room>>
vars == <<data, i, text, n, breaks, y, t, g, out, at>>

Init == /\ in \in UNION {[1 .. k -> Bytes] : k \in 0 .. MaxLen}
        /\ form \in {"string", "buffer"} /\ into \in Rooms /\ room \in Rooms
        /\ i = 0 /\ text = <<>>
        /\ n = 0 /\ breaks = 0
        /\ y = 0 /\ t = 0 /\ g = 3 /\ out = <<>>
        /\ at = "call"
-----------------------------------------------------------------------------
len2 == 4 * ((Len(in) + 2) \div 3)
leven == 3 * (Len(in) \div 3)

TooSmall_bug == into < len2            \* no room for the byte at the end
TooSmall == into < len2 + 1

EncodeCall == /\ at = "call"
              /\ at' = IF form = "buffer" /\ TooSmall THEN "refused" ELSE "groups"
              /\ UNCHANGED <<data, i, text, n, breaks, y, t, g, out>>

EncodeGroup ==
    /\ at = "groups" /\ i < leven
    /\ LET a == in[i + 1]
           b == in[i + 2]
           c == in[i + 3]
       IN  text' = text \o << g_pCodes(a \div 4),
                              g_pCodes((a % 4) * 16 + b \div 16),
                              g_pCodes((b % 16) * 4 + c \div 64),
                              g_pCodes(c % 64) >>
    /\ i' = i + 3
    /\ UNCHANGED <<data, n, breaks, y, t, g, out, at>>

(* The last one or two bytes, with padding.                                  *)
Rest == LET a == in[i + 1]
            b == IF i + 1 < Len(in) THEN in[i + 2] ELSE 0
        IN  << g_pCodes(a \div 4),
               g_pCodes((a % 4) * 16 + b \div 16),
               IF i + 1 < Len(in) THEN g_pCodes((b % 16) * 4) ELSE Pad,
               Pad >>

EncodeRest == /\ at = "groups" /\ i = leven
              /\ text' = IF i < Len(in) THEN text \o Rest ELSE text
              /\ at' = "text"
              /\ UNCHANGED <<data, i, n, breaks, y, t, g, out>>
-----------------------------------------------------------------------------
(* The bytes of a full group: three less the padding, of which there are at  *)
(* most two characters here.                                                 *)
Full_bug(v) == <<(v \div 65536) % 256, (v \div 256) % 256, v % 256>>  \* g is not asked
Full(v) == SubSeq(<<(v \div 65536) % 256, (v \div 256) % 256, v % 256>>, 1, g')

NoRoom_bug == Len(out) + 3 > room         \* g is not asked
NoRoom == Len(out) + g' > room

(* One round of Decode for the character ch.                                 *)
Take(ch) == LET c == IF g_pMap(ch) = 254 THEN 0 ELSE g_pMap(ch)
                v == 64 * t + c
            IN  /\ g' = IF g_pMap(ch) = 254 THEN g - 1 ELSE g
                /\ IF y < 3
                   THEN y' = y + 1 /\ t' = v /\ UNCHANGED <<out, at>>
                   ELSE /\ y' = 0 /\ t' = 0
                        /\ IF NoRoom THEN at' = "overflow" /\ UNCHANGED out
                           ELSE out' = out \o Full(v) /\ UNCHANGED at

Round(ch) == IF g_pMap(ch) = 255 THEN UNCHANGED <<y, t, g, out, at>> ELSE Take(ch)

DecodeChar == /\ at = "text" /\ n < Len(text)
              /\ Round(text[n + 1])
              /\ n' = n + 1
              /\ UNCHANGED <<data, i, text, breaks>>

DecodeBreak == /\ at = "text" /\ breaks < MaxBreaks
               /\ Round(Break)
               /\ breaks' = breaks + 1
               /\ UNCHANGED <<data, i, text, n>>

(* The string ends here, wherever it was cut.                                *)
DecodeReturn == /\ at = "text"
                /\ at' = "done"
                /\ UNCHANGED <<data, i, text, n, breaks, y, t, g, out>>

Next == \/ EncodeCall \/ EncodeGroup \/ EncodeRest
        \/ DecodeChar \/ DecodeBreak \/ DecodeReturn

Spec == Init /\ [][Next]_vars
-----------------------------------------------------------------------------
(* What base64 is: character k of the text stands for the six bits from      *)
(* 6(k - 1) on of the data, and padding for what is beyond the data.         *)
Byte(d, k) == IF k <= Len(d) THEN d[k] ELSE 0
Join(a, b, c) == 65536 * a + 256 * b + c
Word(d, m) == Join(Byte(d, 3 * m + 1), Byte(d, 3 * m + 2), Byte(d, 3 * m + 3))

Sextet(w, r) == << (((w \div 64) \div 64) \div 64) % 64, ((w \div 64) \div 64) % 64,
                   (w \div 64) % 64, w % 64 >>[r + 1]

Symbol(d, k) == LET m == (k - 1) \div 4
                    r == (k - 1) % 4
                IN  IF r > 1 /\ 3 * m + r > Len(d) THEN Pad ELSE g_pCodes(Sextet(Word(d, m), r))

TypeOK == /\ in \in Seq(Bytes) /\ form \in {"string", "buffer"}
          /\ into \in Rooms /\ room \in Rooms
          /\ i \in 0 .. Len(in) /\ text \in Seq(0 .. 127)
          /\ n \in 0 .. Len(text) /\ breaks \in 0 .. MaxBreaks
          /\ y \in 0 .. 3 /\ t \in Nat /\ g \in 1 .. 3
          /\ out \in Seq(0 .. 255)
          /\ at \in {"call", "refused", "groups", "text", "done", "overflow"}

(* Encode writes the base64 of its data, in whichever form, and the one for  *)
(* a buffer stays inside it with the zero byte at the end, and refuses no    *)
(* buffer that is large enough.                                              *)
EncodeRight == /\ \A k \in 1 .. Len(text) : text[k] = Symbol(in, k)
               /\ at \in {"text", "done", "overflow"} => Len(text) = len2
               /\ form = "buffer" /\ at # "call" => (at = "refused" <=> into <= len2)

(* Decode gives back what was encoded: of a text that was cut, the bytes of  *)
(* its whole groups, and nothing else; line breaks make no difference.       *)
RoundTrip == /\ Len(out) <= Len(in) /\ out = SubSeq(in, 1, Len(out))
             /\ at = "done" => \/ Len(out) = 3 * (n \div 4)
                               \/ n = Len(text) /\ Len(out) = Len(in)

(* Decode stays inside the buffer, and refuses only one that is smaller than *)
(* the data.                                                                 *)
DecodeFits == Len(out) <= room /\ (at = "overflow" => room < Len(in))
=============================================================================
