--------------------------- MODULE HelpersProofs ---------------------------
(***************************************************************************)
(* For inputs, patterns, filters, addresses, paths, messages and lists of    *)
(* every length: base64.c writes the bits of its input, gives them back and  *)
(* stays in its blocks, urlcode.c encodes and decodes to the same text,      *)
(* getRegExMatch() returns the group and gives its blocks back, isMatch()    *)
(* returns the first filter that matches, the paths of utils.c lead to the   *)
(* folder, prowl.c sends the whole message, and the pointer code of list.c   *)
(* owns its heap and implements a sequence. What holds of each helper holds  *)
(* of their composition.                                                   *)
(***************************************************************************)
EXTENDS Helpers, DataLemmas

-----------------------------------------------------------------------------
(* base64.c.                                                               *)

\* The lengths that the loops keep: whole groups written, the rest in chars.
Lengths ==
    /\ pc = "idle" => pos = 0 /\ chars = <<>> /\ out = <<>>
    /\ pc = "encode" => /\ Len(chars) = pos % 3 /\ Len(out) = 4 * (pos \div 3)
                        /\ size = EncodedSize(Len(input))
    /\ pc = "encoded" => /\ size > 0 => Len(out) = 4 * ((Len(input) + 2) \div 3)
                         /\ size > 0 => size = EncodedSize(Len(input))
                         /\ size = 0 => out = <<>>
    /\ pc = "decode" => /\ Len(chars) = pos % 4 /\ Len(out) = 3 * (pos \div 4)
                        /\ size = DecodedSize(Len(input))
    /\ pc = "decoded" => Len(out) = (3 * pos) \div 4 /\ size = DecodedSize(Len(input))

BaseInv == TypeOK /\ Lengths

\* Three bytes are four places in the alphabet.
LEMMA PlacesTyped ==
    ASSUME NEW a \in Byte, NEW b \in Byte, NEW c \in Byte
    PROVE  \A j \in 1 .. 4 : char_4(a, b, c)[j] + 1 \in 1 .. 64
<1>1. /\ a \div 4 \in 0 .. 63 /\ (a % 4) * 16 + b \div 16 \in 0 .. 63
      /\ (b % 16) * 4 + c \div 64 \in 0 .. 63 /\ c % 64 \in 0 .. 63
  BY DEF Byte
<1> QED
  BY <1>1 DEF char_4

\* Four places are three bytes.
LEMMA BytesTyped ==
    ASSUME NEW a \in Byte, NEW b \in Byte, NEW c \in Byte, NEW d \in Byte
    PROVE  char_3(a, b, c, d) \in Seq(Byte) /\ Len(char_3(a, b, c, d)) = 3
<1>1. /\ (a * 4 + (b % 64) \div 16) % 256 \in Byte
      /\ ((b % 16) * 16 + (c % 64) \div 4) % 256 \in Byte
      /\ ((c % 4) * 64 + d) % 256 \in Byte
  BY DEF Byte
<1> QED
  BY <1>1 DEF char_3

\* The place of a character fits into a byte.
LEMMA FindTyped == \A c : find(c) \in Byte
BY DEF find, is_base64, Byte

\* Four characters are a sequence of them.
LEMMA FourTyped ==
    ASSUME NEW f \in [1 .. 4 -> Char]
    PROVE  f \in Seq(Char) /\ Len(f) = 4
<1>1. f \in Seq(Char)
  BY SeqDef
<1>2. 1 .. Len(f) = 1 .. 4 /\ Len(f) \in Nat
  BY <1>1, LenProperties
<1> QED
  BY <1>1, <1>2

\* Every encoding of a group is a sequence of four characters.
LEMMA GroupTyped ==
    ASSUME NEW a \in Byte, NEW b \in Byte, NEW c \in Byte, NEW n \in Nat
    PROVE  LET four == char_4(a, b, c)
               text == [j \in 1 .. 4 |-> IF j <= n THEN alphabet[four[j] + 1] ELSE "="]
           IN  text \in Seq(Char) /\ Len(text) = 4
<1> DEFINE four == char_4(a, b, c)
           text == [j \in 1 .. 4 |-> IF j <= n THEN alphabet[four[j] + 1] ELSE "="]
<1>1. \A j \in 1 .. 4 : text[j] \in Char
  BY PlacesTyped, Base64Assumption
<1>2. text \in [1 .. 4 -> Char]
  BY <1>1
<1> QED
  BY <1>2, FourTyped

\* Two sequences one behind the other.
LEMMA ConcatTyped ==
    ASSUME NEW S, NEW s \in Seq(S), NEW t \in Seq(S)
    PROVE  s \o t \in Seq(S) /\ Len(s \o t) = Len(s) + Len(t)
BY ConcatProperties

\* The first elements of a sequence.
LEMMA HeadTyped ==
    ASSUME NEW S, NEW s \in Seq(S), NEW n \in 0 .. Len(s)
    PROVE  SubSeq(s, 1, n) \in Seq(S) /\ Len(SubSeq(s, 1, n)) = n
OBVIOUS

\* Groups of four characters for the bytes.
LEMMA GroupsOfBytes ==
    ASSUME NEW p \in Nat
    PROVE  /\ p % 3 = 0 => (p + 2) \div 3 = p \div 3
           /\ p % 3 # 0 => (p + 2) \div 3 = (p \div 3) + 1
OBVIOUS

\* Bytes in whole groups of four characters and in the rest.
LEMMA BytesOfGroups ==
    ASSUME NEW p \in Nat
    PROVE  /\ p % 4 \in 0 .. 3
           /\ p % 4 = 0 => (3 * p) \div 4 = 3 * (p \div 4)
           /\ p % 4 # 0 => (3 * p) \div 4 = 3 * (p \div 4) + (p % 4) - 1
<1> DEFINE q == p \div 4
           r == p % 4
<1>1. q \in Nat /\ r \in 0 .. 3 /\ p = 4 * q + r
  OBVIOUS
<1>2. 3 * p = 4 * (3 * q) + 3 * r
  BY <1>1
<1>3. (3 * r) \div 4 \in {0, 1, 2} /\ (r = 0 => (3 * r) \div 4 = 0) /\ (r # 0 => (3 * r) \div 4 = r - 1)
  BY <1>1
<1>4. (4 * (3 * q) + 3 * r) \div 4 = 3 * q + (3 * r) \div 4
  BY <1>1
<1> QED
  BY <1>1, <1>2, <1>3, <1>4

\* The types and the lengths hold at the start.
LEMMA BaseInit == Init => BaseInv
BY DEF Init, BaseInv, TypeOK, Lengths

\* Every step keeps the types and the lengths.
LEMMA BaseStep == BaseInv /\ [Next]_vars => BaseInv'
<1> SUFFICES ASSUME BaseInv, [Next]_vars PROVE BaseInv'
  OBVIOUS
<1> USE DEF BaseInv
<1>1. ASSUME NEW in \in Inputs, base64_encode(in) PROVE BaseInv'
  <2>1. in \in Seq(Byte) /\ EncodedSize(Len(in)) \in Nat
    BY Base64Assumption DEF EncodedSize
  <2> QED
    BY <1>1, <2>1 DEF base64_encode, TypeOK, Lengths
<1>2. CASE EncodeByte
  <2> DEFINE three == Append(chars, input[pos + 1])
  <2>1. /\ three \in Seq(Byte) /\ Len(three) = (pos % 3) + 1 /\ pos + 1 \in 1 .. Len(input)
        /\ pos \in Nat /\ input \in Seq(Byte) /\ out \in Seq(Char) /\ Len(out) = 4 * (pos \div 3)
    <3>1. /\ pos < Len(input) /\ pos \in 0 .. Len(input) /\ input \in Seq(Byte)
          /\ chars \in Seq(Byte) /\ out \in Seq(Char) /\ Len(chars) = pos % 3
          /\ Len(out) = 4 * (pos \div 3)
      BY <1>2 DEF EncodeByte, TypeOK, Lengths
    <3>2. pos \in Nat /\ pos + 1 \in 1 .. Len(input)
      BY <3>1
    <3>3. input[pos + 1] \in Byte
      BY <3>1, <3>2
    <3> QED
      BY <3>1, <3>2, <3>3, AppendProperties
  <2>2. CASE Len(three) < 3
    <3>1. chars' = three /\ out' = out /\ pos' = pos + 1
      BY <1>2, <2>2 DEF EncodeByte
    <3>2. (pos + 1) % 3 = (pos % 3) + 1 /\ (pos + 1) \div 3 = pos \div 3
      BY <2>1, <2>2
    <3>3. pc = "encode" /\ UNCHANGED <<pc, input, size, original>> /\ size = EncodedSize(Len(input)) /\ size \in Nat
      BY <1>2 DEF EncodeByte, Lengths, TypeOK
    <3>4. TypeOK'
      <4>1. pos + 1 \in 0 .. Len(input)
        BY <2>1
      <4> QED
        BY <2>1, <3>1, <3>3, <4>1 DEF TypeOK
    <3>5. Lengths'
      BY <2>1, <3>1, <3>2, <3>3 DEF Lengths
    <3> QED
      BY <3>4, <3>5
  <2>3. CASE ~(Len(three) < 3)
    <3> DEFINE four == char_4(three[1], three[2], three[3])
               text == [j \in 1 .. 4 |-> alphabet[four[j] + 1]]
    <3>1. chars' = <<>> /\ out' = out \o text /\ pos' = pos + 1
      BY <1>2, <2>3 DEF EncodeByte
    <3>2. three[1] \in Byte /\ three[2] \in Byte /\ three[3] \in Byte
      BY <2>1, <2>3
    <3>3. text \in Seq(Char) /\ Len(text) = 4
      <4>1. \A j \in 1 .. 4 : alphabet[four[j] + 1] \in Char
        BY <3>2, PlacesTyped, Base64Assumption
      <4>2. text \in [1 .. 4 -> Char]
        BY <4>1
      <4> QED
        BY <4>2, FourTyped
    <3>4. (pos + 1) % 3 = 0 /\ (pos + 1) \div 3 = pos \div 3 + 1
      BY <2>1, <2>3
    <3>5. out' \in Seq(Char) /\ Len(out') = Len(out) + 4
      BY <2>1, <3>1, <3>3, ConcatTyped, ZenonT(60)
    <3>6. pc = "encode" /\ UNCHANGED <<pc, input, size, original>> /\ size = EncodedSize(Len(input)) /\ size \in Nat
      BY <1>2 DEF EncodeByte, Lengths, TypeOK
    <3>7. chars' \in Seq(Byte) /\ Len(chars') = 0
      BY <3>1
    <3>8. TypeOK'
      <4>1. pos + 1 \in 0 .. Len(input)
        BY <2>1
      <4> QED
        BY <2>1, <3>1, <3>5, <3>6, <3>7, <4>1 DEF TypeOK
    <3>9. Lengths'
      BY <2>1, <3>1, <3>4, <3>5, <3>6, <3>7 DEF Lengths
    <3> QED
      BY <3>8, <3>9
  <2> QED
    BY <2>2, <2>3
<1>3. CASE EncodeRest
  <2> DEFINE i == Len(chars)
             three == chars \o <<0, 0, 0>>
             four == char_4(three[1], three[2], three[3])
             text == [j \in 1 .. 4 |-> IF j <= i + 1 THEN alphabet[four[j] + 1] ELSE "="]
  <2>1. /\ chars \in Seq(Byte) /\ i = pos % 3 /\ pos = Len(input) /\ pos \in Nat
        /\ input \in Seq(Byte) /\ out \in Seq(Char) /\ Len(out) = 4 * (pos \div 3)
        /\ pc' = "encoded" /\ chars' = <<>> /\ UNCHANGED <<input, pos, size, original>>
        /\ out' = IF i = 0 THEN out ELSE out \o text
    BY <1>3 DEF EncodeRest, TypeOK, Lengths
  <2>2. three[1] \in Byte /\ three[2] \in Byte /\ three[3] \in Byte
    <3>1. <<0, 0, 0>> \in Seq(Byte)
      BY SMTT(30) DEF Byte
    <3>2. three \in Seq(Byte) /\ Len(three) >= 3
      BY <2>1, <3>1
    <3> QED
      BY <3>2
  <2>3. text \in Seq(Char) /\ Len(text) = 4
    <3>1. i + 1 \in Nat
      BY <2>1, SMTT(60)
    <3>2. \A n \in Nat : LET g == [j \in 1 .. 4 |-> IF j <= n THEN alphabet[four[j] + 1] ELSE "="]
                        IN  g \in Seq(Char) /\ Len(g) = 4
      BY <2>2, GroupTyped
    <3> QED
      BY <3>1, <3>2
  <2>4. out' \in Seq(Char) /\ Len(out') = 4 * ((Len(input) + 2) \div 3)
    <3>1. CASE i = 0
      BY <2>1, <3>1, GroupsOfBytes
    <3>2. CASE i # 0
      <4>1. out' \in Seq(Char) /\ Len(out') = Len(out) + 4
        BY <2>1, <2>3, <3>2, ConcatTyped
      <4>2. (pos + 2) \div 3 = (pos \div 3) + 1
        BY <2>1, <3>2, GroupsOfBytes, SMTT(30)
      <4>3. Len(out) = 4 * (pos \div 3) /\ pos = Len(input) /\ pos \div 3 \in Nat
        BY <2>1
      <4> QED
        BY <4>1, <4>2, <4>3
    <3> QED
      BY <3>1, <3>2
  <2>5. size = EncodedSize(Len(input)) /\ size \in Nat /\ size > 0
    <3>1. size = EncodedSize(Len(input)) /\ Len(input) \in Nat
      BY <1>3, <2>1, Zenon DEF EncodeRest, Lengths
    <3>2. \A n \in Nat : EncodedSize(n) \in Nat /\ EncodedSize(n) > 0
      BY SMTT(30) DEF EncodedSize
    <3> QED
      BY <3>1, <3>2, Zenon
  <2>6. pos \in 0 .. Len(input) /\ chars' \in Seq(Byte)
    BY <2>1, SMTT(30)
  <2>7. TypeOK'
    BY <2>1, <2>4, <2>5, <2>6, Zenon DEF TypeOK
  <2>8. Lengths'
    <3>1. pc' = "encoded" /\ input' = input /\ size' = size
      BY <2>1
    <3>2. Len(out') = 4 * ((Len(input') + 2) \div 3)
      BY <2>4, <3>1
    <3>3. size' = EncodedSize(Len(input')) /\ ~(size' = 0)
      BY <2>5, <3>1
    <3> QED
      BY <3>1, <3>2, <3>3, Zenon DEF Lengths
  <2> QED
    BY <2>7, <2>8
<1>4. ASSUME NEW text \in Seq(Char), NEW bytes \in Seq(Byte), base64_decode(text, bytes)
      PROVE  BaseInv'
  <2>1. DecodedSize(Len(text)) \in Nat
    BY DEF DecodedSize
  <2>2. /\ pc' = "decode" /\ input' = text /\ size' = DecodedSize(Len(text)) /\ original' = bytes
        /\ pos' = 0 /\ chars' = <<>> /\ out' = <<>>
    BY <1>4 DEF base64_decode
  <2>3. TypeOK'
    BY <2>1, <2>2 DEF TypeOK
  <2>4. Lengths'
    BY <2>2 DEF Lengths
  <2> QED
    BY <2>3, <2>4
<1>5. CASE DecodeChar
  <2> DEFINE four == Append(chars, input[pos + 1])
  <2>1. /\ four \in Seq(Char) /\ Len(four) = (pos % 4) + 1 /\ pos + 1 \in 1 .. Len(input)
        /\ pos \in Nat /\ input \in Seq(Char) /\ out \in Seq(Byte) /\ Len(out) = 3 * (pos \div 4)
    <3>1. /\ pos < Len(input) /\ pos \in 0 .. Len(input) /\ input \in Seq(Char)
          /\ chars \in Seq(Char) /\ out \in Seq(Byte) /\ Len(chars) = pos % 4
          /\ Len(out) = 3 * (pos \div 4)
      BY <1>5 DEF DecodeChar, MoreToDecode, TypeOK, Lengths
    <3>2. pos \in Nat /\ pos + 1 \in 1 .. Len(input)
      BY ONLY <3>1, SMTT(30)
    <3>3. input[pos + 1] \in Char
      BY <3>1, <3>2
    <3> QED
      BY <3>1, <3>2, <3>3, AppendProperties
  <2>2. CASE Len(four) < 4
    <3>1. chars' = four /\ out' = out /\ pos' = pos + 1
      BY <1>5, <2>2 DEF DecodeChar
    <3>2. (pos + 1) % 4 = (pos % 4) + 1 /\ (pos + 1) \div 4 = pos \div 4
      BY <2>1, <2>2
    <3>3. /\ pc = "decode" /\ UNCHANGED <<pc, input, size, original>>
          /\ size = DecodedSize(Len(input)) /\ original \in Seq(Byte) /\ size \in Nat
      BY <1>5 DEF DecodeChar, Lengths, TypeOK
    <3>4. TypeOK'
      <4>1. pos + 1 \in 0 .. Len(input)
        BY <2>1
      <4> QED
        BY <2>1, <3>1, <3>3, <4>1 DEF TypeOK
    <3>5. Lengths'
      BY <2>1, <3>1, <3>2, <3>3 DEF Lengths
    <3> QED
      BY <3>4, <3>5
  <2>3. CASE ~(Len(four) < 4)
    <3> DEFINE three == char_3(find(four[1]), find(four[2]), find(four[3]), find(four[4]))
    <3>1. chars' = <<>> /\ out' = out \o three /\ pos' = pos + 1
      BY <1>5, <2>3 DEF DecodeChar
    <3>2. three \in Seq(Byte) /\ Len(three) = 3
      BY BytesTyped, FindTyped
    <3>3. (pos + 1) % 4 = 0 /\ (pos + 1) \div 4 = pos \div 4 + 1
      BY <2>1, <2>3
    <3>4. out' \in Seq(Byte) /\ Len(out') = Len(out) + 3
      BY <2>1, <3>1, <3>2, ConcatTyped, ZenonT(60)
    <3>5. /\ pc = "decode" /\ UNCHANGED <<pc, input, size, original>>
          /\ size = DecodedSize(Len(input)) /\ original \in Seq(Byte) /\ size \in Nat
      BY <1>5 DEF DecodeChar, Lengths, TypeOK
    <3>6. chars' \in Seq(Char) /\ Len(chars') = 0
      BY <3>1
    <3>7. TypeOK'
      <4>1. pos + 1 \in 0 .. Len(input)
        BY <2>1
      <4> QED
        BY <2>1, <3>1, <3>4, <3>5, <3>6, <4>1 DEF TypeOK
    <3>8. Lengths'
      BY <2>1, <3>1, <3>3, <3>4, <3>5, <3>6 DEF Lengths
    <3> QED
      BY <3>7, <3>8
  <2> QED
    BY <2>2, <2>3
<1>6. CASE DecodeRest
  <2> DEFINE i == Len(chars)
             four == chars \o <<NUL, NUL, NUL, NUL>>
             three == char_3(find(four[1]), find(four[2]), find(four[3]), find(four[4]))
  <2>1. /\ i = pos % 4 /\ pos \in Nat /\ out \in Seq(Byte) /\ Len(out) = 3 * (pos \div 4)
        /\ pc' = "decoded" /\ chars' = <<>> /\ UNCHANGED <<input, pos, size, original>>
        /\ out' = IF i = 0 THEN out ELSE out \o SubSeq(three, 1, i - 1)
    BY <1>6 DEF DecodeRest, TypeOK, Lengths
  <2>2. three \in Seq(Byte) /\ Len(three) = 3
    BY BytesTyped, FindTyped
  <2>3. i # 0 => SubSeq(three, 1, i - 1) \in Seq(Byte) /\ Len(SubSeq(three, 1, i - 1)) = i - 1
    <3>1. i # 0 => i - 1 \in 0 .. 3
      BY <2>1, BytesOfGroups
    <3> QED
      BY <2>2, <3>1, HeadTyped
  <2>4. out' \in Seq(Byte) /\ Len(out') = (3 * pos) \div 4
    <3>1. CASE i = 0
      BY <2>1, <3>1, BytesOfGroups
    <3>2. CASE i # 0
      <4>1. out' \in Seq(Byte) /\ Len(out') = Len(out) + i - 1
        BY <2>1, <2>3, <3>2, ConcatTyped
      <4> QED
        BY <2>1, <3>2, <4>1, BytesOfGroups
    <3> QED
      BY <3>1, <3>2
  <2>5. /\ pos \in 0 .. Len(input) /\ size \in Nat /\ input \in Seq(Char) /\ original \in Seq(Byte)
        /\ size = DecodedSize(Len(input))
    BY <1>6 DEF DecodeRest, TypeOK, Lengths
  <2>6. chars' \in Seq(Char)
    BY <2>1
  <2> QED
    BY <2>1, <2>4, <2>5, <2>6 DEF TypeOK, Lengths
<1>7. CASE Release
  BY <1>7 DEF Release, TypeOK, Lengths
<1>8. CASE UNCHANGED vars
  BY <1>8 DEF vars, TypeOK, Lengths
<1>9. CASE DecodeText
  <2>1. PICK text \in Texts : base64_decode(text, <<>>)
    BY <1>9 DEF DecodeText
  <2>2. text \in Seq(Char) /\ <<>> \in Seq(Byte)
    BY Base64Assumption
  <2> QED
    BY <1>4, <2>1, <2>2
<1>10. CASE DecodeEncoded
  BY <1>4, <1>10 DEF DecodeEncoded, TypeOK
<1> QED
  BY <1>1, <1>2, <1>3, <1>5, <1>6, <1>7, <1>8, <1>9, <1>10 DEF Next

\* base64_encode() turns bytes into characters and base64_decode() characters into bytes, whatever
\* the text: TypeOK for inputs of every length.
THEOREM EncodingsTypeCorrect == Spec => []TypeOK
<1>1. BaseInv => TypeOK
  BY DEF BaseInv
<1> QED
  BY BaseInit, BaseStep, <1>1, PTL DEF Spec

\* The lengths fit the blocks.
LEMMA LengthsFit == BaseInv => WritesFit
<1>1. ASSUME BaseInv, pc = "encoded", size > 0 PROVE Len(out) + 1 <= size
  BY <1>1 DEF BaseInv, TypeOK, Lengths, EncodedSize
<1>2. ASSUME BaseInv, pc = "decoded" PROVE Len(out) + 1 <= size \/ (pos = Len(input) /\ pos % 4 = 3)
  <2>1. /\ Len(input) \in Nat /\ pos \in 0 .. Len(input) /\ Len(out) = (3 * pos) \div 4
        /\ size = 3 * (Len(input) \div 4) + 2
    BY <1>2 DEF BaseInv, TypeOK, Lengths, DecodedSize
  <2> QED
    BY <2>1
<1> QED
  BY <1>1, <1>2 DEF WritesFit

\* No byte is written behind the block that base64_encode() or base64_decode() allocated, but for
\* texts whose last group is three characters and not padded: WritesFit for every length.
THEOREM EncodingsStayInBlock == Spec => []WritesFit
<1> QED
  BY BaseInit, BaseStep, LengthsFit, PTL DEF Spec

-----------------------------------------------------------------------------
(* The bits that base64.c moves, and the text that comes out.              *)

\* Bit e of one number of w bits.
BitOf(x, w, e) == (x \div 2^(w - 1 - e)) % 2

\* The bits of a byte, and of a place in the alphabet.
LEMMA BitsOfByte ==
    ASSUME NEW x \in Byte
    PROVE  /\ BitOf(x, 8, 0) = (x \div 128) % 2 /\ BitOf(x, 8, 1) = (x \div 64) % 2
           /\ BitOf(x, 8, 2) = (x \div 32) % 2 /\ BitOf(x, 8, 3) = (x \div 16) % 2
           /\ BitOf(x, 8, 4) = (x \div 8) % 2 /\ BitOf(x, 8, 5) = (x \div 4) % 2
           /\ BitOf(x, 8, 6) = (x \div 2) % 2 /\ BitOf(x, 8, 7) = x % 2
BY DEF BitOf, Byte

LEMMA BitsOfPlace ==
    ASSUME NEW x \in 0 .. 63
    PROVE  /\ BitOf(x, 6, 0) = (x \div 32) % 2 /\ BitOf(x, 6, 1) = (x \div 16) % 2
           /\ BitOf(x, 6, 2) = (x \div 8) % 2 /\ BitOf(x, 6, 3) = (x \div 4) % 2
           /\ BitOf(x, 6, 4) = (x \div 2) % 2 /\ BitOf(x, 6, 5) = x % 2
BY DEF BitOf

\* The three bytes of four places, each of two of them.
First(p, q) == (p * 4 + (q % 64) \div 16) % 256
Second(p, q) == ((p % 16) * 16 + (q % 64) \div 4) % 256
Third(p, q) == ((p % 4) * 64 + q) % 256

\* Their bits are those of the places.
LEMMA BitsOfFirst ==
    ASSUME NEW p \in 0 .. 63, NEW q \in 0 .. 63, NEW e \in 0 .. 7
    PROVE  BitOf(First(p, q), 8, e) = IF e < 6 THEN BitOf(p, 6, e) ELSE BitOf(q, 6, e - 6)
<1> PICK x : x = First(p, q)
  OBVIOUS
<1>0. x = (p * 4 + (q % 64) \div 16) % 256
  BY DEF First
<1>1. x \in Byte
  BY <1>0 DEF Byte
<1>2. /\ (x \div 128) % 2 = (p \div 32) % 2 /\ (x \div 64) % 2 = (p \div 16) % 2
      /\ (x \div 32) % 2 = (p \div 8) % 2 /\ (x \div 16) % 2 = (p \div 4) % 2
      /\ (x \div 8) % 2 = (p \div 2) % 2 /\ (x \div 4) % 2 = p % 2
      /\ (x \div 2) % 2 = (q \div 32) % 2 /\ x % 2 = (q \div 16) % 2
  <2> PICK l : l = q \div 16
    OBVIOUS
  <2>1. l \in 0 .. 3 /\ x = p * 4 + l
    BY <1>0
  <2>2. (q \div 32) % 2 = l \div 2 /\ (q \div 16) % 2 = l % 2
    OBVIOUS
  <2>3. (x \div 2) % 2 = l \div 2 /\ x % 2 = l % 2 /\ x \div 4 = p
    BY <2>1
  <2>4. /\ x \div 128 = (x \div 4) \div 32 /\ x \div 64 = (x \div 4) \div 16
        /\ x \div 32 = (x \div 4) \div 8 /\ x \div 16 = (x \div 4) \div 4
        /\ x \div 8 = (x \div 4) \div 2
    BY <1>1 DEF Byte
  <2> QED
    BY ONLY <2>2, <2>3, <2>4
<1>3. e \in {0, 1, 2, 3, 4, 5, 6, 7}
  OBVIOUS
<1>4. BitOf(x, 8, e) = IF e < 6 THEN BitOf(p, 6, e) ELSE BitOf(q, 6, e - 6)
  BY ONLY <1>1, <1>2, <1>3, p \in 0 .. 63, q \in 0 .. 63, BitsOfByte, BitsOfPlace
<1> QED
  BY <1>4

LEMMA BitsOfSecond ==
    ASSUME NEW p \in 0 .. 63, NEW q \in 0 .. 63, NEW e \in 0 .. 7
    PROVE  BitOf(Second(p, q), 8, e) = IF e < 4 THEN BitOf(p, 6, e + 2) ELSE BitOf(q, 6, e - 4)
<1> PICK x : x = Second(p, q)
  OBVIOUS
<1>0. x = ((p % 16) * 16 + (q % 64) \div 4) % 256
  BY DEF Second
<1>1. x \in Byte
  BY <1>0 DEF Byte
<1>2. /\ (x \div 128) % 2 = (p \div 8) % 2 /\ (x \div 64) % 2 = (p \div 4) % 2
      /\ (x \div 32) % 2 = (p \div 2) % 2 /\ (x \div 16) % 2 = p % 2
      /\ (x \div 8) % 2 = (q \div 32) % 2 /\ (x \div 4) % 2 = (q \div 16) % 2
      /\ (x \div 2) % 2 = (q \div 8) % 2 /\ x % 2 = (q \div 4) % 2
  <2> PICK h, l : h = p % 16 /\ l = q \div 4
    OBVIOUS
  <2>1. h \in 0 .. 15 /\ l \in 0 .. 15 /\ x = h * 16 + l
    BY <1>0
  <2>2. x \div 16 = h /\ x % 16 = l
    BY ONLY <2>1
  <2>3. /\ (p \div 8) % 2 = (h \div 8) % 2 /\ (p \div 4) % 2 = (h \div 4) % 2
        /\ (p \div 2) % 2 = (h \div 2) % 2 /\ p % 2 = h % 2
    OBVIOUS
  <2>4. /\ (q \div 32) % 2 = (l \div 8) % 2 /\ (q \div 16) % 2 = (l \div 4) % 2
        /\ (q \div 8) % 2 = (l \div 2) % 2 /\ (q \div 4) % 2 = l % 2
    OBVIOUS
  <2>5. /\ x \div 128 = (x \div 16) \div 8 /\ x \div 64 = (x \div 16) \div 4
        /\ x \div 32 = (x \div 16) \div 2
    BY ONLY <1>1 DEF Byte
  <2>6. /\ (x \div 8) % 2 = ((x % 16) \div 8) % 2 /\ (x \div 4) % 2 = ((x % 16) \div 4) % 2
        /\ (x \div 2) % 2 = ((x % 16) \div 2) % 2 /\ x % 2 = (x % 16) % 2
    BY ONLY <1>1 DEF Byte
  <2> QED
    BY ONLY <2>2, <2>3, <2>4, <2>5, <2>6
<1>3. e \in {0, 1, 2, 3, 4, 5, 6, 7}
  OBVIOUS
<1>4. BitOf(x, 8, e) = IF e < 4 THEN BitOf(p, 6, e + 2) ELSE BitOf(q, 6, e - 4)
  <2>1. CASE e \in {0, 1, 2, 3}
    BY ONLY <1>1, <1>2, <2>1, p \in 0 .. 63, BitsOfByte, BitsOfPlace, SMTT(60)
  <2>2. CASE e \in {4, 5, 6, 7}
    <3>1. /\ BitOf(x, 8, 4) = BitOf(q, 6, 0) /\ BitOf(x, 8, 5) = BitOf(q, 6, 1)
          /\ BitOf(x, 8, 6) = BitOf(q, 6, 2) /\ BitOf(x, 8, 7) = BitOf(q, 6, 3)
      <4>1. /\ BitOf(x, 8, 4) = (x \div 8) % 2 /\ BitOf(x, 8, 5) = (x \div 4) % 2
            /\ BitOf(x, 8, 6) = (x \div 2) % 2 /\ BitOf(x, 8, 7) = x % 2
        BY ONLY <1>1, BitsOfByte
      <4>2. /\ BitOf(q, 6, 0) = (q \div 32) % 2 /\ BitOf(q, 6, 1) = (q \div 16) % 2
            /\ BitOf(q, 6, 2) = (q \div 8) % 2 /\ BitOf(q, 6, 3) = (q \div 4) % 2
        BY ONLY q \in 0 .. 63, BitsOfPlace
      <4> QED
        BY ONLY <1>2, <4>1, <4>2
    <3>2. ~(e < 4) /\ e - 4 \in {0, 1, 2, 3} /\ e = (e - 4) + 4
      BY ONLY <2>2
    <3> QED
      BY ONLY <2>2, <3>1, <3>2
  <2> QED
    BY <1>3, <2>1, <2>2
<1> QED
  BY <1>4

LEMMA BitsOfThird ==
    ASSUME NEW p \in 0 .. 63, NEW q \in 0 .. 63, NEW e \in 0 .. 7
    PROVE  BitOf(Third(p, q), 8, e) = IF e < 2 THEN BitOf(p, 6, e + 4) ELSE BitOf(q, 6, e - 2)
<1> PICK x : x = Third(p, q)
  OBVIOUS
<1>0. x = ((p % 4) * 64 + q) % 256
  BY DEF Third
<1>1. x \in Byte
  BY <1>0 DEF Byte
<1>2. /\ (x \div 128) % 2 = (p \div 2) % 2 /\ (x \div 64) % 2 = p % 2
      /\ (x \div 32) % 2 = (q \div 32) % 2 /\ (x \div 16) % 2 = (q \div 16) % 2
      /\ (x \div 8) % 2 = (q \div 8) % 2 /\ (x \div 4) % 2 = (q \div 4) % 2
      /\ (x \div 2) % 2 = (q \div 2) % 2 /\ x % 2 = q % 2
  <2> PICK h : h = p % 4
    OBVIOUS
  <2>1. h \in 0 .. 3 /\ x = h * 64 + q
    BY <1>0
  <2>2. x \div 64 = h /\ x % 64 = q
    BY <2>1
  <2>3. (p \div 2) % 2 = (h \div 2) % 2 /\ p % 2 = h % 2
    OBVIOUS
  <2>4. x \div 128 = (x \div 64) \div 2
    BY ONLY <1>1 DEF Byte
  <2>5. /\ (x \div 32) % 2 = ((x % 64) \div 32) % 2 /\ (x \div 16) % 2 = ((x % 64) \div 16) % 2
        /\ (x \div 8) % 2 = ((x % 64) \div 8) % 2
    BY ONLY <1>1 DEF Byte
  <2>6. /\ (x \div 4) % 2 = ((x % 64) \div 4) % 2 /\ (x \div 2) % 2 = ((x % 64) \div 2) % 2
        /\ x % 2 = (x % 64) % 2
    BY ONLY <1>1 DEF Byte
  <2> QED
    BY ONLY <2>2, <2>3, <2>4, <2>5, <2>6
<1>3. e \in {0, 1, 2, 3, 4, 5, 6, 7}
  OBVIOUS
<1>4. BitOf(x, 8, e) = IF e < 2 THEN BitOf(p, 6, e + 4) ELSE BitOf(q, 6, e - 2)
  BY ONLY <1>1, <1>2, <1>3, p \in 0 .. 63, q \in 0 .. 63, BitsOfByte, BitsOfPlace
<1> QED
  BY <1>4

\* The bits of three bytes are those of their four places.
LEMMA BitsOfPlaces ==
    ASSUME NEW a \in Byte, NEW b \in Byte, NEW c \in Byte, NEW e \in 0 .. 5
    PROVE  LET four == char_4(a, b, c)
           IN  /\ BitOf(four[1], 6, e) = BitOf(a, 8, e)
               /\ BitOf(four[2], 6, e) = IF e < 2 THEN BitOf(a, 8, e + 6) ELSE BitOf(b, 8, e - 2)
               /\ BitOf(four[3], 6, e) = IF e < 4 THEN BitOf(b, 8, e + 4) ELSE BitOf(c, 8, e - 4)
               /\ BitOf(four[4], 6, e) = BitOf(c, 8, e + 2)
<1> PICK w, x, y, z : w = a \div 4 /\ x = (a % 4) * 16 + b \div 16 /\ y = (b % 16) * 4 + c \div 64 /\ z = c % 64
  OBVIOUS
<1>1. w \in 0 .. 63 /\ x \in 0 .. 63 /\ y \in 0 .. 63 /\ z \in 0 .. 63
  BY DEF Byte
<1>2. e \in {0, 1, 2, 3, 4, 5}
  OBVIOUS
<1>3. BitOf(w, 6, e) = BitOf(a, 8, e)
  <2>1. /\ (w \div 32) % 2 = (a \div 128) % 2 /\ (w \div 16) % 2 = (a \div 64) % 2
        /\ (w \div 8) % 2 = (a \div 32) % 2 /\ (w \div 4) % 2 = (a \div 16) % 2
        /\ (w \div 2) % 2 = (a \div 8) % 2 /\ w % 2 = (a \div 4) % 2
    BY SMTT(60) DEF Byte
  <2> QED
    BY <1>1, <1>2, <2>1, BitsOfByte, BitsOfPlace
<1>4. BitOf(x, 6, e) = IF e < 2 THEN BitOf(a, 8, e + 6) ELSE BitOf(b, 8, e - 2)
  <2>1. /\ (x \div 32) % 2 = (a \div 2) % 2 /\ (x \div 16) % 2 = a % 2
        /\ (x \div 8) % 2 = (b \div 128) % 2 /\ (x \div 4) % 2 = (b \div 64) % 2
        /\ (x \div 2) % 2 = (b \div 32) % 2 /\ x % 2 = (b \div 16) % 2
    BY SMTT(60) DEF Byte
  <2> QED
    BY <1>1, <1>2, <2>1, BitsOfByte, BitsOfPlace
<1>5. BitOf(y, 6, e) = IF e < 4 THEN BitOf(b, 8, e + 4) ELSE BitOf(c, 8, e - 4)
  <2>1. /\ (y \div 32) % 2 = (b \div 8) % 2 /\ (y \div 16) % 2 = (b \div 4) % 2
        /\ (y \div 8) % 2 = (b \div 2) % 2 /\ (y \div 4) % 2 = b % 2
        /\ (y \div 2) % 2 = (c \div 128) % 2 /\ y % 2 = (c \div 64) % 2
    <3> PICK h, l : h = b % 16 /\ l = c \div 64
      OBVIOUS
    <3>1. h \in 0 .. 15 /\ l \in 0 .. 3 /\ y = h * 4 + l
      BY DEF Byte
    <3>2. y \div 4 = h /\ y % 4 = l
      BY ONLY <3>1
    <3>3. /\ (b \div 8) % 2 = (h \div 8) % 2 /\ (b \div 4) % 2 = (h \div 4) % 2
          /\ (b \div 2) % 2 = (h \div 2) % 2 /\ b % 2 = h % 2
      BY DEF Byte
    <3>4. (c \div 128) % 2 = (l \div 2) % 2 /\ (c \div 64) % 2 = l % 2
      BY DEF Byte
    <3>5. y \div 32 = (y \div 4) \div 8 /\ y \div 16 = (y \div 4) \div 4 /\ y \div 8 = (y \div 4) \div 2
      BY ONLY <1>1
    <3>6. (y \div 2) % 2 = ((y % 4) \div 2) % 2 /\ y % 2 = (y % 4) % 2
      BY ONLY <1>1
    <3> QED
      BY ONLY <3>2, <3>3, <3>4, <3>5, <3>6
  <2> QED
    BY <1>1, <1>2, <2>1, BitsOfByte, BitsOfPlace
<1>6. BitOf(z, 6, e) = BitOf(c, 8, e + 2)
  <2>1. /\ (z \div 32) % 2 = (c \div 32) % 2 /\ (z \div 16) % 2 = (c \div 16) % 2
        /\ (z \div 8) % 2 = (c \div 8) % 2 /\ (z \div 4) % 2 = (c \div 4) % 2
        /\ (z \div 2) % 2 = (c \div 2) % 2 /\ z % 2 = c % 2
    BY SMTT(60) DEF Byte
  <2> QED
    BY <1>1, <1>2, <2>1, BitsOfByte, BitsOfPlace
<1>7. LET four == char_4(a, b, c) IN four[1] = w /\ four[2] = x /\ four[3] = y /\ four[4] = z
  BY DEF char_4
<1> QED
  BY <1>3, <1>4, <1>5, <1>6, <1>7, Zenon

\* Where a bit of a sequence is.
LEMMA BitAt ==
    ASSUME NEW s, NEW m \in Nat
    PROVE  /\ \A e \in 0 .. 7 : Bit(s, 8, 8 * m + e) = IF m < Len(s) THEN BitOf(s[m + 1], 8, e) ELSE 0
           /\ \A e \in 0 .. 5 : Bit(s, 6, 6 * m + e) = IF m < Len(s) THEN BitOf(s[m + 1], 6, e) ELSE 0
<1>1. \A e \in 0 .. 7 : (8 * m + e) \div 8 = m /\ (8 * m + e) % 8 = e
  OBVIOUS
<1>2. \A e \in 0 .. 5 : (6 * m + e) \div 6 = m /\ (6 * m + e) % 6 = e
  OBVIOUS
<1>3. ASSUME NEW e \in 0 .. 7
      PROVE  Bit(s, 8, 8 * m + e) = IF m < Len(s) THEN BitOf(s[m + 1], 8, e) ELSE 0
  BY <1>1, Zenon DEF Bit, BitOf
<1>4. ASSUME NEW e \in 0 .. 5
      PROVE  Bit(s, 6, 6 * m + e) = IF m < Len(s) THEN BitOf(s[m + 1], 6, e) ELSE 0
  BY <1>2, Zenon DEF Bit, BitOf
<1> QED
  BY <1>3, <1>4

\* The alphabet has a character in one place only, and no padding.
LEMMA FindBack ==
    /\ \A p \in 0 .. 63 : is_base64(alphabet[p + 1]) /\ find(alphabet[p + 1]) = p
    /\ \A c : is_base64(c) => find(c) \in 0 .. 63
    /\ ~is_base64("=")
<1>1. \A i, j \in 1 .. 64 : alphabet[i] = alphabet[j] => i = j
  BY DEF alphabet
<1>2. ~is_base64("=")
  BY DEF is_base64, alphabet
<1>3. ASSUME NEW p \in 0 .. 63 PROVE is_base64(alphabet[p + 1]) /\ find(alphabet[p + 1]) = p
  <2> PICK c : c = alphabet[p + 1]
    OBVIOUS
  <2>1. p + 1 \in 1 .. 64
    OBVIOUS
  <2>2. is_base64(c)
    BY <2>1 DEF is_base64
  <2>3. (CHOOSE i \in 1 .. 64 : alphabet[i] = c) = p + 1
    BY <1>1, <2>1
  <2>4. find(c) = (p + 1) - 1
    BY <2>2, <2>3, Zenon DEF find
  <2> QED
    BY <2>2, <2>4
<1>4. ASSUME NEW c, is_base64(c) PROVE find(c) \in 0 .. 63
  BY <1>4 DEF find, is_base64
<1> QED
  BY <1>2, <1>3, <1>4

\* The places of group g, from 0, of the input, zeros behind its end; the bytes of group g of a text.
At(s, k) == IF k <= Len(s) THEN s[k] ELSE 0
Six(in, g) == char_4(At(in, 3 * g + 1), At(in, 3 * g + 2), At(in, 3 * g + 3))
Three(text, g) == char_3(find(text[4 * g + 1]), find(text[4 * g + 2]), find(text[4 * g + 3]), find(text[4 * g + 4]))

\* The text of the first q groups, and of a whole input.
SixesOf(text, in, q) == \A g \in 0 .. q - 1 : \A j \in 1 .. 4 : text[4 * g + j] = alphabet[Six(in, g)[j] + 1]
Encoding(text, in) ==
    /\ Len(text) = 4 * ((Len(in) + 2) \div 3)
    /\ \A g \in 0 .. ((Len(in) + 2) \div 3) - 1 : \A j \in 1 .. 4 :
          text[4 * g + j] = IF j <= Len(in) - 3 * g + 1 THEN alphabet[Six(in, g)[j] + 1] ELSE "="

\* The bytes of the first q groups, and of those of which a part was read.
BytesOf(bytes, text, q) == \A g \in 0 .. q - 1 : \A j \in 1 .. 3 : bytes[3 * g + j] = Three(text, g)[j]
Decoding(bytes, text, q) ==
    \A g \in 0 .. q : \A j \in 1 .. 3 : 3 * g + j <= Len(bytes) => bytes[3 * g + j] = Three(text, g)[j]

\* The characters that wait are those behind the first m.
Waits(c, in, m) == \A i \in 1 .. Len(c) : c[i] = in[m + i]

\* u is the m elements of s and the n elements of t.
Behind(u, s, m, t, n) == (\A k \in 1 .. m : u[k] = s[k]) /\ \A k \in 1 .. n : u[m + k] = t[k]

\* Of a concatenation.
LEMMA ConcatAt ==
    ASSUME NEW S, NEW s \in Seq(S), NEW t \in Seq(S), NEW m, m = Len(s), NEW n, n = Len(t)
    PROVE  s \o t \in Seq(S) /\ Len(s \o t) = m + n /\ Behind(s \o t, s, m, t, n)
BY DEF Behind

\* One more group is encoded, or decoded.
LEMMA SixesMore ==
    ASSUME NEW u, NEW s, NEW q \in Nat, NEW t, Behind(u, s, 4 * q, t, 4),
           NEW in, SixesOf(s, in, q), \A j \in 1 .. 4 : t[j] = alphabet[Six(in, q)[j] + 1]
    PROVE  SixesOf(u, in, q + 1)
<1> SUFFICES ASSUME NEW g \in 0 .. q, NEW j \in 1 .. 4
             PROVE  u[4 * g + j] = alphabet[Six(in, g)[j] + 1]
  BY (q + 1) - 1 = q DEF SixesOf
<1>1. CASE g = q
  BY <1>1, Zenon DEF Behind
<1>2. CASE g # q
  <2>1. g \in 0 .. q - 1 /\ 4 * g + j \in 1 .. 4 * q
    BY <1>2
  <2> QED
    BY <2>1, SMTT(60) DEF SixesOf, Behind
<1> QED
  BY <1>1, <1>2

LEMMA BytesMore ==
    ASSUME NEW u, NEW s, NEW q \in Nat, NEW t, Behind(u, s, 3 * q, t, 3),
           NEW text, BytesOf(s, text, q), \A j \in 1 .. 3 : t[j] = Three(text, q)[j]
    PROVE  BytesOf(u, text, q + 1)
<1> SUFFICES ASSUME NEW g \in 0 .. q, NEW j \in 1 .. 3
             PROVE  u[3 * g + j] = Three(text, g)[j]
  BY (q + 1) - 1 = q DEF BytesOf
<1>1. CASE g = q
  BY <1>1, Zenon DEF Behind
<1>2. CASE g # q
  <2>1. g \in 0 .. q - 1 /\ 3 * g + j \in 1 .. 3 * q
    BY <1>2
  <2> QED
    BY <2>1, Zenon DEF BytesOf, Behind
<1> QED
  BY <1>1, <1>2

\* Only whole groups.
LEMMA EncodingWhole ==
    ASSUME NEW in \in Seq(Byte), NEW q \in Nat, Len(in) = 3 * q,
           NEW s \in Seq(Char), Len(s) = 4 * q, SixesOf(s, in, q)
    PROVE  Encoding(s, in)
<1>1. (Len(in) + 2) \div 3 = q
  OBVIOUS
<1>2. \A g \in 0 .. q - 1 : \A j \in 1 .. 4 : j <= Len(in) - 3 * g + 1
  OBVIOUS
<1> QED
  BY <1>1, <1>2 DEF Encoding, SixesOf

\* One or two bytes behind them.
LEMMA EncodingRest ==
    ASSUME NEW in \in Seq(Byte), NEW q \in Nat, NEW i \in 1 .. 2, Len(in) = 3 * q + i,
           NEW s, SixesOf(s, in, q), NEW u, NEW t, Len(u) = 4 * q + 4, Behind(u, s, 4 * q, t, 4),
           \A j \in 1 .. 4 : t[j] = IF j <= i + 1 THEN alphabet[Six(in, q)[j] + 1] ELSE "="
    PROVE  Encoding(u, in)
<1>1. (Len(in) + 2) \div 3 = q + 1
  OBVIOUS
<1>2. ASSUME NEW g \in 0 .. q, NEW j \in 1 .. 4
      PROVE  u[4 * g + j] = IF j <= Len(in) - 3 * g + 1 THEN alphabet[Six(in, g)[j] + 1] ELSE "="
  <2>1. CASE g = q
    <3>1. Len(in) - 3 * g + 1 = i + 1
      BY <2>1
    <3>2. u[4 * g + j] = t[j]
      BY <2>1, Zenon DEF Behind
    <3> QED
      BY <2>1, <3>1, <3>2
  <2>2. CASE g # q
    <3>1. g \in 0 .. q - 1 /\ j <= Len(in) - 3 * g + 1 /\ 4 * g + j \in 1 .. 4 * q
      BY <2>2
    <3>2. u[4 * g + j] = s[4 * g + j]
      BY <3>1, Zenon DEF Behind
    <3>3. s[4 * g + j] = alphabet[Six(in, g)[j] + 1]
      BY <3>1, Zenon DEF SixesOf
    <3> QED
      BY <3>1, <3>2, <3>3
  <2> QED
    BY <2>1, <2>2
<1>3. Len(u) = 4 * (q + 1) /\ (q + 1) - 1 = q
  OBVIOUS
<1> QED
  BY <1>1, <1>2, <1>3 DEF Encoding

\* Of the bytes of a group, the first i - 1 need its first i characters only.
LEMMA DecodingRest ==
    ASSUME NEW text, NEW q \in Nat, NEW i \in 0 .. 3, NEW s \in Seq(Byte), Len(s) = 3 * q, BytesOf(s, text, q),
           NEW f, \A k \in 1 .. i : f[k] = text[4 * q + k],
           NEW r, r = IF i = 0 THEN s
                      ELSE s \o SubSeq(char_3(find(f[1]), find(f[2]), find(f[3]), find(f[4])), 1, i - 1)
    PROVE  Decoding(r, text, q)
<1> PICK three : three = char_3(find(f[1]), find(f[2]), find(f[3]), find(f[4]))
  OBVIOUS
<1>1. three \in Seq(Byte) /\ Len(three) = 3
  BY BytesTyped, FindTyped
<1>2. ASSUME NEW j \in 1 .. 3, j <= i - 1 PROVE three[j] = Three(text, q)[j]
  <2>1. CASE j = 1
    <3>1. f[1] = text[4 * q + 1] /\ f[2] = text[4 * q + 2]
      BY <1>2, <2>1
    <3> QED
      BY <2>1, <3>1 DEF Three, char_3
  <2>2. CASE j = 2
    <3>1. f[2] = text[4 * q + 2] /\ f[3] = text[4 * q + 3]
      BY <1>2, <2>2
    <3> QED
      BY <2>2, <3>1 DEF Three, char_3
  <2> QED
    BY <1>2, <2>1, <2>2
<1> SUFFICES ASSUME NEW g \in 0 .. q, NEW j \in 1 .. 3, 3 * g + j <= Len(r)
             PROVE  r[3 * g + j] = Three(text, g)[j]
  BY DEF Decoding
<1>3. CASE i = 0
  <2>1. g \in 0 .. q - 1 /\ r = s
    BY <1>3
  <2> QED
    BY <2>1 DEF BytesOf
<1>4. CASE i # 0
  <2> PICK t : t = SubSeq(three, 1, i - 1)
    OBVIOUS
  <2>1. t \in Seq(Byte) /\ Len(t) = i - 1 /\ (\A k \in 1 .. i - 1 : t[k] = three[k]) /\ r = s \o t
    <3>1. i - 1 \in 0 .. Len(three)
      BY <1>1, <1>4
    <3> QED
      BY <1>1, <1>4, <3>1, BeginningIs
  <2>2. Len(r) = 3 * q + (i - 1) /\ Behind(r, s, 3 * q, t, i - 1)
    <3>1. \A m, n : m = Len(s) /\ n = Len(t) => Len(s \o t) = m + n /\ Behind(s \o t, s, m, t, n)
      BY ONLY s \in Seq(Byte), <2>1, ConcatAt
    <3> QED
      BY <2>1, <3>1, Zenon
  <2>3. CASE g = q
    <3>0. 3 * g + j <= 3 * q + (i - 1)
      BY <2>2, Zenon
    <3>1. j \in 1 .. i - 1
      BY ONLY <2>3, <3>0, j \in 1 .. 3, q \in Nat, i \in 0 .. 3
    <3>2. r[3 * g + j] = three[j]
      BY <2>1, <2>2, <2>3, <3>1, Zenon DEF Behind
    <3>3. j <= i - 1
      BY <3>1
    <3> QED
      BY <1>2, <2>3, <3>2, <3>3
  <2>4. CASE g # q
    <3>1. g \in 0 .. q - 1 /\ 3 * g + j \in 1 .. 3 * q
      BY <2>4
    <3> QED
      BY <2>2, <3>1, Zenon DEF BytesOf, Behind
  <2> QED
    BY <2>3, <2>4
<1> QED
  BY <1>3, <1>4

\* What was converted so far is right, and what waits is the input.
Coded ==
    /\ pc = "encode" => Waits(chars, input, 3 * (pos \div 3)) /\ SixesOf(out, input, pos \div 3)
    /\ pc = "encoded" => Encoding(out, input)
    /\ pc \in {"decode", "decoded"} => /\ \A k \in 1 .. pos : is_base64(input[k])
                                       /\ original # <<>> => Encoding(input, original)
    /\ pc = "decode" => Waits(chars, input, 4 * (pos \div 4)) /\ BytesOf(out, input, pos \div 4)
    /\ pc = "decoded" => Decoding(out, input, pos \div 4) /\ ~MoreToDecode

\* What was converted stays right: Coded is inductive.
LEMMA CodedInit == Init => Coded
BY DEF Init, Coded

LEMMA EncodeByteStep ==
    ASSUME BaseInv, Coded, EncodeByte
    PROVE  Coded'
<1> PICK three : three = Append(chars, input[pos + 1])
  OBVIOUS
<1> PICK q : q = pos \div 3
  OBVIOUS
<1>1. /\ pos < Len(input) /\ pos \in Nat /\ pc = "encode" /\ pc' = "encode" /\ input' = input
      /\ pos' = pos + 1 /\ Len(chars) = pos % 3 /\ Len(out) = 4 * q /\ q \in Nat
      /\ out \in Seq(Char) /\ chars \in Seq(Byte) /\ input \in Seq(Byte)
  BY DEF EncodeByte, BaseInv, TypeOK, Lengths
<1>2. input[pos + 1] \in Byte
  <2>1. pos < Len(input) /\ pos \in Nat /\ input \in Seq(Byte)
    BY <1>1
  <2>2. pos + 1 \in 1 .. Len(input)
    BY ONLY <2>1
  <2> QED
    BY ONLY <2>1, <2>2
<1>3. /\ three \in Seq(Byte) /\ Len(three) = (pos % 3) + 1 /\ pos = 3 * q + (pos % 3)
      /\ pos % 3 \in 0 .. 2
  BY <1>1, <1>2
<1>4. Waits(three, input, 3 * q)
  <2> SUFFICES ASSUME NEW i \in 1 .. (pos % 3) + 1 PROVE three[i] = input[3 * q + i]
    BY <1>3 DEF Waits
  <2>1. CASE i = (pos % 3) + 1
    BY <1>1, <1>2, <1>3, <2>1
  <2>2. CASE i # (pos % 3) + 1
    <3>1. i \in 1 .. Len(chars)
      BY <1>1, <1>3, <2>2
    <3>2. three[i] = chars[i]
      BY <1>1, <1>2, <3>1
    <3> QED
      BY <1>1, <3>1, <3>2 DEF Coded, Waits
  <2> QED
    BY <2>1, <2>2
<1>5. SixesOf(out, input, q)
  BY <1>1 DEF Coded
<1>6. CASE Len(three) < 3
  <2>1. chars' = three /\ out' = out
    BY <1>6 DEF EncodeByte
  <2>2. pos' \div 3 = q
    BY <1>1, <1>3, <1>6
  <2> QED
    BY <1>1, <1>4, <1>5, <2>1, <2>2 DEF Coded
<1>7. CASE ~(Len(three) < 3)
  <2> PICK four, t : /\ four = char_4(three[1], three[2], three[3])
                     /\ t = [j \in 1 .. 4 |-> alphabet[four[j] + 1]]
    OBVIOUS
  <2>1. chars' = <<>> /\ out' = out \o t
    BY <1>7 DEF EncodeByte
  <2>2. pos' \div 3 = q + 1 /\ 3 * q + 3 <= Len(input) /\ Len(three) = 3
    BY <1>1, <1>3, <1>7
  <2>3. four = Six(input, q)
    <3>1. three[1] = input[3 * q + 1] /\ three[2] = input[3 * q + 2] /\ three[3] = input[3 * q + 3]
      BY <1>4, <2>2 DEF Waits
    <3>2. /\ At(input, 3 * q + 1) = input[3 * q + 1] /\ At(input, 3 * q + 2) = input[3 * q + 2]
          /\ At(input, 3 * q + 3) = input[3 * q + 3]
      BY <1>1, <2>2 DEF At
    <3> QED
      BY <3>1, <3>2, Zenon DEF Six
  <2>4. t \in Seq(Char) /\ Len(t) = 4
    <3>1. three[1] \in Byte /\ three[2] \in Byte /\ three[3] \in Byte
      <4>1. three \in Seq(Byte) /\ Len(three) = 3
        BY <1>3, <2>2
      <4>2. \A k \in 1 .. Len(three) : three[k] \in Byte
        BY ONLY <4>1
      <4>3. 1 \in 1 .. Len(three) /\ 2 \in 1 .. Len(three) /\ 3 \in 1 .. Len(three)
        BY <4>1
      <4> QED
        BY ONLY <4>2, <4>3
    <3>2. \A j \in 1 .. 4 : alphabet[four[j] + 1] \in Char
      BY <3>1, PlacesTyped, Base64Assumption
    <3>3. t \in [1 .. 4 -> Char]
      BY <3>2
    <3> QED
      BY <3>3, FourTyped
  <2>5. Behind(out \o t, out, 4 * q, t, 4)
    BY ONLY <1>1, <2>4, ConcatAt
  <2>6. \A j \in 1 .. 4 : t[j] = alphabet[Six(input, q)[j] + 1]
    BY <2>3
  <2>7. SixesOf(out \o t, input, q + 1)
    BY <1>1, <1>5, <2>5, <2>6, SixesMore
  <2>8. Waits(<<>>, input, 3 * (q + 1))
    BY DEF Waits
  <2> QED
    BY <1>1, <2>1, <2>2, <2>7, <2>8 DEF Coded
<1> QED
  BY <1>6, <1>7

LEMMA EncodeRestStep ==
    ASSUME BaseInv, Coded, EncodeRest
    PROVE  Coded'
<1> PICK i, q : i = Len(chars) /\ q = pos \div 3
  OBVIOUS
<1> PICK three : three = chars \o <<0, 0, 0>>
  OBVIOUS
<1> PICK four, t : /\ four = char_4(three[1], three[2], three[3])
                   /\ t = [j \in 1 .. 4 |-> IF j <= i + 1 THEN alphabet[four[j] + 1] ELSE "="]
  OBVIOUS
<1>1. /\ pos = Len(input) /\ pos \in Nat /\ pc = "encode" /\ pc' = "encoded" /\ input' = input
      /\ i = pos % 3 /\ Len(out) = 4 * q /\ q \in Nat /\ out \in Seq(Char) /\ chars \in Seq(Byte)
      /\ input \in Seq(Byte) /\ out' = IF i = 0 THEN out ELSE out \o t
  <2>1. out' = IF i = 0 THEN out ELSE out \o t
    BY Zenon DEF EncodeRest
  <2>2. /\ pos = Len(input) /\ pos \in Nat /\ pc = "encode" /\ pc' = "encoded" /\ input' = input
        /\ i = pos % 3 /\ Len(out) = 4 * q /\ q \in Nat /\ out \in Seq(Char) /\ chars \in Seq(Byte)
        /\ input \in Seq(Byte)
    <3>1. pc = "encode" /\ pos = Len(input) /\ pc' = "encoded" /\ input' = input
      BY DEF EncodeRest
    <3>2. pos \in Nat /\ input \in Seq(Byte) /\ chars \in Seq(Byte) /\ out \in Seq(Char)
      BY <3>1 DEF BaseInv, TypeOK
    <3>3. Len(chars) = pos % 3 /\ Len(out) = 4 * (pos \div 3)
      BY <3>1 DEF BaseInv, Lengths
    <3>4. pos \div 3 \in Nat
      BY ONLY <3>2
    <3> QED
      BY <3>1, <3>2, <3>3, <3>4
  <2> QED
    BY <2>1, <2>2
<1>2. i \in 0 .. 2 /\ Len(input) = 3 * q + i
  <2>1. pos \in Nat /\ i = pos % 3 /\ q = pos \div 3 /\ Len(input) = pos
    BY <1>1
  <2> QED
    BY ONLY <2>1
<1>3. SixesOf(out, input, q) /\ \A k \in 1 .. i : chars[k] = input[3 * q + k]
  BY <1>1 DEF Coded, Waits
<1>4. Encoding(out', input)
  <2>1. CASE i = 0
    <3>1. Len(input) = 3 * q /\ out' = out
      <4>1. q \in Nat /\ out' = out
        BY <1>1, <2>1
      <4> QED
        BY ONLY <4>1, <1>2, <2>1
    <3>2. Encoding(out, input)
      BY ONLY <1>1, <1>3, <3>1, EncodingWhole
    <3> QED
      BY <3>1, <3>2
  <2>2. CASE i # 0
    <3>1. three[1] = At(input, 3 * q + 1) /\ three[2] = At(input, 3 * q + 2) /\ three[3] = At(input, 3 * q + 3)
      <4>1. <<0, 0, 0>> \in Seq(Byte) /\ Len(<<0, 0, 0>>) = 3
        BY SMTT(30) DEF Byte
      <4>2. Behind(three, chars, i, <<0, 0, 0>>, 3)
        BY <1>1, <4>1, ConcatAt
      <4>3. ASSUME NEW k \in 1 .. 3 PROVE three[k] = At(input, 3 * q + k)
        <5>1. CASE k <= i
          <6>1. k \in 1 .. i /\ 3 * q + k <= Len(input)
            BY <1>2, <5>1
          <6> QED
            BY <1>3, <4>2, <6>1, Zenon DEF At, Behind
        <5>2. CASE ~(k <= i)
          <6>1. k - i \in 1 .. 3 /\ i + (k - i) = k /\ ~(3 * q + k <= Len(input))
            <7>1. q \in Nat
              BY <1>1
            <7> QED
              BY ONLY <7>1, <1>2, <5>2, k \in 1 .. 3
          <6>2. three[k] = <<0, 0, 0>>[k - i]
            BY <4>2, <6>1 DEF Behind
          <6>3. three[k] = 0
            BY <6>1, <6>2, SMTT(60)
          <6> QED
            BY <6>1, <6>3, Zenon DEF At
        <5> QED
          BY <5>1, <5>2
      <4> QED
        BY <4>3
    <3>2. four = Six(input, q)
      BY <3>1, Zenon DEF Six
    <3>3. t \in Seq(Char) /\ Len(t) = 4
      <4>1. \A k \in 1 .. 3 : At(input, 3 * q + k) \in Byte
        <5>1. q \in Nat /\ input \in Seq(Byte)
          BY <1>1
        <5>2. \A k \in 1 .. 3 : 3 * q + k <= Len(input) => 3 * q + k \in 1 .. Len(input)
          BY ONLY <5>1
        <5>3. \A k \in 1 .. Len(input) : input[k] \in Byte
          BY ONLY <5>1
        <5>4. 0 \in Byte
          BY DEF Byte
        <5> QED
          BY ONLY <5>2, <5>3, <5>4, Zenon DEF At
      <4>2. three[1] \in Byte /\ three[2] \in Byte /\ three[3] \in Byte
        BY <3>1, <4>1
      <4>3. i + 1 \in Nat
        BY <1>2
      <4> QED
        <5>1. \A n \in Nat : LET fours == char_4(three[1], three[2], three[3])
                                  text == [j \in 1 .. 4 |-> IF j <= n THEN alphabet[fours[j] + 1] ELSE "="]
                              IN  text \in Seq(Char) /\ Len(text) = 4
          BY <4>2, GroupTyped
        <5> QED
          BY <4>3, <5>1, Zenon
    <3>4. out' \in Seq(Char) /\ Len(out') = 4 * q + 4 /\ Behind(out', out, 4 * q, t, 4)
      <4>1. /\ out \o t \in Seq(Char) /\ Len(out \o t) = 4 * q + 4
            /\ Behind(out \o t, out, 4 * q, t, 4)
        BY ONLY <1>1, <3>3, ConcatAt
      <4>2. out' = out \o t
        BY <1>1, <2>2
      <4> QED
        BY <4>1, <4>2, Zenon
    <3>5. \A j \in 1 .. 4 : t[j] = IF j <= i + 1 THEN alphabet[Six(input, q)[j] + 1] ELSE "="
      BY <3>2
    <3>6. i \in 1 .. 2
      BY <1>2, <2>2
    <3> PICK u : u = out'
      OBVIOUS
    <3>7. Len(u) = 4 * q + 4 /\ Behind(u, out, 4 * q, t, 4)
      BY <3>4
    <3>8. q \in Nat /\ input \in Seq(Byte)
      BY <1>1
    <3>9. Encoding(u, input)
      BY ONLY <1>2, <1>3, <3>5, <3>6, <3>7, <3>8, EncodingRest, SMTT(60)
    <3> QED
      BY <3>9, Zenon
  <2> QED
    BY <2>1, <2>2
<1> QED
  BY <1>1, <1>4 DEF Coded

LEMMA DecodeCharStep ==
    ASSUME BaseInv, Coded, DecodeChar
    PROVE  Coded'
<1> PICK four : four = Append(chars, input[pos + 1])
  OBVIOUS
<1> PICK q : q = pos \div 4
  OBVIOUS
<1>1. /\ pos < Len(input) /\ pos \in Nat /\ pc = "decode" /\ pc' = "decode" /\ input' = input
      /\ pos' = pos + 1 /\ Len(chars) = pos % 4 /\ Len(out) = 3 * q /\ q \in Nat
      /\ out \in Seq(Byte) /\ chars \in Seq(Char) /\ input \in Seq(Char) /\ original' = original
      /\ is_base64(input[pos + 1])
  BY DEF DecodeChar, MoreToDecode, BaseInv, TypeOK, Lengths
<1>2. input[pos + 1] \in Char
  <2>1. pos < Len(input) /\ pos \in Nat /\ input \in Seq(Char)
    BY <1>1
  <2>2. pos + 1 \in 1 .. Len(input)
    BY ONLY <2>1
  <2> QED
    BY ONLY <2>1, <2>2
<1>3. /\ four \in Seq(Char) /\ Len(four) = (pos % 4) + 1 /\ pos = 4 * q + (pos % 4)
      /\ pos % 4 \in 0 .. 3
  BY <1>1, <1>2
<1>4. Waits(four, input, 4 * q)
  <2> SUFFICES ASSUME NEW i \in 1 .. (pos % 4) + 1 PROVE four[i] = input[4 * q + i]
    BY <1>3 DEF Waits
  <2>1. CASE i = (pos % 4) + 1
    BY <1>1, <1>2, <1>3, <2>1
  <2>2. CASE i # (pos % 4) + 1
    <3>1. i \in 1 .. Len(chars)
      BY <1>1, <1>3, <2>2
    <3>2. four[i] = chars[i]
      BY <1>1, <1>2, <3>1
    <3> QED
      BY <1>1, <3>1, <3>2 DEF Coded, Waits
  <2> QED
    BY <2>1, <2>2
<1>5. BytesOf(out, input, q)
  BY <1>1 DEF Coded
<1>6. /\ \A k \in 1 .. pos' : is_base64(input[k])
      /\ original' # <<>> => Encoding(input, original')
  <2>1. /\ \A k \in 1 .. pos : is_base64(input[k])
        /\ original # <<>> => Encoding(input, original)
    BY <1>1 DEF Coded
  <2>2. \A k \in 1 .. pos + 1 : k \in 1 .. pos \/ k = pos + 1
    BY <1>1
  <2> QED
    BY <1>1, <2>1, <2>2, Zenon
<1>7. CASE Len(four) < 4
  <2>1. chars' = four /\ out' = out
    BY <1>7 DEF DecodeChar
  <2>2. pos' \div 4 = q
    BY <1>1, <1>3, <1>7
  <2> QED
    BY <1>1, <1>4, <1>5, <1>6, <2>1, <2>2 DEF Coded
<1>8. CASE ~(Len(four) < 4)
  <2> PICK t : t = char_3(find(four[1]), find(four[2]), find(four[3]), find(four[4]))
    OBVIOUS
  <2>1. chars' = <<>> /\ out' = out \o t
    BY <1>8 DEF DecodeChar
  <2>2. pos' \div 4 = q + 1 /\ Len(four) = 4
    BY <1>1, <1>3, <1>8
  <2>3. t = Three(input, q)
    <3>1. /\ four[1] = input[4 * q + 1] /\ four[2] = input[4 * q + 2] /\ four[3] = input[4 * q + 3]
          /\ four[4] = input[4 * q + 4]
      BY <1>4, <2>2 DEF Waits
    <3> QED
      BY <3>1, Zenon DEF Three
  <2>4. t \in Seq(Byte) /\ Len(t) = 3
    BY BytesTyped, FindTyped
  <2>5. Behind(out \o t, out, 3 * q, t, 3)
    BY ONLY <1>1, <2>4, ConcatAt
  <2>6. BytesOf(out \o t, input, q + 1)
    BY <1>1, <1>5, <2>3, <2>5, BytesMore
  <2>7. Waits(<<>>, input, 4 * (q + 1))
    BY DEF Waits
  <2> QED
    BY <1>1, <1>6, <2>1, <2>2, <2>6, <2>7 DEF Coded
<1> QED
  BY <1>7, <1>8

LEMMA DecodeRestStep ==
    ASSUME BaseInv, Coded, DecodeRest
    PROVE  Coded'
<1> PICK i, q : i = Len(chars) /\ q = pos \div 4
  OBVIOUS
<1> PICK four : four = chars \o <<NUL, NUL, NUL, NUL>>
  OBVIOUS
<1>1. /\ pos \in Nat /\ pc = "decode" /\ pc' = "decoded" /\ input' = input /\ original' = original
      /\ pos' = pos /\ i = pos % 4 /\ Len(out) = 3 * q /\ q \in Nat /\ out \in Seq(Byte)
      /\ chars \in Seq(Char) /\ ~MoreToDecode
      /\ out' = IF i = 0 THEN out
                ELSE out \o SubSeq(char_3(find(four[1]), find(four[2]), find(four[3]), find(four[4])), 1, i - 1)
  BY DEF DecodeRest, BaseInv, TypeOK, Lengths
<1>2. i \in 0 .. 3
  BY <1>1
<1>3. /\ BytesOf(out, input, q) /\ \A k \in 1 .. i : chars[k] = input[4 * q + k]
      /\ \A k \in 1 .. pos : is_base64(input[k])
      /\ original # <<>> => Encoding(input, original)
  BY <1>1 DEF Coded, Waits
<1>4. \A k \in 1 .. i : four[k] = input[4 * q + k]
  <2>1. NUL \in Char
    BY Base64Assumption
  <2> PICK nuls : nuls = <<NUL, NUL, NUL, NUL>>
    OBVIOUS
  <2>2. nuls \in Seq(Char)
    BY <2>1
  <2>3. \A n : n = Len(nuls) => Behind(four, chars, i, nuls, n)
    BY <1>1, <2>2, ConcatAt
  <2> QED
    BY <1>3, <2>3, Zenon DEF Behind
<1>5. Decoding(out', input, q)
  BY ONLY <1>1, <1>2, <1>3, <1>4, DecodingRest
<1>6. ~MoreToDecode'
  BY <1>1 DEF MoreToDecode
<1> QED
  BY <1>1, <1>3, <1>5, <1>6 DEF Coded

LEMMA CodedStep == BaseInv /\ Coded /\ [Next]_vars => Coded'
<1> SUFFICES ASSUME BaseInv, Coded, [Next]_vars PROVE Coded'
  OBVIOUS
<1>1. ASSUME NEW in \in Inputs, base64_encode(in) PROVE Coded'
  <2>1. pc = "idle" /\ input' = in /\ pos' = 0 /\ chars' = <<>> /\ out' = <<>>
    BY <1>1 DEF base64_encode, BaseInv, Lengths
  <2>2. CASE in = <<>>
    <3>1. Encoding(<<>>, <<>>)
      BY DEF Encoding
    <3> QED
      BY <1>1, <2>1, <2>2, <3>1 DEF base64_encode, Coded
  <2>3. CASE in # <<>>
    <3>1. Waits(<<>>, in, 3 * (0 \div 3)) /\ SixesOf(<<>>, in, 0 \div 3)
      BY DEF Waits, SixesOf
    <3> QED
      BY <1>1, <2>1, <2>3, <3>1 DEF base64_encode, Coded
  <2> QED
    BY <2>2, <2>3
<1>2. ASSUME NEW text, NEW bytes, bytes # <<>> => Encoding(text, bytes), base64_decode(text, bytes)
      PROVE  Coded'
  <2>1. Waits(<<>>, text, 4 * (0 \div 4)) /\ BytesOf(<<>>, text, 0 \div 4)
    BY DEF Waits, BytesOf
  <2> QED
    BY <1>2, <2>1 DEF base64_decode, Coded
<1>3. CASE DecodeText
  BY <1>2, <1>3 DEF DecodeText
<1>4. CASE DecodeEncoded
  BY <1>2, <1>4 DEF DecodeEncoded, Coded
<1>5. CASE Release
  BY <1>5 DEF Release, Coded
<1>6. CASE UNCHANGED vars
  BY <1>6 DEF vars, Coded, MoreToDecode
<1> QED
  BY <1>1, <1>3, <1>4, <1>5, <1>6, EncodeByteStep, EncodeRestStep, DecodeCharStep, DecodeRestStep DEF Next

\* What is behind the end counts as 0.
LEMMA AtTyped ==
    ASSUME NEW in \in Seq(Byte), NEW k \in Nat \ {0}
    PROVE  At(in, k) \in Byte
<1>1. \A i \in 1 .. Len(in) : in[i] \in Byte
  OBVIOUS
<1>2. k <= Len(in) => k \in 1 .. Len(in)
  OBVIOUS
<1>3. 0 \in Byte
  BY DEF Byte
<1> QED
  BY ONLY <1>1, <1>2, <1>3, Zenon DEF At

\* A bit of the input, zeros behind its end.
LEMMA BitOfInput ==
    ASSUME NEW in \in Seq(Byte), NEW m \in Nat, NEW e \in 0 .. 7
    PROVE  Bit(in, 8, 8 * m + e) = BitOf(At(in, m + 1), 8, e)
<1>1. Bit(in, 8, 8 * m + e) = IF m < Len(in) THEN BitOf(in[m + 1], 8, e) ELSE 0
  BY BitAt
<1>2. m < Len(in) <=> m + 1 <= Len(in)
  OBVIOUS
<1>3. BitOf(0, 8, e) = 0
  <2>1. 0 \in Byte /\ e \in {0, 1, 2, 3, 4, 5, 6, 7}
    BY DEF Byte
  <2> QED
    BY ONLY <2>1, BitsOfByte
<1> QED
  BY ONLY <1>1, <1>2, <1>3, Zenon DEF At

\* The bits of a place are those of the input at its place.
LEMMA BitOfSix ==
    ASSUME NEW in \in Seq(Byte), NEW g \in Nat, NEW j \in 1 .. 4, NEW e \in 0 .. 5
    PROVE  BitOf(Six(in, g)[j], 6, e) = Bit(in, 8, 24 * g + 6 * (j - 1) + e)
<1> PICK a, b, c : a = At(in, 3 * g + 1) /\ b = At(in, 3 * g + 2) /\ c = At(in, 3 * g + 3)
  OBVIOUS
<1>1. a \in Byte /\ b \in Byte /\ c \in Byte
  <2>1. 3 * g + 1 \in Nat \ {0} /\ 3 * g + 2 \in Nat \ {0} /\ 3 * g + 3 \in Nat \ {0}
    OBVIOUS
  <2> QED
    BY <2>1, AtTyped
<1>2. LET four == Six(in, g)
      IN  /\ BitOf(four[1], 6, e) = BitOf(a, 8, e)
          /\ BitOf(four[2], 6, e) = IF e < 2 THEN BitOf(a, 8, e + 6) ELSE BitOf(b, 8, e - 2)
          /\ BitOf(four[3], 6, e) = IF e < 4 THEN BitOf(b, 8, e + 4) ELSE BitOf(c, 8, e - 4)
          /\ BitOf(four[4], 6, e) = BitOf(c, 8, e + 2)
  <2>1. Six(in, g) = char_4(a, b, c)
    BY DEF Six
  <2> QED
    BY <1>1, <2>1, BitsOfPlaces
<1>3. \A f \in 0 .. 7 : /\ Bit(in, 8, 8 * (3 * g) + f) = BitOf(a, 8, f)
                        /\ Bit(in, 8, 8 * (3 * g + 1) + f) = BitOf(b, 8, f)
                        /\ Bit(in, 8, 8 * (3 * g + 2) + f) = BitOf(c, 8, f)
  <2>1. 3 * g \in Nat /\ 3 * g + 1 \in Nat /\ 3 * g + 2 \in Nat
    OBVIOUS
  <2>2. (3 * g + 1) + 1 = 3 * g + 2 /\ (3 * g + 2) + 1 = 3 * g + 3
    OBVIOUS
  <2>3. \A m \in Nat : \A f \in 0 .. 7 : Bit(in, 8, 8 * m + f) = BitOf(At(in, m + 1), 8, f)
    BY BitOfInput
  <2> QED
    BY <2>1, <2>2, <2>3, Zenon
<1> PICK k : k = 24 * g + 6 * (j - 1) + e
  OBVIOUS
<1>4. CASE j = 1
  <2>1. k = 8 * (3 * g) + e /\ e \in 0 .. 7
    BY <1>4
  <2> QED
    BY <1>2, <1>3, <1>4, <2>1, Zenon
<1>5. CASE j = 2
  <2>1. CASE e < 2
    <3>1. k = 8 * (3 * g) + (e + 6) /\ e + 6 \in 0 .. 7
      BY <1>5, <2>1
    <3> QED
      BY <1>2, <1>3, <1>5, <2>1, <3>1, Zenon
  <2>2. CASE ~(e < 2)
    <3>1. k = 8 * (3 * g + 1) + (e - 2) /\ e - 2 \in 0 .. 7
      BY <1>5, <2>2
    <3> QED
      BY <1>2, <1>3, <1>5, <2>2, <3>1, Zenon
  <2> QED
    BY <2>1, <2>2
<1>6. CASE j = 3
  <2>1. CASE e < 4
    <3>1. k = 8 * (3 * g + 1) + (e + 4) /\ e + 4 \in 0 .. 7
      BY <1>6, <2>1
    <3> QED
      BY <1>2, <1>3, <1>6, <2>1, <3>1, Zenon
  <2>2. CASE ~(e < 4)
    <3>1. k = 8 * (3 * g + 2) + (e - 4) /\ e - 4 \in 0 .. 7
      BY <1>6, <2>2
    <3> QED
      BY <1>2, <1>3, <1>6, <2>2, <3>1, Zenon
  <2> QED
    BY <2>1, <2>2
<1>7. CASE j = 4
  <2>1. k = 8 * (3 * g + 2) + (e + 2) /\ e + 2 \in 0 .. 7
    BY <1>7
  <2> QED
    BY <1>2, <1>3, <1>7, <2>1, Zenon
<1> QED
  BY <1>4, <1>5, <1>6, <1>7

\* Places are places of the alphabet.
LEMMA SixTyped ==
    ASSUME NEW in \in Seq(Byte), NEW g \in Nat, NEW j \in 1 .. 4
    PROVE  Six(in, g)[j] \in 0 .. 63
<1>1. At(in, 3 * g + 1) \in Byte /\ At(in, 3 * g + 2) \in Byte /\ At(in, 3 * g + 3) \in Byte
  <2>1. 3 * g + 1 \in Nat \ {0} /\ 3 * g + 2 \in Nat \ {0} /\ 3 * g + 3 \in Nat \ {0}
    OBVIOUS
  <2> QED
    BY <2>1, AtTyped
<1>2. \A a, b, c \in Byte : char_4(a, b, c)[j] \in 0 .. 63
  <2> SUFFICES ASSUME NEW a \in Byte, NEW b \in Byte, NEW c \in Byte PROVE char_4(a, b, c)[j] \in 0 .. 63
    OBVIOUS
  <2>1. char_4(a, b, c)[j] + 1 \in 1 .. 64
    BY PlacesTyped
  <2> PICK x : x = char_4(a, b, c)[j]
    OBVIOUS
  <2>2. x \in Nat
    <3>1. /\ a \div 4 \in Nat /\ (a % 4) * 16 + b \div 16 \in Nat
          /\ (b % 16) * 4 + c \div 64 \in Nat /\ c % 64 \in Nat
      BY SMTT(60) DEF Byte
    <3> QED
      BY <3>1 DEF char_4
  <2>3. x + 1 \in 1 .. 64
    BY <2>1, Zenon
  <2>4. x \in 0 .. 63
    BY ONLY <2>2, <2>3
  <2> QED
    BY <2>4, Zenon
<1> QED
  BY <1>1, <1>2, Zenon DEF Six

\* What a text that encodes an input has at its places.
LEMMA TextOfInput ==
    ASSUME NEW in \in Seq(Byte), NEW text \in Seq(Char), Encoding(text, in),
           NEW n, n = (8 * Len(in) + 5) \div 6, NEW k \in 1 .. Len(text)
    PROVE  IF k <= n THEN /\ is_base64(text[k])
                          /\ find(text[k]) = Six(in, (k - 1) \div 4)[((k - 1) % 4) + 1]
                     ELSE text[k] = "="
<1> PICK L \in Nat : L = Len(in)
  OBVIOUS
<1> PICK g, j : g = (k - 1) \div 4 /\ j = ((k - 1) % 4) + 1
  OBVIOUS
<1>1. Len(text) = 4 * ((L + 2) \div 3) /\ n = (8 * L + 5) \div 6 /\ k \in Nat /\ 1 <= k /\ k <= 4 * ((L + 2) \div 3)
  BY DEF Encoding
<1>2. k = 4 * g + j /\ g \in Nat /\ j \in 1 .. 4
  BY <1>1
<1>3. g \in 0 .. ((L + 2) \div 3) - 1
  BY ONLY <1>1, <1>2, L \in Nat
<1>4. text[4 * g + j] = IF j <= L - 3 * g + 1 THEN alphabet[Six(in, g)[j] + 1] ELSE "="
  BY <1>2, <1>3 DEF Encoding
<1>5. k <= n <=> j <= L - 3 * g + 1
  BY ONLY <1>1, <1>2, <1>3, L \in Nat
<1>6. Six(in, g)[j] \in 0 .. 63
  BY <1>2, SixTyped
<1>7. CASE k <= n
  <2>1. text[k] = alphabet[Six(in, g)[j] + 1]
    BY <1>2, <1>4, <1>5, <1>7
  <2> QED
    BY <1>6, <1>7, <2>1, FindBack
<1>8. CASE ~(k <= n)
  BY <1>2, <1>4, <1>5, <1>8
<1> QED
  BY <1>7, <1>8

\* The places of a text.
LEMMA PlacesAre ==
    ASSUME NEW text, NEW n \in Nat
    PROVE  /\ Len(PlacesOf(text, n)) = n
           /\ \A k \in 1 .. n : PlacesOf(text, n)[k] = find(text[k])
<1> DEFINE p == [k \in 1 .. n |-> find(text[k])]
<1>1. p \in [1 .. n -> Byte]
  BY FindTyped
<1>2. \A k \in 1 .. n : p[k] = find(text[k])
  OBVIOUS
<1>3. PlacesOf(text, n) = p
  BY DEF PlacesOf
<1> HIDE DEF p
<1>4. Len(p) = n
  <2>1. p \in Seq(Byte)
    BY <1>1, SeqDef
  <2>2. 1 .. Len(p) = 1 .. n /\ Len(p) \in Nat
    BY <1>1, <2>1, LenProperties
  <2> QED
    BY <2>2
<1> QED
  BY <1>2, <1>3, <1>4, Zenon

\* A bit of the places of a text.
LEMMA BitOfPlaces ==
    ASSUME NEW text, NEW n \in Nat, NEW m \in 0 .. n - 1, NEW e \in 0 .. 5
    PROVE  Bit(PlacesOf(text, n), 6, 6 * m + e) = BitOf(find(text[m + 1]), 6, e)
<1> PICK p : p = PlacesOf(text, n)
  OBVIOUS
<1>1. m \in Nat /\ m < n /\ m + 1 \in 1 .. n
  OBVIOUS
<1>2. Len(p) = n /\ p[m + 1] = find(text[m + 1])
  BY <1>1, PlacesAre
<1>3. Bit(p, 6, 6 * m + e) = IF m < Len(p) THEN BitOf(p[m + 1], 6, e) ELSE 0
  BY <1>1, BitAt
<1> QED
  BY <1>1, <1>2, <1>3, Zenon

\* base64_encode() writes the bits of its input.
LEMMA EncodedIsRight == BaseInv /\ Coded => EncodedRight
<1> SUFFICES ASSUME BaseInv, Coded, pc = "encoded" PROVE EncodedRight
  BY DEF EncodedRight
<1> PICK n : n = (8 * Len(input) + 5) \div 6
  OBVIOUS
<1>1. input \in Seq(Byte) /\ out \in Seq(Char) /\ Encoding(out, input)
  BY DEF BaseInv, TypeOK, Coded
<1>2. n \in Nat /\ Len(out) = 4 * ((Len(input) + 2) \div 3) /\ n <= Len(out)
  <2>1. Len(out) = 4 * ((Len(input) + 2) \div 3) /\ Len(input) \in Nat
    BY <1>1 DEF Encoding
  <2> QED
    BY ONLY <2>1, n = (8 * Len(input) + 5) \div 6
<1>3. \A k \in 1 .. Len(out) : IF k <= n THEN /\ is_base64(out[k])
                                              /\ find(out[k]) = Six(input, (k - 1) \div 4)[((k - 1) % 4) + 1]
                                         ELSE out[k] = "="
  BY <1>1, TextOfInput
<1>4. ASSUME NEW k \in 0 .. 6 * n - 1 PROVE Bit(PlacesOf(out, n), 6, k) = Bit(input, 8, k)
  <2> PICK m, e : m = k \div 6 /\ e = k % 6
    OBVIOUS
  <2> PICK g, j : g = m \div 4 /\ j = (m % 4) + 1
    OBVIOUS
  <2>1. m \in 0 .. n - 1 /\ e \in 0 .. 5 /\ k = 6 * m + e
    BY <1>2
  <2>2. m = 4 * g + (j - 1) /\ g \in Nat /\ j \in 1 .. 4 /\ k = 24 * g + 6 * (j - 1) + e
    BY ONLY <1>2, <2>1, g = m \div 4, j = (m % 4) + 1
  <2>3. m + 1 \in 1 .. n /\ (m + 1) - 1 = m /\ m + 1 \in 1 .. Len(out) /\ m + 1 <= n /\ m < n
    BY <1>1, <1>2, <2>1
  <2>6. find(out[m + 1]) = Six(input, g)[j]
    BY <1>3, <2>3, Zenon
  <2>7. Bit(PlacesOf(out, n), 6, 6 * m + e) = BitOf(find(out[m + 1]), 6, e)
    BY <1>2, <2>1, BitOfPlaces
  <2>8. BitOf(Six(input, g)[j], 6, e) = Bit(input, 8, 24 * g + 6 * (j - 1) + e)
    BY <1>1, <2>1, <2>2, BitOfSix
  <2> QED
    BY <2>1, <2>2, <2>6, <2>7, <2>8, Zenon
<1>5. \A k \in 1 .. Len(out) : IF k <= n THEN is_base64(out[k]) ELSE out[k] = "="
  BY <1>3, Zenon
<1>6. \A k \in 0 .. 6 * n - 1 : Bit(PlacesOf(out, n), 6, k) = Bit(input, 8, k)
  BY <1>4
<1>7. Len(out) = 4 * ((Len(input) + 2) \div 3)
  BY <1>2
<1> QED
  BY ONLY n = (8 * Len(input) + 5) \div 6, <1>5, <1>6, <1>7, Zenon DEF EncodedRight

\* The number of characters before the first that is not in the alphabet.
LEMMA AlphabetEnds ==
    ASSUME NEW text, NEW S, text \in Seq(S), NEW n \in 0 .. Len(text),
           \A k \in 1 .. n : is_base64(text[k]), n < Len(text) => ~is_base64(text[n + 1]),
           NEW end, end = SelectInSeq(text, LAMBDA c : ~is_base64(c))
    PROVE  n = IF end = 0 THEN Len(text) ELSE end - 1
<1> PICK I : I = {i \in 1 .. Len(text) : ~is_base64(text[i])}
  OBVIOUS
<1>1. end = IF I # {} THEN Min(I) ELSE 0
  BY DEF SelectInSeq
<1>2. CASE n = Len(text)
  <2>1. I = {}
    BY <1>2
  <2> QED
    BY <1>1, <1>2, <2>1
<1>3. CASE n # Len(text)
  <2>1. n + 1 \in I /\ n \in Nat
    BY <1>3
  <2>2. \A i \in I : n + 1 <= i /\ i \in Int
    <3> SUFFICES ASSUME NEW i \in I PROVE n + 1 <= i /\ i \in Int
      OBVIOUS
    <3>1. i \in 1 .. Len(text) /\ ~is_base64(text[i])
      OBVIOUS
    <3>2. ~(i \in 1 .. n)
      BY <3>1
    <3> QED
      BY <3>1, <3>2
  <2>3. Min(I) = n + 1
    BY ONLY <2>1, <2>2 DEF Min
  <2> QED
    BY <1>1, <2>1, <2>3
<1> QED
  BY <1>2, <1>3

\* A bit of one byte of a group is one of its places.
InAlphabet(text, n) == \A k \in 1 .. n : is_base64(text[k])

LEMMA BitOfThree ==
    ASSUME NEW text, NEW n \in Nat, InAlphabet(text, n),
           NEW g \in Nat, NEW j \in 1 .. 3, 4 * g + j + 1 <= n, NEW e \in 0 .. 7,
           NEW k, k = 24 * g + 8 * (j - 1) + e
    PROVE  BitOf(Three(text, g)[j], 8, e) = Bit(PlacesOf(text, n), 6, k)
<1> PICK p, q : p = find(text[4 * g + j]) /\ q = find(text[4 * g + j + 1])
  OBVIOUS
<1>1. p \in 0 .. 63 /\ q \in 0 .. 63
  <2>1. 4 * g + j \in 1 .. n /\ 4 * g + j + 1 \in 1 .. n
    OBVIOUS
  <2>2. is_base64(text[4 * g + j]) /\ is_base64(text[4 * g + j + 1])
    BY <2>1 DEF InAlphabet
  <2> QED
    BY <2>2, FindBack
<1>2. \A f \in 0 .. 5 : /\ Bit(PlacesOf(text, n), 6, 6 * (4 * g + j - 1) + f) = BitOf(p, 6, f)
                        /\ Bit(PlacesOf(text, n), 6, 6 * (4 * g + j) + f) = BitOf(q, 6, f)
  <2>1. 4 * g + j - 1 \in 0 .. n - 1 /\ 4 * g + j \in 0 .. n - 1 /\ (4 * g + j - 1) + 1 = 4 * g + j
    OBVIOUS
  <2>2. \A m \in 0 .. n - 1 : \A f \in 0 .. 5 : Bit(PlacesOf(text, n), 6, 6 * m + f) = BitOf(find(text[m + 1]), 6, f)
    BY BitOfPlaces
  <2> QED
    BY <2>1, <2>2, Zenon
<1> PICK x : x = Three(text, g)[j]
  OBVIOUS
<1>3. CASE j = 1
  <2>1. x = First(p, q)
    BY <1>3 DEF Three, char_3, First
  <2>2. BitOf(x, 8, e) = IF e < 6 THEN BitOf(p, 6, e) ELSE BitOf(q, 6, e - 6)
    BY ONLY <1>1, <2>1, e \in 0 .. 7, BitsOfFirst
  <2>3. CASE e < 6
    <3>1. k = 6 * (4 * g + j - 1) + e /\ e \in 0 .. 5
      BY <1>3, <2>3
    <3> QED
      BY <1>2, <2>2, <2>3, <3>1, Zenon
  <2>4. CASE ~(e < 6)
    <3>1. k = 6 * (4 * g + j) + (e - 6) /\ e - 6 \in 0 .. 5
      BY <1>3, <2>4
    <3> QED
      BY <1>2, <2>2, <2>4, <3>1, Zenon
  <2> QED
    BY <2>3, <2>4
<1>4. CASE j = 2
  <2>1. x = Second(p, q)
    BY <1>4 DEF Three, char_3, Second
  <2>2. BitOf(x, 8, e) = IF e < 4 THEN BitOf(p, 6, e + 2) ELSE BitOf(q, 6, e - 4)
    BY ONLY <1>1, <2>1, e \in 0 .. 7, BitsOfSecond
  <2>3. CASE e < 4
    <3>1. k = 6 * (4 * g + j - 1) + (e + 2) /\ e + 2 \in 0 .. 5
      BY <1>4, <2>3
    <3> QED
      BY <1>2, <2>2, <2>3, <3>1, Zenon
  <2>4. CASE ~(e < 4)
    <3>1. k = 6 * (4 * g + j) + (e - 4) /\ e - 4 \in 0 .. 5
      BY <1>4, <2>4
    <3> QED
      BY <1>2, <2>2, <2>4, <3>1, Zenon
  <2> QED
    BY <2>3, <2>4
<1>5. CASE j = 3
  <2>1. x = Third(p, q)
    BY <1>5 DEF Three, char_3, Third
  <2>2. BitOf(x, 8, e) = IF e < 2 THEN BitOf(p, 6, e + 4) ELSE BitOf(q, 6, e - 2)
    BY ONLY <1>1, <2>1, e \in 0 .. 7, BitsOfThird
  <2>3. CASE e < 2
    <3>1. k = 6 * (4 * g + j - 1) + (e + 4) /\ e + 4 \in 0 .. 5
      BY <1>5, <2>3
    <3> QED
      BY <1>2, <2>2, <2>3, <3>1, Zenon
  <2>4. CASE ~(e < 2)
    <3>1. k = 6 * (4 * g + j) + (e - 2) /\ e - 2 \in 0 .. 5
      BY <1>5, <2>4
    <3> QED
      BY <1>2, <2>2, <2>4, <3>1, Zenon
  <2> QED
    BY <2>3, <2>4
<1> QED
  BY <1>3, <1>4, <1>5

BitsRead(text, n) ==
    \A g \in Nat : \A j \in 1 .. 3 : \A e \in 0 .. 7 : 4 * g + j + 1 <= n =>
        BitOf(Three(text, g)[j], 8, e) = Bit(PlacesOf(text, n), 6, 24 * g + 8 * (j - 1) + e)

\* The bits of all of them.
LEMMA BitsOfThree == \A text : \A n \in Nat : InAlphabet(text, n) => BitsRead(text, n)
BY BitOfThree DEF BitsRead

\* A bit of the bytes that were decoded.
LEMMA BitOfBytes ==
    ASSUME NEW text, NEW n \in Nat, InAlphabet(text, n),
           NEW bytes, Decoding(bytes, text, n \div 4), Len(bytes) = (3 * n) \div 4,
           NEW k \in 0 .. 8 * Len(bytes) - 1
    PROVE  Bit(bytes, 8, k) = Bit(PlacesOf(text, n), 6, k)
<1> PICK m, e : m = k \div 8 /\ e = k % 8
  OBVIOUS
<1> PICK g, j : g = m \div 3 /\ j = (m % 3) + 1
  OBVIOUS
<1> PICK L \in Nat : L = Len(bytes) /\ L = (3 * n) \div 4
  OBVIOUS
<1>1. m \in 0 .. L - 1 /\ e \in 0 .. 7 /\ k = 8 * m + e
  OBVIOUS
<1>2. m + 1 = 3 * g + j /\ g \in Nat /\ j \in 1 .. 3 /\ k = 24 * g + 8 * (j - 1) + e
  BY ONLY <1>1, L \in Nat, g = m \div 3, j = (m % 3) + 1
<1>3. 4 * g + j + 1 <= n /\ g \in 0 .. n \div 4
  BY ONLY <1>1, <1>2, n \in Nat, L = (3 * n) \div 4, L \in Nat
<1>4. bytes[m + 1] = Three(text, g)[j]
  <2>1. 3 * g + j <= Len(bytes)
    BY <1>1, <1>2
  <2> QED
    BY <1>2, <1>3, <2>1, Zenon DEF Decoding
<1>5. Bit(bytes, 8, 8 * m + e) = BitOf(bytes[m + 1], 8, e)
  <2>1. m \in Nat /\ m < Len(bytes)
    BY <1>1
  <2>2. Bit(bytes, 8, 8 * m + e) = IF m < Len(bytes) THEN BitOf(bytes[m + 1], 8, e) ELSE 0
    BY <1>1, <2>1, BitAt
  <2> QED
    BY <2>1, <2>2
<1>6. BitOf(Three(text, g)[j], 8, e) = Bit(PlacesOf(text, n), 6, k)
  <2>1. BitsRead(text, n)
    BY BitsOfThree
  <2>2. e \in 0 .. 7 /\ 4 * g + j + 1 <= n /\ g \in Nat /\ j \in 1 .. 3 /\ k = 24 * g + 8 * (j - 1) + e
    BY <1>1, <1>2, <1>3
  <2> QED
    BY ONLY <2>1, <2>2 DEF BitsRead
<1> QED
  BY <1>1, <1>4, <1>5, <1>6, Zenon

\* base64_decode() writes the bits of the places it read.
LEMMA DecodedIsRight == BaseInv /\ Coded => DecodedRight
<1> SUFFICES ASSUME BaseInv, Coded, pc = "decoded" PROVE DecodedRight
  BY DEF DecodedRight
<1>1. /\ input \in Seq(Char) /\ out \in Seq(Byte) /\ pos \in 0 .. Len(input) /\ pos \in Nat
      /\ Len(out) = (3 * pos) \div 4
  BY DEF BaseInv, TypeOK, Lengths
<1>2. /\ \A k \in 1 .. pos : is_base64(input[k])
      /\ Decoding(out, input, pos \div 4) /\ ~MoreToDecode
  BY DEF Coded
<1> PICK end : end = SelectInSeq(input, LAMBDA c : ~is_base64(c))
  OBVIOUS
<1>3. pos = IF end = 0 THEN Len(input) ELSE end - 1
  <2>1. pos < Len(input) => ~is_base64(input[pos + 1])
    BY <1>2 DEF MoreToDecode
  <2> QED
    BY <1>1, <1>2, <2>1, AlphabetEnds
<1>4. Len(out) = (6 * pos) \div 8
  <2>1. \A x, p \in Nat : x = (3 * p) \div 4 => x = (6 * p) \div 8
    OBVIOUS
  <2> QED
    BY <1>1, <2>1
<1>5. InAlphabet(input, pos)
  BY <1>2 DEF InAlphabet
<1>6. \A k \in 0 .. 8 * Len(out) - 1 : Bit(out, 8, k) = Bit(PlacesOf(input, pos), 6, k)
  BY <1>1, <1>2, <1>5, BitOfBytes
<1> QED
  BY ONLY end = SelectInSeq(input, LAMBDA c : ~is_base64(c)), <1>3, <1>4, <1>6, Zenon DEF DecodedRight

\* Three bytes come back from their four places.
LEMMA PlacesBack ==
    ASSUME NEW a \in Byte, NEW b \in Byte, NEW c \in Byte, NEW four, four = char_4(a, b, c)
    PROVE  First(four[1], four[2]) = a /\ Second(four[2], four[3]) = b /\ Third(four[3], four[4]) = c
<1> PICK w, x, y, z : w = a \div 4 /\ x = (a % 4) * 16 + b \div 16 /\ y = (b % 16) * 4 + c \div 64 /\ z = c % 64
  OBVIOUS
<1>1. /\ a = 4 * w + (a % 4) /\ b = 16 * (b \div 16) + (b % 16) /\ c = 64 * (c \div 64) + z
      /\ w \in 0 .. 63 /\ a % 4 \in 0 .. 3 /\ b \div 16 \in 0 .. 15 /\ b % 16 \in 0 .. 15
      /\ c \div 64 \in 0 .. 3 /\ z \in 0 .. 63
  BY DEF Byte
<1> PICK h, i, l, r : h = a % 4 /\ i = b \div 16 /\ l = b % 16 /\ r = c \div 64
  OBVIOUS
<1>2. /\ a = 4 * w + h /\ b = 16 * i + l /\ c = 64 * r + z /\ x = h * 16 + i /\ y = l * 4 + r
      /\ w \in 0 .. 63 /\ h \in 0 .. 3 /\ i \in 0 .. 15 /\ l \in 0 .. 15 /\ r \in 0 .. 3 /\ z \in 0 .. 63
  BY <1>1
<1>3. First(w, x) = a
  <2>1. x \in 0 .. 63 /\ x \div 16 = h
    BY ONLY <1>2
  <2>2. (w * 4 + (x % 64) \div 16) % 256 = a
    BY ONLY <1>2, <2>1
  <2> QED
    BY <2>2 DEF First
<1>4. Second(x, y) = b
  <2>1. x % 16 = i /\ y \in 0 .. 63 /\ y \div 4 = l
    BY ONLY <1>2
  <2>2. ((x % 16) * 16 + (y % 64) \div 4) % 256 = b
    BY ONLY <1>2, <2>1
  <2> QED
    BY <2>2 DEF Second
<1>5. Third(y, z) = c
  <2>1. y % 4 = r
    BY ONLY <1>2
  <2>2. ((y % 4) * 64 + z) % 256 = c
    BY ONLY <1>2, <2>1
  <2> QED
    BY <2>2 DEF Third
<1>6. four[1] = w /\ four[2] = x /\ four[3] = y /\ four[4] = z
  BY DEF char_4
<1> QED
  BY <1>3, <1>4, <1>5, <1>6, Zenon

\* A byte of the text of an input is decoded to that byte.
LEMMA ByteBack ==
    ASSUME NEW in \in Seq(Byte), NEW text, NEW g \in Nat, NEW j \in 1 .. 3, 3 * g + j <= Len(in),
           find(text[4 * g + j]) = Six(in, g)[j], find(text[4 * g + j + 1]) = Six(in, g)[j + 1]
    PROVE  Three(text, g)[j] = in[3 * g + j]
<1> PICK a, b, c : a = At(in, 3 * g + 1) /\ b = At(in, 3 * g + 2) /\ c = At(in, 3 * g + 3)
  OBVIOUS
<1>1. a \in Byte /\ b \in Byte /\ c \in Byte
  <2>1. 3 * g + 1 \in Nat \ {0} /\ 3 * g + 2 \in Nat \ {0} /\ 3 * g + 3 \in Nat \ {0}
    OBVIOUS
  <2> QED
    BY <2>1, AtTyped
<1> PICK four : four = Six(in, g)
  OBVIOUS
<1>2. First(four[1], four[2]) = a /\ Second(four[2], four[3]) = b /\ Third(four[3], four[4]) = c
  <2>1. four = char_4(a, b, c)
    BY DEF Six
  <2> QED
    BY ONLY <1>1, <2>1, PlacesBack
<1>3. At(in, 3 * g + j) = in[3 * g + j]
  BY DEF At
<1>4. CASE j = 1
  <2>1. Three(text, g)[j] = First(find(text[4 * g + j]), find(text[4 * g + j + 1]))
    BY <1>4 DEF Three, char_3, First
  <2> QED
    BY <1>2, <1>3, <1>4, <2>1
<1>5. CASE j = 2
  <2>1. Three(text, g)[j] = Second(find(text[4 * g + j]), find(text[4 * g + j + 1]))
    BY <1>5 DEF Three, char_3, Second
  <2> QED
    BY <1>2, <1>3, <1>5, <2>1
<1>6. CASE j = 3
  <2>1. Three(text, g)[j] = Third(find(text[4 * g + j]), find(text[4 * g + j + 1]))
    BY <1>6 DEF Three, char_3, Third
  <2> QED
    BY <1>2, <1>3, <1>6, <2>1
<1> QED
  BY <1>4, <1>5, <1>6

\* What was encoded is decoded to itself.
LEMMA TextBack ==
    ASSUME NEW in \in Seq(Byte), NEW text \in Seq(Char), Encoding(text, in),
           NEW n \in 0 .. Len(text), InAlphabet(text, n), n < Len(text) => ~is_base64(text[n + 1]),
           NEW bytes \in Seq(Byte), Decoding(bytes, text, n \div 4), Len(bytes) = (3 * n) \div 4
    PROVE  bytes = in
<1> PICK L \in Nat : L = Len(in)
  OBVIOUS
<1> PICK N : N = (8 * L + 5) \div 6
  OBVIOUS
<1>1. \A k \in 1 .. Len(text) :
         IF k <= N THEN /\ is_base64(text[k])
                        /\ find(text[k]) = Six(in, (k - 1) \div 4)[((k - 1) % 4) + 1]
                   ELSE text[k] = "="
  BY TextOfInput
<1>2. Len(text) = 4 * ((L + 2) \div 3) /\ N \in Nat /\ N <= Len(text)
  <2>1. Len(text) = 4 * ((L + 2) \div 3)
    BY DEF Encoding
  <2> QED
    BY ONLY <2>1, L \in Nat, N = (8 * L + 5) \div 6
<1>3. n = N
  <2>1. CASE n < N
    <3>1. n + 1 \in 1 .. Len(text) /\ n + 1 <= N /\ n < Len(text)
      BY <1>2, <2>1
    <3> QED
      BY <1>1, <3>1
  <2>2. CASE n > N
    <3>1. N + 1 \in 1 .. Len(text) /\ ~(N + 1 <= N) /\ N + 1 \in 1 .. n
      BY <1>2, <2>2
    <3>2. text[N + 1] = "="
      BY <1>1, <3>1, Zenon
    <3> QED
      BY <3>1, <3>2, FindBack, Zenon DEF InAlphabet
  <2> QED
    BY <1>2, <2>1, <2>2
<1>4. Len(bytes) = L
  <2>1. Len(bytes) = (3 * N) \div 4
    BY <1>3
  <2> QED
    BY ONLY <2>1, L \in Nat, N = (8 * L + 5) \div 6
<1>5. ASSUME NEW m \in 1 .. L PROVE bytes[m] = in[m]
  <2> PICK g, j : g = (m - 1) \div 3 /\ j = ((m - 1) % 3) + 1
    OBVIOUS
  <2>1. m = 3 * g + j /\ g \in Nat /\ j \in 1 .. 3 /\ m <= L
    BY ONLY m \in 1 .. L, L \in Nat, g = (m - 1) \div 3, j = ((m - 1) % 3) + 1
  <2>2. 4 * g + j + 1 <= N /\ g \in 0 .. N \div 4
    BY ONLY <2>1, L \in Nat, N = (8 * L + 5) \div 6
  <2>3. bytes[m] = Three(text, g)[j]
    <3>1. 3 * g + j <= Len(bytes)
      BY <1>4, <2>1
    <3>2. g \in 0 .. n \div 4
      BY <1>3, <2>2
    <3> QED
      BY <2>1, <3>1, <3>2, Zenon DEF Decoding
  <2>4. \A i \in 1 .. 4 : 4 * g + i <= N => find(text[4 * g + i]) = Six(in, g)[i]
    <3> SUFFICES ASSUME NEW i \in 1 .. 4, 4 * g + i <= N PROVE find(text[4 * g + i]) = Six(in, g)[i]
      OBVIOUS
    <3> PICK k : k = 4 * g + i
      OBVIOUS
    <3>1. k \in 1 .. N /\ (k - 1) \div 4 = g /\ ((k - 1) % 4) + 1 = i
      BY ONLY <1>2, <2>1, i \in 1 .. 4, 4 * g + i <= N, k = 4 * g + i
    <3>2. k \in 1 .. Len(text) /\ k <= N
      BY <1>2, <3>1
    <3> QED
      BY <1>1, <3>1, <3>2, Zenon
  <2>5. find(text[4 * g + j]) = Six(in, g)[j] /\ find(text[4 * g + j + 1]) = Six(in, g)[j + 1]
    <3>1. j \in 1 .. 4 /\ j + 1 \in 1 .. 4 /\ 4 * g + j <= N /\ 4 * g + (j + 1) <= N
          /\ 4 * g + (j + 1) = 4 * g + j + 1
      BY <1>2, <2>1, <2>2
    <3> QED
      BY <2>4, <3>1, Zenon
  <2>6. Three(text, g)[j] = in[3 * g + j]
    BY <2>1, <2>5, ByteBack, ZenonT(60)
  <2> QED
    BY <2>1, <2>3, <2>6
<1>6. Len(bytes) = Len(in) /\ \A m \in 1 .. Len(in) : bytes[m] = in[m]
  BY <1>4, <1>5
<1> QED
  BY ONLY bytes \in Seq(Byte), in \in Seq(Byte), <1>6

\* RoundTrip of the call that decodes what base64_encode() returned.
LEMMA RoundTripHolds == BaseInv /\ Coded => RoundTrip
<1> SUFFICES ASSUME BaseInv, Coded, pc = "decoded", original # <<>> PROVE out = original
  BY DEF RoundTrip
<1>1. /\ input \in Seq(Char) /\ out \in Seq(Byte) /\ original \in Seq(Byte)
      /\ pos \in 0 .. Len(input) /\ Len(out) = (3 * pos) \div 4
  BY DEF BaseInv, TypeOK, Lengths
<1>2. InAlphabet(input, pos) /\ Encoding(input, original) /\ Decoding(out, input, pos \div 4)
  BY DEF Coded, InAlphabet
<1>3. pos < Len(input) => ~is_base64(input[pos + 1])
  BY DEF Coded, MoreToDecode
<1> QED
  BY ONLY <1>1, <1>2, <1>3, TextBack

-----------------------------------------------------------------------------
(* regex.c and isMatch().                                                  *)

\* The list of groups is there when there is a group to read and memory was not short.
GroupsListed == "list" \in blocks <=> count > 1 /\ ~short

\* The blocks that are held at each point.
Held ==
    /\ regex_pc \in {"ready", "filter", "compile"} => blocks = {} /\ count = -1
    /\ regex_pc \in {"ready", "filter", "compile", "exec", "list"} => ~short
    /\ regex_pc \in {"exec", "list"} => blocks \subseteq {"code", "ovec"}
    /\ regex_pc = "list" => count > 1
    /\ regex_pc = "free" => blocks \subseteq {"code", "ovec", "list"} /\ GroupsListed
    /\ regex_pc = "take" => blocks \subseteq {"list"} /\ GroupsListed
    /\ regex_pc \notin {"returned", "crashed"} => group = None
    /\ Matching!OnlyMissingGroupsLeak
    /\ Matching!ListExists

\* No filter tried so far matches, but the last one if it is returned; if none is, all are tried.
Tried ==
    /\ regex_pc = "filter" => out_filter = 0
    /\ out_filter \in {0, Len(verdicts)}
    /\ \A i \in 1 .. Len(verdicts) : verdicts[i] <=> i = out_filter
    /\ regex_pc \notin {"filter", "returned"} => verdicts = <<>> /\ todo = <<>>
    /\ regex_pc = "returned" /\ out_filter = 0 => todo = <<>>
    /\ regex_pc # "compile" \/ out_filter = 0

\* A call names a pattern or none.
Called == regex_pc = "exec" => pattern \in Patterns

MatchInv == Matching!TypeOK /\ Held /\ Called /\ Tried

LEMMA MatchInit == Matching!RegexAssumption /\ Matching!Init => MatchInv
<1> SUFFICES ASSUME Matching!RegexAssumption, Matching!Init PROVE MatchInv
  OBVIOUS
<1>1. Matching!TypeOK
  <2>1. short \in BOOLEAN
    BY Zenon DEF Matching!Init
  <2>2. /\ <<>> \in Seq(BOOLEAN) /\ <<>> \in Seq(Captures)
        /\ <<>> \in Seq(Patterns \cup {None}) /\ 0 \in 0 .. MaxWhich
    BY DEF Matching!RegexAssumption
  <2> QED
    BY <2>1, <2>2 DEF Matching!Init, Matching!TypeOK, Matching!Steps
<1>2. Held /\ Called
  BY DEF Matching!Init, Held, Called, Matching!OnlyMissingGroupsLeak, Matching!ListExists
<1>3. Tried
  BY DEF Matching!Init, Tried
<1> QED
  BY <1>1, <1>2, <1>3 DEF MatchInv

LEMMA MatchTypeStep ==
    ASSUME Matching!RegexAssumption, MatchInv, [Matching!Next]_(Matching!vars)
    PROVE  Matching!TypeOK'
<1> USE DEF Matching!TypeOK, Matching!Steps
<1>0. Matching!TypeOK
  BY DEF MatchInv
<1>1. ASSUME NEW filters \in Matching!BoundedSeq(Patterns \cup {None}, MaxFilters), Matching!isMatch(filters)
      PROVE  Matching!TypeOK'
  <2>1. filters \in Seq(Patterns \cup {None})
    BY <1>1 DEF Matching!BoundedSeq, Matching!SeqOf, Matching!RegexAssumption
  <2> QED
    BY <1>0, <1>1, <2>1 DEF Matching!isMatch, Matching!asked
<1>2. CASE \E p \in Patterns \cup {None}, which \in 0 .. MaxWhich : Matching!getRegExMatch(p, which)
  BY <1>0, <1>2 DEF Matching!getRegExMatch, Matching!filtering
<1>3. CASE Matching!Try
  <2>1. todo' \in Seq(Patterns \cup {None}) /\ verdicts' \in Seq(BOOLEAN)
    BY <1>0, <1>3 DEF Matching!Try
  <2>2. out_filter' \in Nat
    BY <1>0, <1>3 DEF Matching!Try
  <2> QED
    BY <1>0, <1>3, <2>1, <2>2 DEF Matching!Try, Matching!asked
<1>4. CASE Matching!NoFilterLeft \/ Matching!ExecFails \/ Matching!Free \/ Matching!NoSuchGroup \/ Matching!NoList
  BY <1>0, <1>4 DEF Matching!NoFilterLeft, Matching!ExecFails, Matching!Free, Matching!NoSuchGroup, Matching!NoList, Matching!asked, Matching!filtering
<1>10. CASE Matching!NotTried
  <2>1. count' \in {0, -1} /\ regex_pc' = "returned"
        /\ UNCHANGED <<Matching!filtering, Matching!asked, vector, found, group, blocks, short>>
    BY <1>10 DEF Matching!NotTried
  <2> QED
    BY <1>0, <2>1 DEF Matching!asked, Matching!filtering
<1>11. CASE Matching!GetList
  <2>1. short' \in BOOLEAN /\ blocks' \subseteq {"code", "ovec", "list", "result"}
    BY <1>0, <1>11 DEF Matching!GetList
  <2> QED
    BY <1>0, <1>11, <2>1 DEF Matching!GetList, Matching!asked, Matching!filtering
<1>5. CASE Matching!Compile
  <2>1. pattern \in Patterns
    BY <1>0, <1>5 DEF Matching!Compile, Matching!Compiles
  <2>2. PICK groups \in {pattern.groups, Fallback} : vector' = Matching!Pairs(groups)
    BY <1>5 DEF Matching!Compile
  <2>3. vector' \in Nat /\ vector' # 1
    BY <2>1, <2>2 DEF Matching!Pairs, Matching!RegexAssumption
  <2> QED
    BY <1>0, <1>5, <2>3 DEF Matching!Compile, Matching!asked, Matching!filtering
<1>6. ASSUME NEW n \in 1 .. MaxWhich + 1, NEW texts \in [1 .. n -> Captures], Matching!Exec(texts)
      PROVE  Matching!TypeOK'
  <2>1. texts \in Seq(Captures) /\ Len(texts) \in Nat
    BY DEF Matching!RegexAssumption
  <2> QED
    BY <1>0, <1>6, <2>1 DEF Matching!Exec, Matching!asked, Matching!filtering
<1>7. CASE Matching!TakeGroup
  BY <1>0, <1>7 DEF Matching!TakeGroup, Matching!asked, Matching!filtering
<1>8. CASE Matching!Release
  <2>1. short' \in BOOLEAN
    BY <1>8, Zenon DEF Matching!Release
  <2>2. /\ <<>> \in Seq(BOOLEAN) /\ <<>> \in Seq(Captures)
        /\ <<>> \in Seq(Patterns \cup {None}) /\ 0 \in 0 .. MaxWhich
    BY DEF Matching!RegexAssumption
  <2> QED
    BY <1>8, <2>1, <2>2 DEF Matching!Release
<1>9. CASE UNCHANGED Matching!vars
  BY <1>0, <1>9 DEF Matching!vars, Matching!asked, Matching!filtering
<1> QED
  BY <1>1, <1>2, <1>3, <1>4, <1>5, <1>6, <1>7, <1>8, <1>9, <1>10, <1>11
     DEF Matching!Next, Matching!Calls, Matching!Running

LEMMA MatchHeldStep ==
    ASSUME Matching!RegexAssumption, MatchInv, [Matching!Next]_(Matching!vars)
    PROVE  Held'
<1> USE DEF Held, GroupsListed, Matching!OnlyMissingGroupsLeak, Matching!ListExists
<1>0. Held /\ count \in Nat \cup {-1} /\ which_result \in Nat /\ short \in BOOLEAN
  BY DEF MatchInv, Matching!TypeOK, Matching!RegexAssumption
<1>1. CASE Matching!Calls
  BY <1>0, <1>1 DEF Matching!Calls, Matching!isMatch, Matching!getRegExMatch, Matching!filtering, Matching!asked
<1>2. CASE Matching!Try \/ Matching!NoFilterLeft
  BY <1>0, <1>2 DEF Matching!Try, Matching!NoFilterLeft, Matching!filtering, Matching!asked
<1>3. CASE Matching!Compile \/ Matching!NotTried
  BY <1>0, <1>3 DEF Matching!Compile, Matching!NotTried, Matching!filtering, Matching!asked
<1>4. CASE Matching!ExecFails
  BY <1>0, <1>4 DEF Matching!ExecFails, Matching!filtering, Matching!asked
<1>5. ASSUME NEW texts, Matching!Exec(texts) PROVE Held'
  <2>1. IF count' > 1 THEN regex_pc' = "list" ELSE regex_pc' = "free"
    BY <1>5 DEF Matching!Exec
  <2>2. regex_pc = "exec" /\ UNCHANGED <<which_result, group, blocks, short>>
    BY <1>5 DEF Matching!Exec, Matching!asked
  <2> QED
    BY <1>0, <2>1, <2>2
<1>6. CASE Matching!GetList
  BY <1>0, <1>6 DEF Matching!GetList, Matching!filtering, Matching!asked
<1>7. CASE Matching!Free
  BY <1>0, <1>7 DEF Matching!Free, Matching!filtering, Matching!asked
<1>8. CASE Matching!TakeGroup
  <2> DEFINE text == Matching!strstrip(Matching!am_strdup(found[which_result + 1]))
  <2>1. /\ regex_pc = "take" /\ regex_pc' = "returned" /\ count > which_result
        /\ group' = text /\ UNCHANGED <<count, which_result, short>>
        /\ blocks' = (blocks \ {"list"}) \cup (IF text = None THEN {} ELSE {"result"})
    BY <1>8 DEF Matching!TakeGroup, Matching!asked
  <2> HIDE DEF text
  <2> QED
    BY <1>0, <2>1
<1>9. CASE Matching!NoSuchGroup \/ Matching!NoList
  BY <1>0, <1>9 DEF Matching!NoSuchGroup, Matching!NoList, Matching!filtering, Matching!asked
<1>10. CASE Matching!Release \/ UNCHANGED Matching!vars
  BY <1>0, <1>10 DEF Matching!Release, Matching!vars, Matching!filtering, Matching!asked
<1> QED
  BY <1>1, <1>2, <1>3, <1>4, <1>5, <1>6, <1>7, <1>8, <1>9, <1>10 DEF Matching!Next, Matching!Running

LEMMA MatchTriedStep ==
    ASSUME Matching!RegexAssumption, MatchInv, [Matching!Next]_(Matching!vars)
    PROVE  Tried' /\ Called'
<1> USE DEF Tried, Called
<1>0. Tried /\ Called /\ verdicts \in Seq(BOOLEAN) /\ pattern \in Patterns \cup {None}
  BY DEF MatchInv, Matching!TypeOK
<1>1. CASE Matching!Calls
  BY <1>0, <1>1 DEF Matching!Calls, Matching!isMatch, Matching!getRegExMatch, Matching!filtering, Matching!asked
<1>2. CASE Matching!Try
  <2>1. PICK matched \in BOOLEAN :
            /\ verdicts' = Append(verdicts, matched)
            /\ out_filter' = IF matched THEN Len(verdicts) + 1 ELSE out_filter
            /\ regex_pc' = IF matched THEN "returned" ELSE regex_pc
    BY <1>2 DEF Matching!Try
  <2>2. /\ regex_pc = "filter" /\ out_filter = 0 /\ Len(verdicts') = Len(verdicts) + 1
        /\ verdicts'[Len(verdicts) + 1] = matched
        /\ \A i \in 1 .. Len(verdicts) : verdicts'[i] = verdicts[i] /\ ~verdicts[i]
    BY <1>0, <1>2, <2>1 DEF Matching!Try
  <2>3. \A i \in 1 .. Len(verdicts') : verdicts'[i] <=> i = out_filter'
    BY <1>0, <2>1, <2>2
  <2> QED
    BY <1>0, <2>1, <2>2, <2>3
<1>3. CASE Matching!NoFilterLeft \/ UNCHANGED Matching!vars
  BY <1>0, <1>3 DEF Matching!NoFilterLeft, Matching!vars, Matching!filtering, Matching!asked
<1>4. CASE Matching!Compile
  BY <1>0, <1>4 DEF Matching!Compile, Matching!Compiles, Matching!filtering, Matching!asked
<1>5. CASE Matching!NotTried \/ Matching!ExecFails \/ Matching!GetList \/ Matching!Free \/ Matching!TakeGroup \/ Matching!NoSuchGroup \/ Matching!NoList
  BY <1>0, <1>5 DEF Matching!NotTried, Matching!ExecFails, Matching!GetList, Matching!Free, Matching!TakeGroup, Matching!NoSuchGroup, Matching!NoList, Matching!filtering,
     Matching!asked
<1>6. ASSUME NEW texts, Matching!Exec(texts) PROVE Tried' /\ Called'
  BY <1>0, <1>6 DEF Matching!Exec, Matching!filtering, Matching!asked
<1>7. CASE Matching!Release
  BY <1>7 DEF Matching!Release
<1> QED
  BY <1>1, <1>2, <1>3, <1>4, <1>5, <1>6, <1>7 DEF Matching!Next, Matching!Running

LEMMA MatchStep == Matching!RegexAssumption /\ MatchInv /\ [Matching!Next]_(Matching!vars) => MatchInv'
BY MatchTypeStep, MatchHeldStep, MatchTriedStep DEF MatchInv

\* The variables of a call keep their types; ovec has never room for the whole match alone.
THEOREM RegexTypeCorrect ==
    ASSUME Matching!RegexAssumption
    PROVE  Matching!Spec => []Matching!TypeOK
<1>1. MatchInv => Matching!TypeOK
  BY DEF MatchInv
<1> QED
  BY <1>1, MatchInit, MatchStep, PTL DEF Matching!Spec

\* Whatever PCRE answers and whichever allocation fails, every block goes, but for the list of a
\* group that took no part; and a missing list is read only for group 0 or when memory was short.
THEOREM BlocksOfAMatch ==
    ASSUME Matching!RegexAssumption
    PROVE  Matching!Spec => [](Matching!OnlyMissingGroupsLeak /\ Matching!ListExists)
<1>1. MatchInv => Matching!OnlyMissingGroupsLeak /\ Matching!ListExists
  BY DEF MatchInv, Held
<1> QED
  BY <1>1, MatchInit, MatchStep, PTL DEF Matching!Spec

\* Tried is what FirstFilterWins means.
LEMMA FirstWins == MatchInv => Matching!FirstFilterWins
<1> SUFFICES ASSUME MatchInv, regex_pc = "returned"
             PROVE  out_filter = SelectInSeq(verdicts, LAMBDA v : v) /\ (out_filter = 0 => todo = <<>>)
  BY DEF Matching!FirstFilterWins, Matching!SelectInSeq, SelectInSeq, Matching!Min, Min
<1>1. Tried /\ verdicts \in Seq(BOOLEAN)
  BY DEF MatchInv, Matching!TypeOK
<1> DEFINE matching == { i \in 1 .. Len(verdicts) : verdicts[i] }
<1>2. SelectInSeq(verdicts, LAMBDA v : v) = IF matching # {} THEN Min(matching) ELSE 0
  BY DEF SelectInSeq
<1>3. CASE out_filter = 0
  <2>1. matching = {} /\ todo = <<>>
    BY <1>1, <1>3 DEF Tried
  <2> QED
    BY <1>2, <1>3, <2>1
<1>4. CASE out_filter # 0
  <2>1. matching = {out_filter} /\ out_filter \in Nat
    BY <1>1, <1>4 DEF Tried
  <2>2. Min({out_filter}) = out_filter
    BY <2>1 DEF Min
  <2> QED
    BY <1>2, <1>4, <2>1, <2>2
<1> QED
  BY <1>3, <1>4

\* isMatch() returns the first filter of the list that matches, for lists of every length, and none
\* only after trying all of them, whether they compile or not.
THEOREM FirstMatchingFilter ==
    ASSUME Matching!RegexAssumption
    PROVE  Matching!Spec => []Matching!FirstFilterWins
<1> QED
  BY FirstWins, MatchInit, MatchStep, PTL DEF Matching!Spec

-----------------------------------------------------------------------------
(* The group that getRegExMatch() returns.                                 *)

\* The least and the greatest place in a text that has one.
LEMMA LeastPlace ==
    ASSUME NEW n \in Nat, NEW I \in SUBSET (1 .. n), I # {}
    PROVE  /\ Matching!Min(I) \in I /\ \A i \in I : Matching!Min(I) <= i
           /\ Matching!Max(I) \in I /\ \A i \in I : Matching!Max(I) >= i
<1>1. I \in SUBSET Nat /\ I \in SUBSET (0 .. n)
  OBVIOUS
<1>2. \E m \in I : \A k \in I : m <= k
  BY <1>1, LeastNumber
<1>3. \E m \in I : \A k \in I : m >= k
  BY <1>1, GreatestNumber
<1>4. Matching!Min(I) \in I /\ \A i \in I : Matching!Min(I) <= i
  BY <1>2 DEF Matching!Min
<1> QED
  BY <1>3, <1>4 DEF Matching!Max

\* strstrip() leaves a text without the white space around it.
LEMMA StripIs ==
    ASSUME NEW S, NEW text \in Seq(S), None \notin Seq(S)
    PROVE  /\ Matching!strstrip(text) \in Seq(S)
           /\ Matching!IsTrimmed(Matching!strstrip(text), text)
<1> PICK n : n = Len(text)
  OBVIOUS
<1>0. n \in Nat /\ text # None
  OBVIOUS
<1> DEFINE I == {i \in 1 .. n : ~Matching!isspace(text[i])}
           len == IF I # {} THEN Matching!Max(I) ELSE 0
           first == IF I # {} THEN Matching!Min(I) ELSE 0
<1>1. Matching!strstrip(text) = IF len = 0 THEN <<>> ELSE SubSeq(text, first, len)
  BY <1>0 DEF Matching!strstrip, Matching!SelectLastInSeq, Matching!SelectInSeq
<1>2. CASE I = {}
  <2>1. Matching!strstrip(text) = <<>>
    BY <1>1, <1>2
  <2>2. <<>> = SubSeq(text, 0 + 1, 0) /\ 0 \in 0 .. n /\ <<>> \in Seq(S)
    BY <1>0
  <2>3. \A k \in 1 .. n : Matching!isspace(text[k])
    BY <1>2
  <2> QED
    BY <2>1, <2>2, <2>3 DEF Matching!IsTrimmed
<1>3. CASE I # {}
  <2> PICK a, j : a = Matching!Min(I) /\ j = Matching!Max(I)
    OBVIOUS
  <2>1. I \in SUBSET (1 .. n)
    OBVIOUS
  <2>2. a \in I /\ j \in I /\ \A i \in I : a <= i /\ j >= i
    BY ONLY <1>0, <1>3, <2>1, LeastPlace, a = Matching!Min(I), j = Matching!Max(I)
  <2>3. Matching!strstrip(text) = IF j = 0 THEN <<>> ELSE SubSeq(text, a, j)
    BY <1>1, <1>3
  <2>4. /\ a \in 1 .. n /\ j \in 1 .. n /\ a <= j
        /\ ~Matching!isspace(text[a]) /\ ~Matching!isspace(text[j])
        /\ \A k \in 1 .. n : k < a \/ k > j => Matching!isspace(text[k])
    <3>1. \A i \in 1 .. n : i \in I <=> ~Matching!isspace(text[i])
      OBVIOUS
    <3> HIDE DEF I
    <3> QED
      BY ONLY <1>0, <2>1, <2>2, <3>1
  <2> HIDE DEF I
  <2> PICK r : r = SubSeq(text, a, j)
    OBVIOUS
  <2>5. Matching!strstrip(text) = r
    BY <2>3, <2>4
  <2>6. r \in Seq(S) /\ Len(r) = j - a + 1 /\ r[1] = text[a] /\ r[j - a + 1] = text[j]
    BY ONLY <1>0, <2>4, r = SubSeq(text, a, j), text \in Seq(S), n = Len(text)
  <2>7. ~Matching!isspace(Head(r)) /\ ~Matching!isspace(Matching!Last(r))
    BY <2>4, <2>6 DEF Matching!Last
  <2> PICK i : i = a - 1
    OBVIOUS
  <2>8. /\ i \in 0 .. n /\ j \in 0 .. n /\ i <= j /\ i + 1 = a
        /\ \A k \in 1 .. n : k <= i \/ k > j => Matching!isspace(text[k])
    BY <1>0, <2>4
  <2>9. r = SubSeq(text, i + 1, j)
    BY <2>8
  <2>10. Matching!IsTrimmed(r, text)
    BY <2>7, <2>8, <2>9 DEF Matching!IsTrimmed
  <2> QED
    BY <2>5, <2>6, <2>10
<1> QED
  BY <1>2, <1>3

\* ovec has room for the groups there are, or for those that are assumed.
RoomFor(p) == vector \in {Matching!Pairs(p.groups), Matching!Pairs(Fallback)}

\* What PCRE found and what the count says of it.
Found ==
    /\ regex_pc \in {"ready", "filter"} => which_result = 0
    /\ regex_pc \in {"ready", "filter", "compile", "exec"} => found = <<>>
    /\ regex_pc = "exec" => RoomFor(pattern)
    /\ found = <<>> => count \in {-1, 0}
    /\ found # <<>> => /\ pattern \in Patterns /\ RoomFor(pattern)
                       /\ Len(found) <= pattern.groups + 1
                       /\ count = IF Len(found) <= vector THEN Len(found) ELSE 0

\* With as many groups as are assumed, ovec has room for every group but the whole match alone.
LEMMA CountIs ==
    ASSUME Matching!RegexAssumption, MatchInv, Found, found # <<>>, pattern.groups <= Fallback
    PROVE  count = Len(found) \/ Len(found) = 1
<1>1. /\ pattern \in Patterns /\ pattern.groups \in Nat /\ Fallback \in Nat /\ Len(found) \in Nat
      /\ Len(found) >= 1 /\ Len(found) <= pattern.groups + 1
  BY DEF Found, Matching!RegexAssumption, MatchInv, Matching!TypeOK
<1>2. CASE pattern.groups = 0
  <2> PICK n, g : n = Len(found) /\ g = pattern.groups
    OBVIOUS
  <2>1. n \in Nat /\ g \in Nat /\ n >= 1 /\ n <= g + 1 /\ g = 0
    BY <1>1, <1>2, Zenon
  <2>2. n = 1
    BY ONLY <2>1
  <2> QED
    BY <2>2
<1>3. CASE pattern.groups # 0
  <2>1. vector \in {pattern.groups + 1, Fallback + 1}
    BY <1>1, <1>3 DEF Found, RoomFor, Matching!Pairs
  <2>2. Len(found) <= vector
    BY <1>1, <2>1
  <2> QED
    BY <2>2 DEF Found
<1> QED
  BY <1>2, <1>3

\* The group that is taken out of the list is trimmed.
LEMMA TakenIs ==
    ASSUME Matching!RegexAssumption, NEW text \in Captures
    PROVE  LET taken == Matching!strstrip(Matching!am_strdup(text))
           IN  IF text = <<>> THEN taken = None ELSE taken # None /\ Matching!IsTrimmed(taken, text)
<1>1. text \in Seq(STRING) /\ None \notin Seq(STRING)
  BY DEF Matching!RegexAssumption
<1>2. CASE text = <<>>
  <2>1. Matching!am_strdup(text) = None
    BY <1>2 DEF Matching!am_strdup
  <2>2. Matching!strstrip(None) = None
    BY DEF Matching!strstrip
  <2> QED
    BY <1>2, <2>1, <2>2
<1>3. CASE text # <<>>
  <2>1. Matching!am_strdup(text) = text
    BY <1>3 DEF Matching!am_strdup
  <2>2. Matching!strstrip(text) \in Seq(STRING) /\ Matching!IsTrimmed(Matching!strstrip(text), text)
    BY <1>1, StripIs
  <2> QED
    BY <1>1, <1>3, <2>1, <2>2
<1> QED
  BY <1>2, <1>3

LEMMA MatchFoundStep ==
    ASSUME Matching!RegexAssumption, MatchInv, Found, [Matching!Next]_(Matching!vars)
    PROVE  Found'
<1> USE DEF Found
<1>1. CASE Matching!Calls
  BY <1>1 DEF Matching!Calls, Matching!isMatch, Matching!getRegExMatch, Matching!filtering, Matching!asked, RoomFor
<1>2. CASE Matching!Try \/ Matching!NoFilterLeft \/ Matching!GetList \/ Matching!Free \/ Matching!TakeGroup
          \/ Matching!NoSuchGroup \/ Matching!NoList \/ UNCHANGED Matching!vars
  <2>1. /\ UNCHANGED <<pattern, which_result, vector, found, count>>
        /\ regex_pc' \in {"ready", "filter", "compile", "exec"} => regex_pc' = regex_pc
    BY <1>2 DEF Matching!Try, Matching!NoFilterLeft, Matching!GetList, Matching!Free, Matching!TakeGroup,
       Matching!NoSuchGroup, Matching!NoList, Matching!vars, Matching!filtering, Matching!asked
  <2> QED
    BY <2>1 DEF RoomFor
<1>3. CASE Matching!Compile
  <2>1. PICK groups \in {pattern.groups, Fallback} : vector' = Matching!Pairs(groups)
    BY <1>3 DEF Matching!Compile
  <2>2. regex_pc = "compile" /\ regex_pc' = "exec" /\ UNCHANGED <<pattern, which_result, found, count>>
    BY <1>3 DEF Matching!Compile, Matching!filtering, Matching!asked
  <2> QED
    BY <2>1, <2>2 DEF RoomFor
<1>4. CASE Matching!NotTried \/ Matching!ExecFails
  BY <1>4 DEF Matching!NotTried, Matching!ExecFails, Matching!filtering, Matching!asked
<1>5. ASSUME NEW n \in 1 .. MaxWhich + 1, NEW texts \in [1 .. n -> Captures], Matching!Exec(texts)
      PROVE  Found'
  <2>1. /\ regex_pc = "exec" /\ found' = texts /\ UNCHANGED <<pattern, which_result, vector>>
        /\ count' = IF Len(texts) <= vector THEN Len(texts) ELSE 0
        /\ Len(texts) \in 1 .. pattern.groups + 1
    BY <1>5 DEF Matching!Exec, Matching!filtering, Matching!asked
  <2>2. regex_pc' \in {"list", "free"}
    BY <1>5 DEF Matching!Exec
  <2>3. pattern \in Patterns /\ pattern.groups \in Nat /\ RoomFor(pattern)
    BY <2>1 DEF MatchInv, Called, Matching!RegexAssumption
  <2>4. texts # <<>> /\ Len(texts) <= pattern.groups + 1
    BY <2>1, <2>3
  <2> QED
    BY <2>1, <2>2, <2>3, <2>4 DEF RoomFor
<1>6. CASE Matching!Release
  BY <1>6 DEF Matching!Release
<1> QED
  BY <1>1, <1>2, <1>3, <1>4, <1>5, <1>6 DEF Matching!Next, Matching!Running

LEMMA GroupStep ==
    ASSUME Matching!RegexAssumption, MatchInv, Found, Matching!GroupReturned,
           [Matching!Next]_(Matching!vars)
    PROVE  Matching!GroupReturned'
<1> SUFFICES ASSUME regex_pc' = "returned", which_result' > 0, ~short'
             PROVE  IF which_result' >= Len(found') THEN group' = None
                    ELSE LET text == found'[which_result' + 1]
                         IN  pattern'.groups <= Fallback =>
                                IF text = <<>> THEN group' = None
                                ELSE group' # None /\ Matching!IsTrimmed(group', text)
  BY DEF Matching!GroupReturned, Matching!IsTrimmed, Matching!isspace, Matching!Last
<1>0. /\ found \in Seq(Captures) /\ Len(found) \in Nat /\ which_result \in Nat /\ count \in Nat \cup {-1}
      /\ regex_pc \notin {"returned", "crashed"} => group = None
  BY DEF MatchInv, Matching!TypeOK, Held, Matching!RegexAssumption
<1>1. CASE Matching!Calls \/ Matching!Compile \/ Matching!GetList \/ Matching!Free \/ Matching!NoList
           \/ Matching!ExecFails \/ Matching!Release \/ \E texts : Matching!Exec(texts)
  BY <1>1 DEF Matching!Calls, Matching!isMatch, Matching!getRegExMatch, Matching!Compile, Matching!GetList,
     Matching!Free, Matching!NoList, Matching!ExecFails, Matching!Release, Matching!Exec
<1>2. CASE Matching!Try \/ Matching!NoFilterLeft
  BY <1>2 DEF Matching!Try, Matching!NoFilterLeft, Matching!asked, Found
<1>3. CASE Matching!NotTried
  BY <1>0, <1>3 DEF Matching!NotTried, Matching!asked, Found
<1>4. CASE Matching!NoSuchGroup
  <2>1. /\ regex_pc = "take" /\ count <= which_result /\ group' = None
        /\ UNCHANGED <<which_result, found, pattern>>
    BY <1>0, <1>4 DEF Matching!NoSuchGroup, Matching!filtering, Matching!asked
  <2>2. CASE which_result >= Len(found)
    BY <2>1, <2>2
  <2>3. CASE ~(which_result >= Len(found))
    <3>0. which_result > 0
      BY <2>1
    <3>1. Len(found) # 1 /\ count # Len(found) /\ Len(found) > 0
      <4> PICK n : n = Len(found)
        OBVIOUS
      <4>1. /\ n \in Nat /\ which_result \in Nat /\ count \in Nat \cup {-1}
            /\ count <= which_result /\ ~(which_result >= n)
        BY <1>0, <2>1, <2>3, Zenon
      <4>2. n # 1 /\ count # n /\ n > 0
        BY ONLY <3>0, <4>1
      <4> QED
        BY <4>2, Zenon
    <3>2. found # <<>>
      BY <3>1
    <3>3. ~(pattern.groups <= Fallback)
      BY <3>1, <3>2, CountIs
    <3> QED
      BY <2>1, <2>3, <3>3
  <2> QED
    BY <2>2, <2>3
<1>5. CASE Matching!TakeGroup
  <2>1. /\ count > which_result /\ UNCHANGED <<which_result, found, pattern, count>>
        /\ group' = Matching!strstrip(Matching!am_strdup(found[which_result + 1]))
    BY <1>5 DEF Matching!TakeGroup, Matching!filtering, Matching!asked
  <2>2. which_result < Len(found)
    BY <1>0, <2>1 DEF Found
  <2>3. found[which_result + 1] \in Captures
    BY <1>0, <2>2
  <2> PICK text : text = found[which_result + 1]
    OBVIOUS
  <2>4. IF text = <<>> THEN group' = None ELSE group' # None /\ Matching!IsTrimmed(group', text)
    BY <2>1, <2>3, TakenIs
  <2> QED
    BY <1>0, <2>1, <2>2, <2>4
<1>6. CASE UNCHANGED Matching!vars
  BY <1>6 DEF Matching!vars, Matching!filtering, Matching!asked, Matching!GroupReturned
<1> QED
  BY <1>1, <1>2, <1>3, <1>4, <1>5, <1>6 DEF Matching!Next, Matching!Running

\* Nothing is found yet.
LEMMA MatchFoundInit == Matching!RegexAssumption /\ Matching!Init => Found /\ Matching!GroupReturned
BY DEF Matching!Init, Found, Matching!GroupReturned

-----------------------------------------------------------------------------
(* list.c.                                                                 *)

Leads(nxt, first, s) ==
    /\ s \in Seq(Nodes) /\ IsInjective(s)
    /\ first = IF s = <<>> THEN None ELSE s[1]
    /\ \A i \in 1 .. Len(s) : nxt[s[i]] = IF i < Len(s) THEN s[i + 1] ELSE None
\* The nodes ns have the elements els, one each.
Owned(dat, ns, els) ==
    /\ \A n \in ns : dat[n] \in Elements
    /\ {dat[n] : n \in ns} = els
    /\ \A m, n \in ns : dat[m] = dat[n] => m = n

\* Where the walk along the list s is, and what it has kept.
Walking(s) ==
    IF s = <<>> THEN current = None
    ELSE \E i \in 1 .. Len(s) :
            /\ current = s[i]
            /\ list_pc = "unlink" => result = IF i = 1 THEN None ELSE s[i - 1]

InList(s) ==
    /\ Leads(next, head, s)
    /\ list_pc \in {"rest", "free"} => current = None /\ result = None
    /\ nodes = IF list_pc = "append" THEN Range(s) \cup {newnode} ELSE Range(s)
    /\ list_pc \in {"append", "last", "unlink"} => Walking(s)
    /\ list_pc = "append" => newnode \in Nodes \ Range(s) /\ next[newnode] = None
    /\ list_pc \in {"last", "unlink"} => Len(s) # 1
    /\ IF list_pc = "unlink" /\ s # <<>>
       THEN /\ data[s[Len(s)]] \notin elements
            /\ Owned(data, nodes, (elements \ lost) \cup {data[s[Len(s)]]})
       ELSE Owned(data, nodes, elements \ lost)

Turning(t, u) ==
    /\ Leads(next, result, t) /\ Leads(next, current, u)
    /\ Range(t) \cap Range(u) = {}
    /\ nodes = Range(t) \cup Range(u)
    /\ Owned(data, nodes, elements \ lost)

HeapInv == IF list_pc = "reverse" THEN Turning(List!Chain(result), List!Chain(current)) ELSE InList(List!Chain(head))

ListInv == List!TypeOK /\ List!NoDangling /\ HeapInv

ChainOf(nxt, first) ==
    LET at[k \in 0 .. List!Cardinality(Nodes)] ==
            IF k = 0 THEN first
            ELSE IF at[k - 1] = None THEN None ELSE nxt[at[k - 1]]
        length == List!Cardinality({k \in DOMAIN at : at[k] # None})
    IN [k \in 1 .. length |-> at[k - 1]]

LEMMA SameCardinality == ASSUME NEW S PROVE List!Cardinality(S) = Cardinality(S)
BY DEF List!Cardinality, Cardinality

LEMMA ChainIs ==
    ASSUME List!HeapAssumption, NEW nxt, NEW first, NEW s, Leads(nxt, first, s)
    PROVE  ChainOf(nxt, first) = s
<1> DEFINE N == List!Cardinality(Nodes)
           at == CHOOSE at : at = [k \in 0 .. N |-> IF k = 0 THEN first
                                     ELSE IF at[k - 1] = None THEN None ELSE nxt[at[k - 1]]]
           want == [k \in 0 .. N |-> IF k < Len(s) THEN s[k + 1] ELSE None]
<1>1. N \in Nat /\ Len(s) <= N /\ Len(s) \in Nat
  <2>1. s \in Injection(1 .. Len(s), Nodes)
    BY DEF Leads, Injection
  <2>2. N = Cardinality(Nodes) /\ IsFiniteSet(Nodes)
    BY SameCardinality DEF List!HeapAssumption, List!IsFiniteSet, IsFiniteSet
  <2> HIDE DEF N
  <2>3. Cardinality(1 .. Len(s)) <= N /\ N \in Nat
    BY <2>1, <2>2, FS_Injection, FS_CardinalityType
  <2> QED
    BY <2>3, FS_Interval, LenProperties DEF Leads
<1>2. want = [k \in 0 .. N |-> IF k = 0 THEN first
                ELSE IF want[k - 1] = None THEN None ELSE nxt[want[k - 1]]]
  <2> SUFFICES ASSUME NEW k \in 0 .. N
               PROVE  want[k] = IF k = 0 THEN first
                          ELSE IF want[k - 1] = None THEN None ELSE nxt[want[k - 1]]
    OBVIOUS
  <2>1. CASE k = 0
    BY <1>1, <2>1 DEF Leads
  <2>2. CASE k # 0 /\ k - 1 < Len(s)
    <3>1. want[k - 1] = s[k] /\ s[k] \in Nodes /\ s[k] # None
      BY <1>1, <2>2 DEF Leads, List!HeapAssumption
    <3> QED
      BY <1>1, <2>2, <3>1 DEF Leads
  <2>3. CASE k # 0 /\ ~(k - 1 < Len(s))
    BY <1>1, <2>3, SMTT(30)
  <2> QED
    BY <1>1, <2>1, <2>2, <2>3
<1>3. at = [k \in 0 .. N |-> IF k = 0 THEN first
                                     ELSE IF at[k - 1] = None THEN None ELSE nxt[at[k - 1]]]
  <2> HIDE DEF want
  <2> QED BY <1>2, Zenon
<1> HIDE DEF at, N
<1>a. \A k \in 0 .. N : k # 0 => at[k] = IF at[k - 1] = None THEN None ELSE nxt[at[k - 1]]
  BY <1>3
<1>b. \A k \in 0 .. N : k # 0 => want[k] = IF want[k - 1] = None THEN None ELSE nxt[want[k - 1]]
  <2> HIDE DEF want
  <2> QED BY <1>2
<1>4. \A k \in Nat : k <= N => at[k] = want[k]
  <2> DEFINE T == {k \in Nat : k <= N => at[k] = want[k]}
  <2>1. 0 \in T
    <3>1. at[0] = first
      BY <1>1, <1>3
    <3>2. want[0] = first
      BY <1>1 DEF Leads
    <3> QED
      BY <3>1, <3>2
  <2>2. ASSUME NEW k \in Nat, k \in T PROVE k + 1 \in T
    <3>1. CASE k + 1 <= N
      <4>1. at[k] = want[k] /\ k + 1 \in 0 .. N /\ k + 1 # 0 /\ k + 1 - 1 = k
        BY <1>1, <2>2, <3>1
      <4> HIDE DEF want
      <4>2. at[k + 1] = IF at[k] = None THEN None ELSE nxt[at[k]]
        BY <1>a, <4>1
      <4>3. want[k + 1] = IF want[k] = None THEN None ELSE nxt[want[k]]
        BY <1>b, <4>1
      <4> QED
        BY <4>1, <4>2, <4>3
    <3> QED
      BY <1>1, <3>1
  <2> HIDE DEF T
  <2>3. Nat \subseteq T
    BY <2>1, <2>2, Induction
  <2> QED
    BY <2>3 DEF T
<1>5. at = want
  BY <1>1, <1>3, <1>4
<1>6. {k \in DOMAIN at : at[k] # None} = 0 .. Len(s) - 1
  <2>1. \A k \in 0 .. N : k < Len(s) => s[k + 1] \in Nodes
    BY <1>1 DEF Leads
  <2> QED
    BY <1>1, <1>5, <2>1 DEF List!HeapAssumption
<1>7. List!Cardinality({k \in DOMAIN at : at[k] # None}) = Len(s)
  <2> DEFINE places == {k \in DOMAIN at : at[k] # None}
  <2>1. Cardinality(0 .. Len(s) - 1) = Len(s)
    <3> DEFINE m == Len(s) - 1
    <3>1. m \in Int /\ (0 > m <=> Len(s) = 0) /\ m - 0 + 1 = Len(s)
      BY <1>1
    <3> HIDE DEF m
    <3>2. Cardinality(0 .. m) = IF 0 > m THEN 0 ELSE m - 0 + 1
      BY <3>1, FS_Interval
    <3>3. Cardinality(0 .. m) = Len(s)
      BY <1>1, <3>1, <3>2
    <3> QED
      BY <3>3 DEF m
  <2>2. places = 0 .. Len(s) - 1
    BY <1>6
  <2> HIDE DEF places
  <2>3. List!Cardinality(places) = Len(s)
    BY <2>1, <2>2, SameCardinality
  <2> QED
    BY <2>3 DEF places
<1>8. [k \in 1 .. Len(s) |-> at[k - 1]] = s
  BY <1>1, <1>5 DEF Leads
<1>9. ChainOf(nxt, first) = [k \in 1 .. List!Cardinality({k \in DOMAIN at : at[k] # None}) |-> at[k - 1]]
  BY DEF ChainOf, at, N
<1> QED
  BY <1>7, <1>8, <1>9

\* Lists made of a list.
LEMMA LeadsCons ==
    ASSUME NEW nxt \in [Nodes -> Nodes \cup {None}], NEW first, NEW s, Leads(nxt, first, s),
           NEW n \in Nodes \ Range(s), NEW to, to = [nxt EXCEPT ![n] = first]
    PROVE  Leads(to, n, <<n>> \o s)
<1> DEFINE t == <<n>> \o s
<1>1. /\ t \in Seq(Nodes) /\ Len(t) = Len(s) + 1 /\ t[1] = n /\ t # <<>>
      /\ \A i \in 1 .. Len(s) : t[i + 1] = s[i]
      /\ \A i \in 2 .. Len(t) : t[i] = s[i - 1] /\ i - 1 \in 1 .. Len(s)
  BY DEF Leads
<1>2. \A i \in 1 .. Len(s) : s[i] \in Nodes /\ s[i] # n
  BY DEF Leads, Range
<1>3. DOMAIN t = 1 .. Len(t) /\ DOMAIN s = 1 .. Len(s) /\ Len(s) \in Nat
  BY <1>1 DEF Leads
<1> HIDE DEF t
<1>4. IsInjective(t)
  <2> SUFFICES ASSUME NEW i \in 1 .. Len(t), NEW j \in 1 .. Len(t), t[i] = t[j], i # j PROVE FALSE
    BY <1>3 DEF IsInjective
  <2>1. i # 1
    <3> SUFFICES ASSUME i = 1 PROVE FALSE
      OBVIOUS
    <3>1. t[j] = s[j - 1] /\ j - 1 \in 1 .. Len(s) /\ t[j] = n
      BY <1>1, <1>3
    <3> QED
      BY <1>2, <3>1
  <2>2. j # 1
    <3> SUFFICES ASSUME j = 1 PROVE FALSE
      OBVIOUS
    <3>1. t[i] = s[i - 1] /\ i - 1 \in 1 .. Len(s) /\ t[i] = n
      BY <1>1, <1>3
    <3> QED
      BY <1>2, <3>1
  <2>3. i # 1 /\ j # 1
    BY <2>1, <2>2
  <2>4. s[i - 1] = s[j - 1] /\ i - 1 \in 1 .. Len(s) /\ j - 1 \in 1 .. Len(s)
    BY <1>1, <1>3, <2>3
  <2>5. \A k, l \in 1 .. Len(s) : s[k] = s[l] => k = l
    BY <1>3 DEF Leads, IsInjective
  <2>6. i - 1 = j - 1
    BY <2>4, <2>5
  <2> QED
    BY <1>3, <2>6
<1>6. \A i \in 1 .. Len(t) : to[t[i]] = IF i < Len(t) THEN t[i + 1] ELSE None
  <2> SUFFICES ASSUME NEW i \in 1 .. Len(t)
               PROVE  to[t[i]] = IF i < Len(t) THEN t[i + 1] ELSE None
    OBVIOUS
  <2>1. CASE i = 1
    <3>1. s = <<>> <=> Len(s) = 0
      BY DEF Leads
    <3>2. first = IF 1 < Len(t) THEN t[2] ELSE None
      BY <1>1, <1>3, <3>1 DEF Leads
    <3> QED
      BY <1>1, <2>1, <3>2
  <2>2. CASE i # 1
    <3>1. t[i] = s[i - 1] /\ i - 1 \in 1 .. Len(s) /\ s[i - 1] # n /\ s[i - 1] \in Nodes
      BY <1>1, <1>2, <1>3, <2>2
    <3>2. nxt[s[i - 1]] = IF i - 1 < Len(s) THEN s[i] ELSE None
      BY <1>3, <3>1, SMTT(30) DEF Leads
    <3>3. i < Len(t) => t[i + 1] = s[i]
      BY <1>1, <1>3, <3>1
    <3> QED
      BY <1>1, <1>3, <3>1, <3>2, <3>3
  <2> QED
    BY <2>1, <2>2
<1>7. Leads(to, n, t)
  BY <1>1, <1>4, <1>6 DEF Leads
<1> QED
  BY <1>7 DEF t

\* The links of other nodes do not matter.
LEMMA LeadsSame ==
    ASSUME NEW nxt, NEW other, NEW first, NEW s, Leads(nxt, first, s),
           \A n \in Range(s) : other[n] = nxt[n]
    PROVE  Leads(other, first, s)
BY DEF Leads, Range

LEMMA FirstOf ==
    ASSUME NEW nxt, NEW first, NEW s, Leads(nxt, first, s)
    PROVE  first \in Range(s) \cup {None}
<1>1. s \in Seq(Nodes) /\ first = IF s = <<>> THEN None ELSE s[1]
  BY DEF Leads
<1>2. ASSUME s # <<>> PROVE s[1] \in Range(s)
  <2>1. 1 \in DOMAIN s
    BY <1>1, <1>2
  <2> QED
    BY <2>1 DEF Range
<1> QED
  BY <1>1, <1>2

LEMMA LeadsTail ==
    ASSUME List!HeapAssumption, NEW nxt, NEW first, NEW s, Leads(nxt, first, s), first # None
    PROVE  /\ s # <<>> /\ first = s[1] /\ first \in Nodes /\ first \notin Range(Tail(s))
           /\ Leads(nxt, nxt[first], Tail(s))
           /\ Range(s) = Range(Tail(s)) \cup {first}
<1> DEFINE t == Tail(s)
<1>1. s # <<>> /\ s \in Seq(Nodes) /\ first = s[1] /\ Len(s) \in Nat /\ Len(s) >= 1
  BY DEF Leads
<1>2. /\ t \in Seq(Nodes) /\ Len(t) = Len(s) - 1
      /\ \A i \in 1 .. Len(t) : t[i] = s[i + 1]
  BY <1>1
<1>3. DOMAIN t = 1 .. Len(t) /\ DOMAIN s = 1 .. Len(s)
  BY <1>1, <1>2
<1> HIDE DEF t
<1>4. IsInjective(t)
  <2> SUFFICES ASSUME NEW i \in 1 .. Len(t), NEW j \in 1 .. Len(t), t[i] = t[j] PROVE i = j
    BY <1>3 DEF IsInjective
  <2>1. s[i + 1] = s[j + 1] /\ i + 1 \in 1 .. Len(s) /\ j + 1 \in 1 .. Len(s)
    BY <1>1, <1>2
  <2>2. i + 1 = j + 1
    BY <1>3, <2>1 DEF Leads, IsInjective
  <2> QED
    BY <2>2
<1>5. first \notin Range(t)
  <2> SUFFICES ASSUME NEW i \in 1 .. Len(t), t[i] = first PROVE FALSE
    BY <1>3 DEF Range
  <2>1. s[i + 1] = s[1] /\ i + 1 \in 1 .. Len(s) /\ 1 \in 1 .. Len(s)
    BY <1>1, <1>2
  <2>2. i + 1 = 1
    BY <1>3, <2>1 DEF Leads, IsInjective
  <2> QED
    BY <2>2
<1>6. Range(s) = Range(t) \cup {first}
  <2>1. \A i \in 1 .. Len(t) : i + 1 \in 1 .. Len(s) /\ s[i + 1] = t[i]
    BY <1>1, <1>2
  <2>2. \A i \in 1 .. Len(s) : i # 1 => i - 1 \in 1 .. Len(t) /\ t[i - 1] = s[i]
    <3> SUFFICES ASSUME NEW i \in 1 .. Len(s), i # 1 PROVE i - 1 \in 1 .. Len(t) /\ t[i - 1] = s[i]
      OBVIOUS
    <3>1. i - 1 \in 1 .. Len(t) /\ (i - 1) + 1 = i
      BY <1>1, <1>2
    <3> QED
      BY <1>2, <3>1
  <2>3. Range(t) \subseteq Range(s) /\ first \in Range(s)
    BY <1>1, <1>3, <2>1 DEF Range
  <2>4. Range(s) \subseteq Range(t) \cup {first}
    BY <1>1, <1>3, <2>2 DEF Range
  <2> QED
    BY <2>3, <2>4
<1>7. Leads(nxt, nxt[first], t)
  <2>1. nxt[first] = IF 1 < Len(s) THEN s[2] ELSE None
    BY <1>1 DEF Leads
  <2>2. nxt[first] = IF t = <<>> THEN None ELSE t[1]
    BY <1>1, <1>2, <2>1
  <2>3. ASSUME NEW i \in 1 .. Len(t) PROVE nxt[t[i]] = IF i < Len(t) THEN t[i + 1] ELSE None
    <3>1. t[i] = s[i + 1] /\ i + 1 \in 1 .. Len(s)
      BY <1>1, <1>2
    <3>2. nxt[s[i + 1]] = IF i + 1 < Len(s) THEN s[i + 2] ELSE None
      BY <1>1, <3>1 DEF Leads
    <3>3. i < Len(t) => t[i + 1] = s[i + 2]
      BY <1>1, <1>2
    <3> QED
      BY <1>1, <1>2, <3>1, <3>2, <3>3
  <2> QED
    BY <1>2, <1>4, <2>2, <2>3 DEF Leads
<1>8. first \in Nodes
  BY <1>1
<1> QED
  BY <1>1, <1>5, <1>6, <1>7, <1>8 DEF t

LEMMA LeadsAppend ==
    ASSUME NEW nxt \in [Nodes -> Nodes \cup {None}], NEW first, NEW s, Leads(nxt, first, s),
           NEW n \in Nodes \ Range(s), nxt[n] = None,
           NEW to, s # <<>> => to = [nxt EXCEPT ![s[Len(s)]] = n]
    PROVE  /\ s = <<>> => Leads(nxt, n, Append(s, n))
           /\ s # <<>> => Leads(to, first, Append(s, n))
           /\ Range(Append(s, n)) = Range(s) \cup {n}
<1> DEFINE t == Append(s, n)
<1>0. s \in Seq(Nodes) /\ Len(s) \in Nat /\ \A i \in 1 .. Len(s) : s[i] \in Nodes /\ s[i] # n
  BY DEF Leads, Range
<1>1. /\ t \in Seq(Nodes) /\ Len(t) = Len(s) + 1 /\ t # <<>> /\ t[Len(s) + 1] = n
      /\ \A i \in 1 .. Len(s) : t[i] = s[i] /\ s[i] \in Nodes /\ s[i] # n
      /\ Len(s) \in Nat /\ s \in Seq(Nodes)
  <2>1. t \in Seq(Nodes) /\ Len(t) = Len(s) + 1 /\ t[Len(s) + 1] = n /\ \A i \in 1 .. Len(s) : t[i] = s[i]
    BY <1>0, AppendProperties
  <2> HIDE DEF t
  <2>2. t # <<>>
    BY <1>0, <2>1
  <2> QED
    BY <1>0, <2>1, <2>2
<1>2. DOMAIN t = 1 .. Len(t) /\ DOMAIN s = 1 .. Len(s)
  BY <1>1
<1> HIDE DEF t
<1>3. IsInjective(t)
  <2> SUFFICES ASSUME NEW i \in 1 .. Len(t), NEW j \in 1 .. Len(t), t[i] = t[j], i # j PROVE FALSE
    BY <1>2 DEF IsInjective
  <2>1. i \in 1 .. Len(s) /\ j \in 1 .. Len(s)
    BY <1>1
  <2> QED
    BY <1>1, <1>2, <2>1 DEF Leads, IsInjective
<1>4. Range(t) = Range(s) \cup {n}
  <2>1. \A i \in 1 .. Len(t) : i \in 1 .. Len(s) \/ i = Len(s) + 1
    BY <1>1
  <2>2. Range(t) \subseteq Range(s) \cup {n}
    BY <1>1, <1>2, <2>1 DEF Range
  <2>3. Range(s) \subseteq Range(t) /\ n \in Range(t)
    BY <1>1, <1>2 DEF Range
  <2> QED
    BY <2>2, <2>3
<1>5. ASSUME s = <<>> PROVE Leads(nxt, n, t)
  <2>1. Len(s) = 0
    BY <1>5
  <2> QED
    BY <1>1, <1>3, <2>1 DEF Leads
<1>6. ASSUME s # <<>> PROVE Leads(to, first, t)
  <2>1. Len(s) >= 1
    BY <1>1, <1>6
  <2>2. first = t[1] /\ to = [nxt EXCEPT ![s[Len(s)]] = n]
    BY <1>1, <1>6, <2>1 DEF Leads
  <2>3. ASSUME NEW i \in 1 .. Len(t)
        PROVE  to[t[i]] = IF i < Len(t) THEN t[i + 1] ELSE None
    <3>1. CASE i < Len(s)
      <4>1. s[i] # s[Len(s)] /\ s[i] \in Nodes /\ t[i] = s[i] /\ t[i + 1] = s[i + 1]
        BY <1>1, <1>2, <2>1, <3>1 DEF Leads, IsInjective
      <4>2. nxt[s[i]] = s[i + 1]
        BY <1>1, <3>1 DEF Leads
      <4> QED
        BY <1>1, <2>2, <3>1, <4>1, <4>2
    <3>2. CASE i = Len(s)
      BY <1>1, <2>2, <3>2
    <3>3. CASE i = Len(s) + 1
      <4>1. s[Len(s)] # n /\ t[i] = n /\ ~(i < Len(t))
        BY <1>1, <2>1, <3>3
      <4> QED
        BY <2>2, <4>1
    <3> QED
      BY <1>1, <3>1, <3>2, <3>3
  <2> QED
    BY <1>1, <1>3, <2>2, <2>3 DEF Leads
<1> QED
  BY <1>4, <1>5, <1>6 DEF t

LEMMA LeadsFront ==
    ASSUME List!HeapAssumption, NEW nxt \in [Nodes -> Nodes \cup {None}], NEW first, NEW s,
           Leads(nxt, first, s), Len(s) > 1, NEW to, to = [nxt EXCEPT ![s[Len(s) - 1]] = None]
    PROVE  /\ Leads(to, first, Front(s))
           /\ s[Len(s)] \notin Range(Front(s))
           /\ Range(s) = Range(Front(s)) \cup {s[Len(s)]}
<1> DEFINE t == Front(s)
<1>1. /\ t \in Seq(Nodes) /\ Len(t) = Len(s) - 1
      /\ \A i \in 1 .. Len(t) : t[i] = s[i]
      /\ \A i \in 1 .. Len(s) : s[i] \in Nodes
      /\ Len(s) \in Nat /\ s \in Seq(Nodes) /\ Len(t) >= 1
  BY DEF Leads, Front
<1>2. DOMAIN t = 1 .. Len(t) /\ DOMAIN s = 1 .. Len(s)
  BY <1>1
<1> HIDE DEF t
<1>3. \A i, j \in 1 .. Len(s) : s[i] = s[j] => i = j
  BY <1>2 DEF Leads, IsInjective
<1>4. IsInjective(t)
  BY <1>1, <1>2, <1>3 DEF IsInjective
<1>5. s[Len(s)] \notin Range(t)
  BY <1>1, <1>2, <1>3 DEF Range
<1>6. Range(s) = Range(t) \cup {s[Len(s)]}
  <2>1. \A i \in 1 .. Len(s) : i \in 1 .. Len(t) \/ i = Len(s)
    BY <1>1
  <2>2. Range(s) \subseteq Range(t) \cup {s[Len(s)]}
    BY <1>1, <1>2, <2>1 DEF Range
  <2>3. Range(t) \subseteq Range(s) /\ s[Len(s)] \in Range(s)
    BY <1>1, <1>2 DEF Range
  <2> QED
    BY <2>2, <2>3
<1>7. Leads(to, first, t)
  <2>1. first = t[1] /\ t # <<>>
    BY <1>1 DEF Leads
  <2>2. ASSUME NEW i \in 1 .. Len(t)
        PROVE  to[t[i]] = IF i < Len(t) THEN t[i + 1] ELSE None
    <3>1. CASE i < Len(t)
      <4>1. s[i] # s[Len(s) - 1] /\ t[i] = s[i] /\ t[i + 1] = s[i + 1]
        BY <1>1, <1>3, <3>1
      <4>2. nxt[s[i]] = s[i + 1]
        BY <1>1, <3>1 DEF Leads
      <4> QED
        BY <1>1, <3>1, <4>1, <4>2
    <3>2. CASE i = Len(t)
      <4>1. t[i] = s[Len(s) - 1] /\ s[Len(s) - 1] \in Nodes
        BY <1>1, <3>2
      <4> QED
        BY <3>2, <4>1
    <3> QED
      BY <1>1, <3>1, <3>2
  <2> QED
    BY <1>1, <1>4, <2>1, <2>2 DEF Leads
<1> QED
  BY <1>5, <1>6, <1>7 DEF t

LEMMA OwnedMore ==
    ASSUME NEW dat \in [Nodes -> Elements \cup {None}], NEW ns \in SUBSET Nodes, NEW els,
           Owned(dat, ns, els), NEW n \in Nodes \ ns, NEW elem \in Elements \ els,
           NEW d, d = [dat EXCEPT ![n] = elem]
    PROVE  Owned(d, ns \cup {n}, els \cup {elem})
<1>1. d[n] = elem /\ \A m \in ns : d[m] = dat[m] /\ d[m] \in els
  BY DEF Owned
<1>2. {d[m] : m \in ns \cup {n}} = els \cup {elem}
  BY <1>1 DEF Owned
<1> QED
  BY <1>1, <1>2 DEF Owned

LEMMA OwnedLess ==
    ASSUME NEW dat \in [Nodes -> Elements \cup {None}], NEW ns \in SUBSET Nodes, NEW els,
           Owned(dat, ns, els), NEW n \in ns, NEW d, d = [dat EXCEPT ![n] = None]
    PROVE  dat[n] \in Elements /\ dat[n] \in els /\ Owned(d, ns \ {n}, els \ {dat[n]})
<1>1. \A m \in ns \ {n} : d[m] = dat[m] /\ d[m] \in els /\ d[m] # dat[n]
  BY DEF Owned
<1>2. {d[m] : m \in ns \ {n}} = els \ {dat[n]}
  BY <1>1 DEF Owned
<1> QED
  BY <1>1, <1>2 DEF Owned

\* The elements of the nodes of a list, in order.
ContentsOf(dat, s) == [k \in 1 .. Len(s) |-> dat[s[k]]]

LEMMA ContentsTyped ==
    ASSUME NEW dat, NEW s \in Seq(Nodes), \A n \in Range(s) : dat[n] \in Elements
    PROVE  ContentsOf(dat, s) \in Seq(Elements) /\ Len(ContentsOf(dat, s)) = Len(s)
<1>1. \A k \in 1 .. Len(s) : dat[s[k]] \in Elements
  BY DEF Range
<1> QED
  BY <1>1 DEF ContentsOf

LEMMA ContentsSame ==
    ASSUME NEW dat, NEW other, NEW s \in Seq(Nodes), \A n \in Range(s) : other[n] = dat[n]
    PROVE  ContentsOf(other, s) = ContentsOf(dat, s)
BY DEF ContentsOf, Range

LEMMA ContentsCons ==
    ASSUME NEW dat, NEW s \in Seq(Nodes), NEW n \in Nodes,
           \A m \in Range(s) \cup {n} : dat[m] \in Elements
    PROVE  ContentsOf(dat, <<n>> \o s) = <<dat[n]>> \o ContentsOf(dat, s)
<1> DEFINE c == ContentsOf(dat, s)
           t == <<n>> \o s
<1>1. c \in Seq(Elements) /\ Len(c) = Len(s) /\ \A k \in 1 .. Len(s) : c[k] = dat[s[k]]
  BY ContentsTyped DEF ContentsOf
<1>2. t \in Seq(Nodes) /\ Len(t) = Len(s) + 1 /\ t[1] = n /\ \A k \in 2 .. Len(t) : t[k] = s[k - 1]
  OBVIOUS
<1> HIDE DEF c, t
<1>3. /\ <<dat[n]>> \o c \in Seq(Elements) /\ Len(<<dat[n]>> \o c) = Len(t)
      /\ (<<dat[n]>> \o c)[1] = dat[n] /\ \A k \in 2 .. Len(t) : (<<dat[n]>> \o c)[k] = c[k - 1]
  BY <1>1, <1>2
<1>4. \A k \in 1 .. Len(t) : dat[t[k]] = (<<dat[n]>> \o c)[k]
  <2> SUFFICES ASSUME NEW k \in 1 .. Len(t) PROVE dat[t[k]] = (<<dat[n]>> \o c)[k]
    OBVIOUS
  <2>1. CASE k = 1
    BY <1>2, <1>3, <2>1
  <2>2. CASE k # 1
    <3>1. k \in 2 .. Len(t) /\ k - 1 \in 1 .. Len(s)
      BY <1>2, <2>2
    <3> QED
      BY <1>1, <1>2, <1>3, <3>1
  <2> QED
    BY <2>1, <2>2
<1>5. ContentsOf(dat, t) = <<dat[n]>> \o c
  <2>1. ContentsOf(dat, t) = [k \in 1 .. Len(t) |-> dat[t[k]]]
    BY DEF ContentsOf
  <2>2. <<dat[n]>> \o c = [k \in 1 .. Len(t) |-> (<<dat[n]>> \o c)[k]]
    BY <1>3
  <2> QED
    BY <1>4, <2>1, <2>2, Zenon
<1> QED
  BY <1>5 DEF c, t

LEMMA ContentsAppend ==
    ASSUME NEW dat, NEW s \in Seq(Nodes), NEW n \in Nodes,
           \A m \in Range(s) \cup {n} : dat[m] \in Elements
    PROVE  ContentsOf(dat, Append(s, n)) = Append(ContentsOf(dat, s), dat[n])
<1> DEFINE c == ContentsOf(dat, s)
           t == Append(s, n)
<1>1. c \in Seq(Elements) /\ Len(c) = Len(s) /\ \A k \in 1 .. Len(s) : c[k] = dat[s[k]]
  BY ContentsTyped DEF ContentsOf
<1>2. /\ t \in Seq(Nodes) /\ Len(t) = Len(s) + 1 /\ t[Len(s) + 1] = n
      /\ \A k \in 1 .. Len(s) : t[k] = s[k]
  OBVIOUS
<1> HIDE DEF c, t
<1>3. \A k \in 1 .. Len(t) : dat[t[k]] = Append(c, dat[n])[k]
  <2> SUFFICES ASSUME NEW k \in 1 .. Len(t) PROVE dat[t[k]] = Append(c, dat[n])[k]
    OBVIOUS
  <2> QED
    BY <1>1, <1>2
<1>4. ContentsOf(dat, t) = Append(c, dat[n])
  BY <1>1, <1>2, <1>3 DEF ContentsOf
<1> QED
  BY <1>4 DEF c, t

LEMMA ContentsLess ==
    ASSUME NEW dat, NEW s \in Seq(Nodes), s # <<>>, \A m \in Range(s) : dat[m] \in Elements
    PROVE  /\ ContentsOf(dat, s) # <<>>
           /\ ContentsOf(dat, Tail(s)) = Tail(ContentsOf(dat, s))
           /\ ContentsOf(dat, Front(s)) = Front(ContentsOf(dat, s))
<1> DEFINE c == ContentsOf(dat, s)
<1>1. c \in Seq(Elements) /\ Len(c) = Len(s) /\ \A k \in 1 .. Len(s) : c[k] = dat[s[k]]
  BY ContentsTyped DEF ContentsOf
<1> HIDE DEF c
<1>2. c # <<>>
  BY <1>1
<1>3. ContentsOf(dat, Tail(s)) = Tail(c)
  <2>1. /\ Tail(s) \in Seq(Nodes) /\ Len(Tail(s)) = Len(s) - 1
        /\ \A k \in 1 .. Len(s) - 1 : Tail(s)[k] = s[k + 1]
    OBVIOUS
  <2>2. /\ Tail(c) \in Seq(Elements) /\ Len(Tail(c)) = Len(s) - 1
        /\ \A k \in 1 .. Len(s) - 1 : Tail(c)[k] = c[k + 1]
    BY <1>1, <1>2
  <2>3. \A k \in 1 .. Len(s) - 1 : dat[Tail(s)[k]] = Tail(c)[k]
    BY <1>1, <2>1, <2>2
  <2>4. ContentsOf(dat, Tail(s)) = [k \in 1 .. Len(s) - 1 |-> Tail(c)[k]]
    BY <2>1, <2>3 DEF ContentsOf
  <2> QED
    BY <2>2, <2>4
<1>4. ContentsOf(dat, Front(s)) = Front(c)
  BY <1>1, <1>2 DEF ContentsOf, Front
<1> QED
  BY <1>2, <1>3, <1>4 DEF c

LEMMA HereInList ==
    ASSUME List!HeapAssumption, NEW s, InList(s), list_pc # "reverse"
    PROVE  List!Chain(head) = s /\ HeapInv /\ List!Items = ContentsOf(data, s)
<1>1. List!Chain(head) = s
  BY ChainIs DEF InList, List!Chain, ChainOf
<1>2. List!Contents(head) = ContentsOf(data, s)
  BY <1>1 DEF List!Contents, ContentsOf, InList, Leads
<1> QED
  BY <1>1, <1>2 DEF HeapInv, List!Items, List!Reverse, Reverse

LEMMA NextInList ==
    ASSUME List!HeapAssumption, NEW s, InList(s)', list_pc' # "reverse"
    PROVE  List!Chain(head)' = s /\ HeapInv' /\ List!Items' = ContentsOf(data', s)
<1>1. List!Chain(head)' = s
  BY ChainIs DEF InList, List!Chain, ChainOf
<1>2. List!Contents(head)' = ContentsOf(data', s)
  BY <1>1 DEF List!Contents, ContentsOf, InList, Leads
<1> QED
  BY <1>1, <1>2 DEF HeapInv, List!Items, List!Reverse, Reverse

LEMMA HereTurning ==
    ASSUME List!HeapAssumption, NEW t, NEW u, Turning(t, u), list_pc = "reverse"
    PROVE  HeapInv /\ List!Items = Reverse(ContentsOf(data, t)) \o ContentsOf(data, u)
<1>1. List!Chain(result) = t /\ List!Chain(current) = u
  BY ChainIs DEF Turning, List!Chain, ChainOf
<1>2. List!Contents(result) = ContentsOf(data, t) /\ List!Contents(current) = ContentsOf(data, u)
  BY <1>1 DEF List!Contents, ContentsOf, Turning, Leads
<1> QED
  BY <1>1, <1>2 DEF HeapInv, List!Items, List!Reverse, Reverse

LEMMA NextTurning ==
    ASSUME List!HeapAssumption, NEW t, NEW u, Turning(t, u)', list_pc' = "reverse"
    PROVE  HeapInv' /\ List!Items' = Reverse(ContentsOf(data', t)) \o ContentsOf(data', u)
<1>1. List!Chain(result)' = t /\ List!Chain(current)' = u
  BY ChainIs DEF Turning, List!Chain, ChainOf
<1>2. List!Contents(result)' = ContentsOf(data', t) /\ List!Contents(current)' = ContentsOf(data', u)
  BY <1>1 DEF List!Contents, ContentsOf, Turning, Leads
<1> QED
  BY <1>1, <1>2 DEF HeapInv, List!Items, List!Reverse, Reverse

LEMMA HeadStep ==
    ASSUME List!HeapAssumption, ListInv, NEW elem \in Elements, List!addToHead(elem)
    PROVE  ListInv' /\ List!Promise!Insert(elem)
<1> PICK n \in Nodes : List!Allocated(n, elem, head) /\ head' = n
  BY DEF List!addToHead
<1> PICK s : s = List!Chain(head)
  OBVIOUS
<1>1. InList(s) /\ list_pc = "rest" /\ list_pc' = "rest"
  BY DEF ListInv, HeapInv, List!addToHead
<1>2. /\ Leads(next, head, s) /\ n \in Nodes \ Range(s) /\ elem \in Elements \ (elements \ lost)
      /\ s \in Seq(Nodes) /\ nodes = Range(s) /\ nodes \in SUBSET Nodes
  BY <1>1 DEF InList, Leads, List!Allocated, ListInv, List!TypeOK
<1>3. Leads(next, head, s)
  BY <1>2
<1>4. Leads(next', head', <<n>> \o s) /\ Range(<<n>> \o s) = Range(s) \cup {n}
  <2>1. next \in [Nodes -> Nodes \cup {None}] /\ next' = [next EXCEPT ![n] = head] /\ head' = n
    BY DEF ListInv, List!TypeOK, List!Allocated
  <2>2. Leads(next', n, <<n>> \o s)
    BY <1>2, <2>1, LeadsCons
  <2>3. Range(<<n>> \o s) = Range(s) \cup {n}
    BY <1>2, RangeCons
  <2> QED
    BY <2>1, <2>2, <2>3
<1>5. Owned(data', nodes', elements' \ lost')
  <2>1. Owned(data, nodes, elements \ lost) /\ data \in [Nodes -> Elements \cup {None}]
    BY <1>1 DEF InList, ListInv, List!TypeOK
  <2>2. Owned(data', nodes \cup {n}, (elements \ lost) \cup {elem})
    BY <1>2, <2>1, OwnedMore DEF List!Allocated
  <2>3. elements' \ lost' = (elements \ lost) \cup {elem}
    BY DEF List!Allocated, ListInv, List!TypeOK, List!addToHead
  <2> QED
    BY <2>2, <2>3 DEF List!Allocated
<1>6. InList(<<n>> \o s)'
  BY <1>1, <1>2, <1>4, <1>5 DEF InList, List!Allocated, List!addToHead, List!locals
<1>7. HeapInv' /\ List!Items' = ContentsOf(data', <<n>> \o s)
  BY <1>1, <1>6, NextInList
<1>8. List!Items = ContentsOf(data, s)
  BY <1>1, HereInList
<1>9. ContentsOf(data', <<n>> \o s) = <<elem>> \o ContentsOf(data, s)
  <2>1. data'[n] = elem /\ \A m \in Range(s) : data'[m] = data[m] /\ m # n
    BY <1>2 DEF List!Allocated, ListInv, List!TypeOK
  <2>2. \A m \in Range(s) \cup {n} : data'[m] \in Elements
    BY <1>2, <1>4, <1>5 DEF Owned, List!Allocated
  <2>3. ContentsOf(data', <<n>> \o s) = <<data'[n]>> \o ContentsOf(data', s)
    BY <1>2, <2>2, ContentsCons
  <2> QED
    BY <1>2, <2>1, <2>3, ContentsSame
<1>10. List!TypeOK'
  BY DEF List!TypeOK, ListInv, List!addToHead, List!Allocated, List!locals
<1>11. List!NoDangling'
  BY DEF List!NoDangling, ListInv, List!addToHead, List!Allocated, List!locals
<1> QED
  BY <1>7, <1>8, <1>9, <1>10, <1>11 DEF ListInv, List!Promise!Insert

LEMMA NoNodeStep ==
    ASSUME List!HeapAssumption, ListInv, NEW elem \in Elements, List!NoNode(elem)
    PROVE  ListInv' /\ List!Items' = List!Items
<1> PICK s : s = List!Chain(head)
  OBVIOUS
<1>1. InList(s) /\ list_pc = "rest" /\ list_pc' = "rest"
  BY DEF ListInv, HeapInv, List!NoNode
<1>2. elements' \ lost' = elements \ lost
  BY DEF List!NoNode, ListInv, List!TypeOK
<1>3. InList(s)'
  BY <1>1, <1>2 DEF InList, List!NoNode, List!locals
<1>4. HeapInv' /\ List!Items' = List!Items
  BY <1>1, <1>3, NextInList, HereInList DEF List!NoNode
<1> QED
  BY <1>4 DEF ListInv, List!TypeOK, List!NoDangling, List!NoNode, List!locals

LEMMA TailStep ==
    ASSUME List!HeapAssumption, ListInv, NEW elem \in Elements, List!addToTail(elem)
    PROVE  ListInv' /\ List!Items' = List!Items
<1> PICK n \in Nodes : List!Allocated(n, elem, None) /\ newnode' = n
  BY DEF List!addToTail
<1> PICK s : s = List!Chain(head)
  OBVIOUS
<1>1. InList(s) /\ list_pc = "rest" /\ list_pc' = "append" /\ current' = head /\ head' = head
  BY DEF ListInv, HeapInv, List!addToTail
<1>2. /\ Leads(next, head, s) /\ n \in Nodes \ Range(s) /\ elem \in Elements \ (elements \ lost)
      /\ s \in Seq(Nodes) /\ nodes = Range(s) /\ nodes \in SUBSET Nodes
  BY <1>1 DEF InList, Leads, List!Allocated, ListInv, List!TypeOK
<1>3. Leads(next', head', s) /\ next'[n] = None
  <2>1. \A m \in Range(s) : next'[m] = next[m]
    BY <1>2 DEF List!Allocated, ListInv, List!TypeOK
  <2> QED
    BY <1>1, <1>2, <2>1, LeadsSame DEF List!Allocated, ListInv, List!TypeOK
<1>4. Owned(data', nodes', elements' \ lost')
  <2>1. Owned(data, nodes, elements \ lost) /\ data \in [Nodes -> Elements \cup {None}]
    BY <1>1 DEF InList, ListInv, List!TypeOK
  <2>2. Owned(data', nodes \cup {n}, (elements \ lost) \cup {elem})
    BY <1>2, <2>1, OwnedMore DEF List!Allocated
  <2>3. elements' \ lost' = (elements \ lost) \cup {elem}
    BY DEF List!Allocated, ListInv, List!TypeOK, List!addToTail
  <2> QED
    BY <2>2, <2>3 DEF List!Allocated
<1>5. Walking(s)'
  <2>1. s # <<>> => 1 \in 1 .. Len(s) /\ head = s[1]
    BY <1>2 DEF Leads
  <2> QED
    BY <1>1, <1>2, <2>1 DEF Walking, Leads
<1>6. InList(s)'
  BY <1>1, <1>2, <1>3, <1>4, <1>5 DEF InList, List!Allocated
<1>7. HeapInv' /\ List!Items' = ContentsOf(data', s)
  BY <1>1, <1>6, NextInList
<1>8. List!Items = ContentsOf(data, s)
  BY <1>1, HereInList
<1>9. ContentsOf(data', s) = ContentsOf(data, s)
  <2>1. \A m \in Range(s) : data'[m] = data[m]
    BY <1>2 DEF List!Allocated, ListInv, List!TypeOK
  <2> QED
    BY <1>2, <2>1, ContentsSame
<1>10. List!TypeOK'
  BY <1>1 DEF List!TypeOK, ListInv, List!addToTail, List!Allocated
<1>11. List!NoDangling'
  BY <1>1 DEF List!NoDangling, ListInv, List!addToTail, List!Allocated
<1> QED
  BY <1>7, <1>8, <1>9, <1>10, <1>11 DEF ListInv

LEMMA WalkStep ==
    ASSUME List!HeapAssumption, ListInv, List!Walk
    PROVE  ListInv' /\ List!Items' = List!Items
<1> PICK s : s = List!Chain(head)
  OBVIOUS
<1>1. InList(s) /\ list_pc \in {"append", "last", "unlink"} /\ UNCHANGED <<list_pc, head, List!heap, newnode, lost>>
  BY DEF ListInv, HeapInv, List!Walk
<1>2. PICK i \in 1 .. Len(s) : /\ current = s[i] /\ s \in Seq(Nodes)
                               /\ next[s[i]] = IF i < Len(s) THEN s[i + 1] ELSE None
  BY <1>1 DEF InList, Walking, List!Walk, Leads
<1>3. i < Len(s) /\ i + 1 \in 1 .. Len(s) /\ current' = s[i + 1] /\ result' = s[i] /\ i + 1 # 1 /\ i + 1 - 1 = i
  BY <1>2 DEF List!Walk
<1>4. Walking(s)'
  BY <1>2, <1>3 DEF Walking
<1>5. InList(s)'
  BY <1>1, <1>4 DEF InList, List!heap
<1>6. HeapInv' /\ List!Items' = List!Items
  BY <1>1, <1>5, NextInList, HereInList DEF List!heap
<1>7. s[i + 1] \in nodes /\ s[i] \in nodes /\ nodes \subseteq Nodes
  BY <1>1, <1>2, <1>3 DEF InList, Range, ListInv, List!TypeOK
<1> QED
  BY <1>1, <1>3, <1>6, <1>7 DEF ListInv, List!TypeOK, List!NoDangling, List!heap

\* At the end of the list there is its last node.
LEMMA LastNode ==
    ASSUME List!HeapAssumption, ListInv, NEW s, InList(s), list_pc \in {"append", "last", "unlink"}, List!AtEnd
    PROVE  /\ s = <<>> <=> current = None
           /\ s # <<>> => /\ Len(s) \in Nat \ {0} /\ current = s[Len(s)] /\ current \in nodes /\ current \in Nodes
                          /\ list_pc = "unlink" => result = IF Len(s) = 1 THEN None ELSE s[Len(s) - 1]
<1>1. s \in Seq(Nodes) /\ Walking(s) /\ Leads(next, head, s)
  BY DEF InList, Leads
<1>2. CASE s = <<>>
  BY <1>1, <1>2 DEF Walking
<1>3. CASE s # <<>>
  <2>1. PICK i \in 1 .. Len(s) : current = s[i] /\ (list_pc = "unlink" => result = IF i = 1 THEN None ELSE s[i - 1])
    BY <1>1, <1>3 DEF Walking
  <2>2. s[i] \in Nodes /\ s[i] # None /\ s[i] \in nodes
    BY <1>1, <2>1 DEF List!HeapAssumption, InList, Range
  <2>3. i < Len(s) => next[current] = s[i + 1] /\ s[i + 1] \in Nodes /\ s[i + 1] # None
    BY <1>1, <2>1 DEF Leads, List!HeapAssumption
  <2>4. i = Len(s)
    BY <1>1, <2>1, <2>2, <2>3 DEF List!AtEnd
  <2> QED
    BY <1>1, <1>3, <2>1, <2>2, <2>4
<1> QED
  BY <1>2, <1>3

LEMMA AppendedStep ==
    ASSUME List!HeapAssumption, ListInv, List!Appended
    PROVE  ListInv' /\ \E elem \in Elements : List!Promise!Insert(elem)
<1> PICK s : s = List!Chain(head)
  OBVIOUS
<1> PICK n : n = newnode
  OBVIOUS
<1>1. InList(s) /\ list_pc = "append" /\ List!AtEnd /\ list_pc' = "rest" /\ UNCHANGED <<data, nodes, elements, lost>>
  BY DEF ListInv, HeapInv, List!Appended, List!Rested
<1>2. /\ Leads(next, head, s) /\ n \in Nodes \ Range(s) /\ next[n] = None
      /\ s \in Seq(Nodes) /\ nodes = Range(s) \cup {n}
      /\ next \in [Nodes -> Nodes \cup {None}]
  BY <1>1 DEF InList, Leads, ListInv, List!TypeOK
<1>3. /\ s = <<>> <=> current = None
      /\ s # <<>> => current = s[Len(s)] /\ current \in Nodes
  BY <1>1, LastNode
<1>4. Leads(next', head', Append(s, n)) /\ Range(Append(s, n)) = Range(s) \cup {n}
  <2>1. s # <<>> => next' = [next EXCEPT ![s[Len(s)]] = n] /\ head' = head
    BY <1>3 DEF List!Appended, List!HeapAssumption
  <2>2. s = <<>> => next' = next /\ head' = n
    BY <1>3 DEF List!Appended
  <2>3. /\ s = <<>> => Leads(next, n, Append(s, n))
        /\ s # <<>> => Leads(next', head, Append(s, n))
        /\ Range(Append(s, n)) = Range(s) \cup {n}
    BY <1>2, <2>1, LeadsAppend
  <2> QED
    BY <2>1, <2>2, <2>3
<1>5. InList(Append(s, n))'
  BY <1>1, <1>2, <1>4 DEF InList, List!Appended, List!Rested
<1>6. HeapInv' /\ List!Items' = ContentsOf(data, Append(s, n)) /\ List!Items = ContentsOf(data, s)
  BY <1>1, <1>5, NextInList, HereInList
<1>7. data[n] \in Elements /\ ContentsOf(data, Append(s, n)) = Append(ContentsOf(data, s), data[n])
  <2>1. \A m \in Range(s) \cup {n} : data[m] \in Elements
    BY <1>1, <1>2 DEF InList, Owned
  <2> QED
    BY <1>2, <2>1, ContentsAppend
<1>8. List!TypeOK'
  BY <1>1, <1>2, <1>3 DEF List!TypeOK, ListInv, List!Appended, List!Rested
<1>9. List!NoDangling'
  BY <1>1, <1>2 DEF List!NoDangling, ListInv, List!Appended, List!Rested
<1> QED
  BY <1>6, <1>7, <1>8, <1>9 DEF ListInv, List!Promise!Insert

\* removeFirst() and each step of freeList().
LEMMA HeadFreedStep ==
    ASSUME List!HeapAssumption, ListInv, list_pc \in {"rest", "free"}, head # None,
           List!Freed(head, next), head' = next[head], UNCHANGED <<list_pc, List!locals, lost>>
    PROVE  ListInv' /\ List!Promise!Drop
<1> PICK s : s = List!Chain(head)
  OBVIOUS
<1> PICK n : n = head
  OBVIOUS
<1>1. InList(s) /\ list_pc' = list_pc
  BY DEF ListInv, HeapInv
<1>2. /\ s # <<>> /\ n = s[1] /\ n \in Nodes /\ n \notin Range(Tail(s))
      /\ Leads(next, next[n], Tail(s)) /\ Range(s) = Range(Tail(s)) \cup {n}
      /\ s \in Seq(Nodes)
  <2>1. Leads(next, head, s)
    BY <1>1 DEF InList
  <2>2. /\ s # <<>> /\ head = s[1] /\ head \in Nodes /\ head \notin Range(Tail(s))
        /\ Leads(next, next[head], Tail(s)) /\ Range(s) = Range(Tail(s)) \cup {head}
    BY <2>1, LeadsTail
  <2> QED
    BY <2>1, <2>2 DEF Leads
<1>3. /\ nodes = Range(s) /\ n \in nodes /\ nodes' = Range(Tail(s)) /\ nodes \in SUBSET Nodes
      /\ next' = [next EXCEPT ![n] = None] /\ data' = [data EXCEPT ![n] = None]
      /\ elements' = elements \ {data[n]} /\ lost' = lost
      /\ next \in [Nodes -> Nodes \cup {None}] /\ data \in [Nodes -> Elements \cup {None}]
  BY <1>1, <1>2 DEF InList, List!Freed, ListInv, List!TypeOK
<1>4. Owned(data, nodes, elements \ lost)
  BY <1>1 DEF InList
<1>5. /\ data[n] \in Elements /\ data[n] \in elements \ lost
      /\ Owned(data', nodes \ {n}, (elements \ lost) \ {data[n]})
  BY <1>3, <1>4, OwnedLess
<1>6. Owned(data', nodes', elements' \ lost')
  <2>1. elements' \ lost' = (elements \ lost) \ {data[n]} /\ nodes' = nodes \ {n}
    BY <1>3 DEF List!Freed
  <2> QED
    BY <1>3, <1>5, <2>1
<1>7. \A m \in Range(Tail(s)) : next'[m] = next[m] /\ data'[m] = data[m] /\ data[m] \in Elements
  BY <1>2, <1>3, <1>4 DEF Owned
<1>8. Leads(next', head', Tail(s)) /\ Tail(s) \in Seq(Nodes)
  <2>1. Leads(next', next[n], Tail(s))
    BY <1>2, <1>7, LeadsSame
  <2> QED
    BY <1>2, <2>1
<1>9. InList(Tail(s))'
  BY <1>1, <1>3, <1>6, <1>8 DEF InList, List!locals
<1>10. HeapInv' /\ List!Items' = ContentsOf(data', Tail(s)) /\ List!Items = ContentsOf(data, s)
  BY <1>1, <1>9, NextInList, HereInList
<1>11. ContentsOf(data', Tail(s)) = ContentsOf(data, Tail(s))
  BY <1>7, <1>8, ContentsSame
<1>12. ContentsOf(data, s) # <<>> /\ ContentsOf(data, Tail(s)) = Tail(ContentsOf(data, s))
  <2>1. \A m \in Range(s) : data[m] \in Elements
    BY <1>3, <1>4 DEF Owned
  <2> QED
    BY <1>2, <2>1, ContentsLess
<1>13. next[n] \in Range(Tail(s)) \cup {None}
  BY <1>2, FirstOf
<1>14. List!TypeOK'
  BY <1>1, <1>2, <1>3, <1>5 DEF List!TypeOK, ListInv, List!Freed, List!locals
<1>15. List!NoDangling'
  BY <1>1, <1>3, <1>13 DEF List!NoDangling, InList, List!locals
<1> QED
  BY <1>10, <1>11, <1>12, <1>14, <1>15 DEF ListInv, List!Promise!Drop

LEMMA FreedStep ==
    ASSUME List!HeapAssumption, ListInv, List!FreeStep
    PROVE  ListInv' /\ (List!Promise!Drop \/ List!Items' = List!Items)
<1>1. CASE head # None
  BY <1>1, HeadFreedStep DEF List!FreeStep
<1>2. CASE head = None
  <2> PICK s : s = List!Chain(head)
    OBVIOUS
  <2>1. InList(s) /\ list_pc = "free" /\ list_pc' = "rest" /\ UNCHANGED <<head, List!heap, lost>> /\ List!Rested
    BY <1>2 DEF ListInv, HeapInv, List!FreeStep, List!Rested
  <2>2. InList(s)'
    BY <2>1 DEF InList, List!heap, List!Rested
  <2>3. HeapInv' /\ List!Items' = List!Items
    BY <2>1, <2>2, NextInList, HereInList DEF List!heap
  <2> QED
    BY <2>1, <2>3 DEF ListInv, List!TypeOK, List!NoDangling, List!heap, List!Rested
<1> QED
  BY <1>1, <1>2

LEMMA FreeListStep ==
    ASSUME List!HeapAssumption, ListInv, List!freeList
    PROVE  ListInv' /\ List!Items' = List!Items
<1> PICK s : s = List!Chain(head)
  OBVIOUS
<1>1. InList(s) /\ list_pc = "rest" /\ list_pc' = "free" /\ UNCHANGED <<head, List!heap, List!locals, lost>>
  BY DEF ListInv, HeapInv, List!freeList
<1>2. InList(s)'
  BY <1>1 DEF InList, List!heap, List!locals
<1>3. HeapInv' /\ List!Items' = List!Items
  BY <1>1, <1>2, NextInList, HereInList DEF List!heap
<1> QED
  BY <1>1, <1>3 DEF ListInv, List!TypeOK, List!NoDangling, List!heap, List!locals

LEMMA RemoveLastStep ==
    ASSUME List!HeapAssumption, ListInv, List!removeLast
    PROVE  ListInv' /\ List!Items' = List!Items
<1> PICK s : s = List!Chain(head)
  OBVIOUS
<1>1. /\ InList(s) /\ list_pc = "rest" /\ list_pc' = "last" /\ UNCHANGED <<head, List!heap, result, newnode, lost>>
      /\ current' = head /\ Leads(next, head, s) /\ s \in Seq(Nodes)
  BY DEF ListInv, HeapInv, List!removeLast, InList, Leads
<1>2. Walking(s)'
  <2>1. s # <<>> => 1 \in 1 .. Len(s) /\ head = s[1]
    BY <1>1 DEF Leads
  <2> QED
    BY <1>1, <2>1 DEF Walking, Leads
<1>3. Len(s) # 1
  <2> SUFFICES ASSUME Len(s) = 1 PROVE FALSE
    OBVIOUS
  <2>1. head = s[1] /\ s[1] \in Nodes /\ next[s[1]] = None
    BY <1>1 DEF Leads
  <2> QED
    BY <2>1 DEF List!removeLast, List!HeapAssumption
<1>4. InList(s)'
  BY <1>1, <1>2, <1>3 DEF InList, List!heap
<1>5. HeapInv' /\ List!Items' = List!Items
  BY <1>1, <1>4, NextInList, HereInList DEF List!heap
<1> QED
  BY <1>1, <1>5 DEF ListInv, List!TypeOK, List!NoDangling, List!heap

LEMMA LastElementStep ==
    ASSUME List!HeapAssumption, ListInv, List!LastElementFreed
    PROVE  ListInv' /\ List!Items' = List!Items
<1> PICK s : s = List!Chain(head)
  OBVIOUS
<1>1. /\ InList(s) /\ list_pc = "last" /\ List!AtEnd /\ list_pc' = "unlink"
      /\ UNCHANGED <<head, next, data, nodes, newnode, lost>>
      /\ current' = head /\ result' = None /\ Leads(next, head, s) /\ s \in Seq(Nodes)
      /\ Owned(data, nodes, elements \ lost)
  BY DEF ListInv, HeapInv, List!LastElementFreed, InList, Leads
<1>2. /\ s = <<>> <=> current = None
      /\ s # <<>> => Len(s) \in Nat \ {0} /\ current = s[Len(s)] /\ current \in nodes /\ current \in Nodes
  BY <1>1, LastNode
<1>3. Walking(s)'
  <2>1. s # <<>> => 1 \in 1 .. Len(s) /\ head = s[1]
    BY <1>1 DEF Leads
  <2> QED
    BY <1>1, <2>1 DEF Walking, Leads
<1>4. CASE s = <<>>
  <2>1. elements' = elements
    BY <1>2, <1>4 DEF List!LastElementFreed
  <2>2. InList(s)'
    BY <1>1, <1>3, <1>4, <2>1 DEF InList
  <2>3. HeapInv' /\ List!Items' = List!Items
    BY <1>1, <2>2, NextInList, HereInList
  <2> QED
    BY <1>1, <2>1, <2>3 DEF ListInv, List!TypeOK, List!NoDangling
<1>5. CASE s # <<>>
  <2>1. elements' = elements \ {data[s[Len(s)]]} /\ data[s[Len(s)]] \in elements \ lost
    BY <1>1, <1>2, <1>5 DEF List!LastElementFreed, List!HeapAssumption, Owned
  <2>2. (elements' \ lost') \cup {data[s[Len(s)]]} = elements \ lost
    BY <1>1, <2>1
  <2>3. InList(s)'
    BY <1>1, <1>3, <1>5, <2>1, <2>2 DEF InList
  <2>4. HeapInv' /\ List!Items' = List!Items
    BY <1>1, <2>3, NextInList, HereInList
  <2> QED
    BY <1>1, <2>1, <2>4 DEF ListInv, List!TypeOK, List!NoDangling
<1> QED
  BY <1>4, <1>5

LEMMA UnlinkedStep ==
    ASSUME List!HeapAssumption, ListInv, List!Unlinked
    PROVE  ListInv' /\ (List!Promise!Drop \/ List!Items' = List!Items)
<1> PICK s : s = List!Chain(head)
  OBVIOUS
<1> PICK n : n = current
  OBVIOUS
<1>1. /\ InList(s) /\ list_pc = "unlink" /\ List!AtEnd /\ list_pc' = "rest" /\ UNCHANGED <<head, lost>>
      /\ Leads(next, head, s) /\ s \in Seq(Nodes) /\ Len(s) # 1 /\ nodes = Range(s) /\ nodes \in SUBSET Nodes
      /\ current' = None /\ result' = None /\ newnode' = None
      /\ next \in [Nodes -> Nodes \cup {None}] /\ data \in [Nodes -> Elements \cup {None}]
  BY DEF ListInv, HeapInv, List!Unlinked, InList, Leads, List!Rested, List!TypeOK
<1>2. /\ s = <<>> <=> n = None
      /\ s # <<>> => /\ Len(s) \in Nat \ {0} /\ n = s[Len(s)] /\ n \in nodes /\ n \in Nodes
                     /\ result = s[Len(s) - 1]
  BY <1>1, LastNode
<1>3. CASE s = <<>>
  <2>1. UNCHANGED List!heap
    BY <1>2, <1>3 DEF List!Unlinked
  <2>2. InList(s)'
    BY <1>1, <1>3, <2>1 DEF InList, List!heap
  <2>3. HeapInv' /\ List!Items' = List!Items
    BY <1>1, <2>1, <2>2, NextInList, HereInList DEF List!heap
  <2> QED
    BY <1>1, <2>1, <2>3 DEF ListInv, List!TypeOK, List!NoDangling, List!heap
<1>4. CASE s # <<>>
  <2>1. Len(s) > 1 /\ s[Len(s) - 1] \in Nodes /\ s[Len(s) - 1] # None
    <3>1. Len(s) > 1 /\ Len(s) - 1 \in 1 .. Len(s)
      <4>1. Len(s) \in Nat \ {0}
        BY <1>2, <1>4
      <4>2. Len(s) # 1
        BY <1>1
      <4> PICK l : l = Len(s)
        OBVIOUS
      <4>3. l \in Nat /\ l > 1
        BY <4>1, <4>2
      <4>4. l - 1 \in 1 .. l
        BY <4>3
      <4> QED
        BY <4>3, <4>4
    <3>2. s[Len(s) - 1] \in Nodes
      BY <1>1, <3>1
    <3> QED
      BY <3>1, <3>2 DEF List!HeapAssumption
  <2> PICK links : links = [next EXCEPT ![s[Len(s) - 1]] = None]
    OBVIOUS
  <2>2. /\ nodes' = nodes \ {n} /\ elements' = elements \ {data[n]}
        /\ next' = [links EXCEPT ![n] = None] /\ data' = [data EXCEPT ![n] = None]
        /\ links \in [Nodes -> Nodes \cup {None}]
    BY <1>1, <1>2, <1>4, <2>1 DEF List!Unlinked, List!Freed, List!HeapAssumption
  <2>3. /\ Leads(links, head, Front(s)) /\ n \notin Range(Front(s))
        /\ Range(s) = Range(Front(s)) \cup {n}
    <3>1. Leads(links, head, Front(s))
      BY <1>1, <2>1, LeadsFront
    <3>2. s[Len(s)] \notin Range(Front(s)) /\ Range(s) = Range(Front(s)) \cup {s[Len(s)]}
      BY <1>1, <2>1, LeadsFront
    <3> QED
      BY <1>2, <1>4, <3>1, <3>2
  <2>4. /\ data[n] \notin elements
        /\ Owned(data, nodes, (elements \ lost) \cup {data[n]})
    BY <1>1, <1>2, <1>4 DEF InList
  <2>5. Owned(data', nodes', elements' \ lost')
    <3> PICK els : els = (elements \ lost) \cup {data[n]}
      OBVIOUS
    <3>3. Owned(data, nodes, els) /\ n \in nodes
      BY <1>2, <1>4, <2>4
    <3>1. Owned(data', nodes \ {n}, els \ {data[n]})
      BY <1>1, <2>2, <3>3, OwnedLess
    <3>2. elements' \ lost' = els \ {data[n]}
      BY <1>1, <2>2, <2>4
    <3> QED
      BY <2>2, <3>1, <3>2
  <2>6. \A m \in Range(Front(s)) : next'[m] = links[m] /\ data'[m] = data[m] /\ data[m] \in Elements
    BY <1>1, <2>2, <2>3, <2>4 DEF Owned
  <2>7. Leads(next', head', Front(s)) /\ Front(s) \in Seq(Nodes)
    <3>1. Leads(next', head, Front(s))
      BY <2>3, <2>6, LeadsSame
    <3> QED
      BY <1>1, <3>1 DEF Leads
  <2>8. nodes' = Range(Front(s))
    BY <1>1, <2>2, <2>3
  <2>9. InList(Front(s))'
    BY <1>1, <2>5, <2>7, <2>8 DEF InList
  <2>10. HeapInv' /\ List!Items' = ContentsOf(data', Front(s)) /\ List!Items = ContentsOf(data, s)
    BY <1>1, <2>9, NextInList, HereInList
  <2>11. ContentsOf(data', Front(s)) = ContentsOf(data, Front(s))
    BY <2>6, <2>7, ContentsSame
  <2>12. ContentsOf(data, s) # <<>> /\ ContentsOf(data, Front(s)) = Front(ContentsOf(data, s))
    <3>1. \A m \in Range(s) : data[m] \in Elements
      BY <1>1, <2>4 DEF Owned
    <3> QED
      BY <1>1, <1>4, <3>1, ContentsLess
  <2>13. head \in Range(Front(s)) \cup {None}
    BY <2>3 DEF Leads, Range
  <2>14. List!TypeOK'
    BY <1>1, <1>2, <1>4, <2>2, <2>4 DEF List!TypeOK, ListInv
  <2>15. List!NoDangling'
    BY <1>1, <2>8, <2>13 DEF List!NoDangling
  <2> QED
    BY <2>10, <2>11, <2>12, <2>14, <2>15 DEF ListInv, List!Promise!Drop, List!Promise!Front, Front
<1> QED
  BY <1>3, <1>4

LEMMA EmptyLeads ==
    ASSUME NEW nxt
    PROVE  Leads(nxt, None, <<>>) /\ Range(<<>>) = {}
BY DEF Leads, IsInjective, Range

LEMMA ReverseListStep ==
    ASSUME List!HeapAssumption, ListInv, List!reverseList
    PROVE  ListInv' /\ List!Items' = List!Items
<1> PICK s : s = List!Chain(head)
  OBVIOUS
<1>1. /\ InList(s) /\ list_pc = "rest" /\ list_pc' = "reverse" /\ UNCHANGED <<head, List!heap, newnode, lost>>
      /\ current' = head /\ result' = None /\ Leads(next, head, s) /\ s \in Seq(Nodes)
      /\ Owned(data, nodes, elements \ lost) /\ nodes = Range(s)
  BY DEF ListInv, HeapInv, List!reverseList, InList, Leads
<1>2. Turning(<<>>, s)'
  BY <1>1, EmptyLeads DEF Turning, List!heap
<1>3. HeapInv' /\ List!Items' = Reverse(ContentsOf(data', <<>>)) \o ContentsOf(data', s)
  BY <1>1, <1>2, NextTurning
<1>4. List!Items = ContentsOf(data, s) /\ data' = data
  BY <1>1, HereInList DEF List!heap
<1>5. ContentsOf(data, s) \in Seq(Elements)
  <2>1. \A n \in Range(s) : data[n] \in Elements
    BY <1>1 DEF Owned
  <2> QED
    BY <1>1, <2>1, ContentsTyped
<1>6. Reverse(ContentsOf(data', <<>>)) = <<>>
  BY DEF Reverse, ContentsOf
<1>7. List!Items' = List!Items
  BY <1>3, <1>4, <1>5, <1>6
<1> QED
  BY <1>1, <1>3, <1>7 DEF ListInv, List!TypeOK, List!NoDangling, List!heap

LEMMA TurnedStep ==
    ASSUME List!HeapAssumption, ListInv, List!ReverseStep
    PROVE  ListInv' /\ List!Items' = List!Items
<1> PICK t : t = List!Chain(result)
  OBVIOUS
<1> PICK u : u = List!Chain(current)
  OBVIOUS
<1> PICK n : n = current
  OBVIOUS
<1>1. /\ Turning(t, u) /\ list_pc = "reverse" /\ list_pc' = "reverse" /\ n # None
      /\ next' = [next EXCEPT ![n] = result] /\ result' = n /\ current' = next[n]
      /\ UNCHANGED <<head, data, nodes, elements, newnode, lost>>
      /\ next \in [Nodes -> Nodes \cup {None}] /\ data \in [Nodes -> Elements \cup {None}]
  BY DEF ListInv, HeapInv, List!ReverseStep, List!TypeOK
<1>2. /\ Leads(next, result, t) /\ Leads(next, n, u) /\ Range(t) \cap Range(u) = {}
      /\ nodes = Range(t) \cup Range(u) /\ Owned(data, nodes, elements \ lost)
      /\ t \in Seq(Nodes) /\ u \in Seq(Nodes)
  BY <1>1 DEF Turning, Leads
<1> PICK v : v = Tail(u)
  OBVIOUS
<1>3. /\ u # <<>> /\ n = u[1] /\ n \in Nodes /\ n \notin Range(v)
      /\ Leads(next, next[n], v) /\ Range(u) = Range(v) \cup {n} /\ v \in Seq(Nodes)
  <2>1. /\ u # <<>> /\ n = u[1] /\ n \in Nodes /\ n \notin Range(Tail(u))
        /\ Leads(next, next[n], Tail(u)) /\ Range(u) = Range(Tail(u)) \cup {n}
    BY <1>1, <1>2, LeadsTail
  <2> QED
    BY <2>1 DEF Leads
<1>4. n \in Nodes \ Range(t)
  BY <1>2, <1>3
<1>5. Leads(next', n, <<n>> \o t) /\ Range(<<n>> \o t) = Range(t) \cup {n}
  <2>1. Leads(next', n, <<n>> \o t)
    BY <1>1, <1>2, <1>4, LeadsCons
  <2>2. Range(<<n>> \o t) = Range(t) \cup {n}
    BY <1>2, RangeCons
  <2> QED
    BY <2>1, <2>2
<1>6. Leads(next', next[n], v)
  <2>1. \A m \in Range(v) : next'[m] = next[m]
    BY <1>1, <1>3
  <2> QED
    BY <1>3, <2>1, LeadsSame
<1>7. Turning(<<n>> \o t, v)'
  BY <1>1, <1>2, <1>3, <1>5, <1>6 DEF Turning
<1>8. /\ HeapInv' /\ List!Items' = Reverse(ContentsOf(data, <<n>> \o t)) \o ContentsOf(data, v)
      /\ List!Items = Reverse(ContentsOf(data, t)) \o ContentsOf(data, u)
  BY <1>1, <1>7, NextTurning, HereTurning
<1>9. \A m \in nodes : data[m] \in Elements
  BY <1>2 DEF Owned
<1>10. /\ ContentsOf(data, <<n>> \o t) = <<data[n]>> \o ContentsOf(data, t)
       /\ ContentsOf(data, t) \in Seq(Elements) /\ data[n] \in Elements
  BY <1>2, <1>3, <1>9, ContentsCons, ContentsTyped
<1>11. /\ ContentsOf(data, v) = Tail(ContentsOf(data, u)) /\ ContentsOf(data, u) # <<>>
       /\ ContentsOf(data, u) \in Seq(Elements) /\ ContentsOf(data, u)[1] = data[n]
  <2>1. ContentsOf(data, v) = Tail(ContentsOf(data, u)) /\ ContentsOf(data, u) # <<>>
    BY <1>2, <1>3, <1>9, ContentsLess
  <2>2. ContentsOf(data, u) \in Seq(Elements)
    BY <1>2, <1>9, ContentsTyped
  <2>3. ContentsOf(data, u)[1] = data[n]
    BY <1>2, <1>3 DEF ContentsOf
  <2> QED
    BY <2>1, <2>2, <2>3
<1>12. List!Items' = List!Items
  <2> PICK a : a = Reverse(ContentsOf(data, t))
    OBVIOUS
  <2> PICK c : c = ContentsOf(data, u)
    OBVIOUS
  <2>1. a \in Seq(Elements) /\ c \in Seq(Elements) /\ c # <<>>
    BY <1>10, <1>11, ReverseTyped
  <2>2. Reverse(ContentsOf(data, <<n>> \o t)) = Append(a, c[1])
    <3> PICK w : w = ContentsOf(data, t)
      OBVIOUS
    <3> PICK e : e = data[n]
      OBVIOUS
    <3>1. w \in Seq(Elements) /\ e \in Elements
      BY <1>10
    <3>2. Reverse(<<e>> \o w) = Append(Reverse(w), e)
      BY <3>1, ReverseCons
    <3> QED
      BY <1>10, <1>11, <3>2
  <2>3. Append(a, c[1]) \o Tail(c) = a \o c
    BY <2>1, AppendTail
  <2> QED
    BY <1>8, <1>11, <2>2, <2>3
<1>13. List!TypeOK'
  BY <1>1, <1>3 DEF List!TypeOK, ListInv
<1>14. next[n] \in Range(v) \cup {None}
  BY <1>3, FirstOf
<1>15. List!NoDangling'
  BY <1>1, <1>2, <1>3, <1>14 DEF List!NoDangling, ListInv
<1> QED
  BY <1>8, <1>12, <1>13, <1>15 DEF ListInv

LEMMA ReversedStep ==
    ASSUME List!HeapAssumption, ListInv, List!Reversed
    PROVE  ListInv' /\ List!Promise!Turn
<1> PICK t : t = List!Chain(result)
  OBVIOUS
<1> PICK u : u = List!Chain(current)
  OBVIOUS
<1>1. /\ Turning(t, u) /\ list_pc = "reverse" /\ list_pc' = "rest" /\ current = None /\ head' = result
      /\ current' = None /\ result' = None /\ newnode' = None /\ UNCHANGED <<List!heap, lost>>
  BY DEF ListInv, HeapInv, List!Reversed, List!Rested
<1>2. /\ Leads(next, result, t) /\ nodes = Range(t) \cup Range(u)
      /\ Owned(data, nodes, elements \ lost) /\ t \in Seq(Nodes)
  BY <1>1 DEF Turning, Leads
<1>3. u = <<>> /\ Range(u) = {}
  <2>1. u = <<>>
    <3>1. u \in Seq(Nodes) /\ current = IF u = <<>> THEN None ELSE u[1]
      BY <1>1 DEF Turning, Leads
    <3>2. u # <<>> => 1 \in 1 .. Len(u)
      BY <3>1
    <3>3. u # <<>> => u[1] \in Nodes
      BY <3>1, <3>2
    <3> QED
      BY <1>1, <3>1, <3>3 DEF List!HeapAssumption
  <2> QED
    BY <2>1, EmptyLeads
<1>4. InList(t)'
  BY <1>1, <1>2, <1>3 DEF InList, List!heap
<1>5. /\ HeapInv' /\ List!Items' = ContentsOf(data, t)
      /\ List!Items = Reverse(ContentsOf(data, t)) \o ContentsOf(data, u)
  BY <1>1, <1>4, NextInList, HereTurning DEF List!heap
<1>6. ContentsOf(data, t) \in Seq(Elements)
  BY <1>2, ContentsTyped DEF Owned
<1>7. List!Items = Reverse(ContentsOf(data, t))
  <2>1. ContentsOf(data, u) = <<>>
    BY <1>3 DEF ContentsOf
  <2>2. Reverse(ContentsOf(data, t)) \in Seq(Elements)
    BY <1>6, ReverseTyped
  <2> QED
    BY <1>5, <2>1, <2>2
<1>8. List!Promise!Turn
  <2>1. Reverse(Reverse(ContentsOf(data, t))) = ContentsOf(data, t)
    BY <1>6, ReverseTwice
  <2>2. List!Promise!Reverse(List!Items) = Reverse(List!Items)
    BY DEF List!Promise!Reverse, Reverse
  <2> QED
    BY <1>5, <1>7, <2>1, <2>2 DEF List!Promise!Turn
<1> QED
  BY <1>1, <1>5, <1>8 DEF ListInv, List!TypeOK, List!NoDangling, List!heap

LEMMA HeapInit ==
    ASSUME List!HeapAssumption, List!Init
    PROVE  ListInv /\ List!Promise!Init
<1>1. Leads(next, head, <<>>) /\ Range(<<>>) = {}
  BY EmptyLeads DEF List!Init
<1>2. InList(<<>>)
  BY <1>1 DEF InList, List!Init, Owned
<1>3. HeapInv /\ List!Items = ContentsOf(data, <<>>)
  BY <1>2, HereInList DEF List!Init
<1>4. ContentsOf(data, <<>>) = <<>>
  BY DEF ContentsOf
<1> QED
  BY <1>3, <1>4 DEF ListInv, List!TypeOK, List!NoDangling, List!Init, List!Promise!Init

LEMMA IdleStep ==
    ASSUME List!HeapAssumption, ListInv, UNCHANGED List!vars
    PROVE  ListInv' /\ List!Items' = List!Items
<1>1. List!TypeOK' /\ List!NoDangling'
  BY DEF ListInv, List!TypeOK, List!NoDangling, List!vars, List!heap, List!locals
<1>2. CASE list_pc = "reverse"
  <2> PICK t : t = List!Chain(result)
    OBVIOUS
  <2> PICK u : u = List!Chain(current)
    OBVIOUS
  <2>1. Turning(t, u)
    BY <1>2 DEF ListInv, HeapInv
  <2>2. Turning(t, u)' /\ list_pc' = list_pc /\ data' = data
    BY <2>1 DEF Turning, List!vars, List!heap, List!locals
  <2>3. HeapInv' /\ List!Items' = List!Items
    BY <1>2, <2>1, <2>2, NextTurning, HereTurning
  <2> QED
    BY <1>1, <2>3 DEF ListInv
<1>3. CASE list_pc # "reverse"
  <2> PICK s : s = List!Chain(head)
    OBVIOUS
  <2>1. InList(s)
    BY <1>3 DEF ListInv, HeapInv
  <2>2. InList(s)' /\ list_pc' = list_pc /\ data' = data
    BY <2>1 DEF InList, Walking, List!vars, List!heap, List!locals
  <2>3. HeapInv' /\ List!Items' = List!Items
    BY <1>3, <2>1, <2>2, NextInList, HereInList
  <2> QED
    BY <1>1, <2>3 DEF ListInv
<1> QED
  BY <1>2, <1>3

LEMMA HeapStep ==
    ASSUME List!HeapAssumption, ListInv, [List!Next]_(List!vars)
    PROVE  ListInv' /\ [List!Promise!Next]_(List!Items)
<1> DEFINE Kept == ListInv' /\ (List!Promise!Next \/ List!Items' = List!Items)
<1> SUFFICES Kept
  OBVIOUS
<1>1. ASSUME NEW elem \in Elements, List!addToHead(elem) PROVE Kept
  BY <1>1, HeadStep DEF List!Promise!Next
<1>2. ASSUME NEW elem \in Elements, List!addToTail(elem) PROVE Kept
  BY <1>2, TailStep
<1>3. ASSUME NEW elem \in Elements, List!NoNode(elem) PROVE Kept
  BY <1>3, NoNodeStep
<1>4. CASE List!removeFirst
  BY <1>4, HeadFreedStep DEF List!removeFirst, List!Promise!Next
<1>5. CASE List!removeLast
  BY <1>5, RemoveLastStep
<1>6. CASE List!freeList
  BY <1>6, FreeListStep
<1>7. CASE List!reverseList
  BY <1>7, ReverseListStep
<1>8. CASE List!Walk
  BY <1>8, WalkStep
<1>9. CASE List!Appended
  BY <1>9, AppendedStep DEF List!Promise!Next
<1>10. CASE List!LastElementFreed
  BY <1>10, LastElementStep
<1>11. CASE List!Unlinked
  BY <1>11, UnlinkedStep DEF List!Promise!Next
<1>12. CASE List!FreeStep
  BY <1>12, FreedStep DEF List!Promise!Next
<1>13. CASE List!ReverseStep
  BY <1>13, TurnedStep
<1>14. CASE List!Reversed
  BY <1>14, ReversedStep DEF List!Promise!Next
<1>15. CASE UNCHANGED List!vars
  BY <1>15, IdleStep
<1> HIDE DEF Kept
<1> QED
  BY <1>1, <1>2, <1>3, <1>4, <1>5, <1>6, <1>7, <1>8, <1>9, <1>10, <1>11, <1>12, <1>13, <1>14, <1>15
     DEF List!Next, List!Running

LEMMA OwnsHeap ==
    ASSUME List!HeapAssumption, ListInv
    PROVE  List!ListOwnsHeap
<1> SUFFICES ASSUME list_pc = "rest"
             PROVE  /\ Range(List!Chain(head)) = nodes /\ Range(List!Contents(head)) = elements \ lost
                    /\ IsInjective(List!Chain(head)) /\ IsInjective(List!Contents(head))
  BY DEF List!ListOwnsHeap, List!Range, Range, List!IsInjective, IsInjective
<1> PICK s : s = List!Chain(head)
  OBVIOUS
<1>1. /\ InList(s) /\ Leads(next, head, s) /\ s \in Seq(Nodes) /\ IsInjective(s)
      /\ nodes = Range(s) /\ Owned(data, nodes, elements \ lost)
  BY DEF ListInv, HeapInv, InList, Leads
<1>2. DOMAIN s = 1 .. Len(s) /\ DOMAIN List!Contents(head) = 1 .. Len(s)
  BY <1>1 DEF List!Contents
<1>3. \A k \in 1 .. Len(s) : List!Contents(head)[k] = data[s[k]] /\ s[k] \in nodes
  BY <1>1, <1>2 DEF List!Contents, Range
<1>4. IsInjective(List!Contents(head))
  BY <1>1, <1>2, <1>3 DEF IsInjective, Owned
<1>5. Range(List!Contents(head)) = {data[n] : n \in nodes}
  BY <1>1, <1>2, <1>3, SMTT(30) DEF Range
<1> QED
  BY <1>1, <1>4, <1>5 DEF Owned

-----------------------------------------------------------------------------
(* urlcode.c.                                                              *)

UrlByte == 1 .. 255

\* A byte is its bits.
LEMMA HalfIs ==
    ASSUME NEW n \in 0 .. 15
    PROVE  n = 8 * ((n \div 8) % 2) + 4 * ((n \div 4) % 2) + 2 * ((n \div 2) % 2) + ((n \div 1) % 2)
OBVIOUS

LEMMA BitsOfHigh ==
    ASSUME NEW h \in 0 .. 15
    PROVE  /\ ((16 * h) \div 128) % 2 = (h \div 8) % 2 /\ ((16 * h) \div 64) % 2 = (h \div 4) % 2
           /\ ((16 * h) \div 32) % 2 = (h \div 2) % 2 /\ ((16 * h) \div 16) % 2 = (h \div 1) % 2
           /\ ((16 * h) \div 8) % 2 = 0 /\ ((16 * h) \div 4) % 2 = 0
           /\ ((16 * h) \div 2) % 2 = 0 /\ ((16 * h) \div 1) % 2 = 0
OBVIOUS

LEMMA BitsOfLow ==
    ASSUME NEW l \in 0 .. 15
    PROVE  /\ (l \div 128) % 2 = 0 /\ (l \div 64) % 2 = 0 /\ (l \div 32) % 2 = 0 /\ (l \div 16) % 2 = 0
OBVIOUS

LEMMA OredIs ==
    ASSUME NEW h \in 0 .. 15, NEW l \in 0 .. 15
    PROVE  Url!Ored(16 * h, l) = 16 * h + l
<1> DEFINE bit(w) == IF ((16 * h) \div w) % 2 = 1 \/ (l \div w) % 2 = 1 THEN w ELSE 0
           b(n, w) == (n \div w) % 2
<1>1. /\ bit(128) = 128 * b(h, 8) /\ bit(64) = 64 * b(h, 4) /\ bit(32) = 32 * b(h, 2) /\ bit(16) = 16 * b(h, 1)
  <2>1. \A w \in {8, 4, 2, 1} : b(h, w) \in {0, 1}
    OBVIOUS
  <2> QED
    BY <2>1, BitsOfHigh, BitsOfLow
<1>2. /\ bit(8) = 8 * b(l, 8) /\ bit(4) = 4 * b(l, 4) /\ bit(2) = 2 * b(l, 2) /\ bit(1) = b(l, 1)
  <2>1. \A w \in {8, 4, 2, 1} : b(l, w) \in {0, 1}
    OBVIOUS
  <2> QED
    BY <2>1, BitsOfHigh
<1>3. Url!Ored(16 * h, l) = bit(128) + bit(64) + bit(32) + bit(16) + bit(8) + bit(4) + bit(2) + bit(1)
  BY DEF Url!Ored
<1>4. /\ h = 8 * b(h, 8) + 4 * b(h, 4) + 2 * b(h, 2) + b(h, 1)
      /\ l = 8 * b(l, 8) + 4 * b(l, 4) + 2 * b(l, 2) + b(l, 1)
      /\ b(h, 8) \in Int /\ b(h, 4) \in Int /\ b(h, 2) \in Int /\ b(h, 1) \in Int
      /\ b(l, 8) \in Int /\ b(l, 4) \in Int /\ b(l, 2) \in Int /\ b(l, 1) \in Int
  BY HalfIs
<1> HIDE DEF bit, b
<1> QED
  BY <1>1, <1>2, <1>3, <1>4

LEMMA OredTyped == ASSUME NEW a, NEW b PROVE Url!Ored(a, b) \in 0 .. 255
<1> DEFINE bit(w) == IF (a \div w) % 2 = 1 \/ (b \div w) % 2 = 1 THEN w ELSE 0
<1>1. Url!Ored(a, b) = bit(128) + bit(64) + bit(32) + bit(16) + bit(8) + bit(4) + bit(2) + bit(1)
  BY DEF Url!Ored
<1>2. /\ bit(128) \in {0, 128} /\ bit(64) \in {0, 64} /\ bit(32) \in {0, 32} /\ bit(16) \in {0, 16}
      /\ bit(8) \in {0, 8} /\ bit(4) \in {0, 4} /\ bit(2) \in {0, 2} /\ bit(1) \in {0, 1}
  OBVIOUS
<1> HIDE DEF bit
<1> QED
  BY <1>1, <1>2

\* The two digits of a character give the character.
LEMMA DigitsBack ==
    ASSUME NEW ch \in UrlByte
    PROVE  LET high == Url!to_hex(ch \div 16) low == Url!to_hex(ch)
           IN  high \in UrlByte \ {32} /\ low \in UrlByte \ {32} /\ Url!Unescape(high, low) = ch
<1> DEFINE h == ch \div 16
           l == ch % 16
           high == Url!to_hex(ch \div 16)
           low == Url!to_hex(ch)
<1>1. h \in 0 .. 15 /\ l \in 0 .. 15 /\ ch = 16 * h + l /\ h % 16 = h
  BY DEF UrlByte
<1>2. high = (IF h < 10 THEN 48 + h ELSE 87 + h) /\ low = (IF l < 10 THEN 48 + l ELSE 87 + l)
  BY <1>1 DEF Url!to_hex
<1> HIDE DEF h, l, high, low
<1>3. \A n \in 0 .. 15 : Url!from_hex(IF n < 10 THEN 48 + n ELSE 87 + n) = n
  BY DEF Url!from_hex, Url!isdigit, Url!tolower, Url!isupper
<1>4. Url!from_hex(high) = h /\ Url!from_hex(low) = l
  BY <1>1, <1>2, <1>3
<1>5. (16 * h) % 256 = 16 * h /\ l % 256 = l
  BY <1>1
<1>6. Url!Unescape(high, low) = ch
  BY <1>1, <1>4, <1>5, OredIs DEF Url!Unescape
<1> QED
  BY <1>1, <1>2, <1>6 DEF h, l, high, low, UrlByte

\* What url_decode() makes of s from i on, given what it makes of the places behind i.
MadeOf(s, i, g) ==
    CASE i > Len(s) -> <<>>
      [] i <= Len(s) /\ s[i] = Url!percent ->
            IF i + 2 > Len(s) THEN g[i + 1]
            ELSE << Url!Unescape(s[i + 1], s[i + 2]) >> \o g[i + 3]
      [] OTHER -> << IF s[i] = Url!plus THEN Url!space ELSE s[i] >> \o g[i + 1]

Makes(g, s) == g = [i \in 1 .. Len(s) + 1 |-> MadeOf(s, i, g)]

LEMMA OneMore ==
    ASSUME NEW S, NEW c \in S, NEW t \in Seq(S)
    PROVE  <<c>> \o t \in Seq(S) /\ Len(<<c>> \o t) = Len(t) + 1
OBVIOUS

LEMMA MadeTyped ==
    ASSUME NEW s \in Seq(UrlByte), NEW i \in 1 .. Len(s) + 1, NEW g,
           \A j \in i + 1 .. Len(s) + 1 : g[j] \in Seq(0 .. 255) /\ Len(g[j]) <= Len(s) + 1 - j
    PROVE  MadeOf(s, i, g) \in Seq(0 .. 255) /\ Len(MadeOf(s, i, g)) <= Len(s) + 1 - i
<1>0. Len(s) \in Nat
  OBVIOUS
<1>1. CASE i > Len(s)
  BY <1>0, <1>1 DEF MadeOf
<1>2. CASE i <= Len(s) /\ s[i] = Url!percent /\ i + 2 > Len(s)
  <2>1. MadeOf(s, i, g) = g[i + 1]
    BY <1>0, <1>2 DEF MadeOf
  <2>2. i + 1 \in i + 1 .. Len(s) + 1
    BY <1>0, <1>2
  <2> QED
    BY <1>0, <2>1, <2>2
<1>3. CASE i <= Len(s) /\ s[i] = Url!percent /\ ~(i + 2 > Len(s))
  <2> PICK c, t : c = Url!Unescape(s[i + 1], s[i + 2]) /\ t = g[i + 3]
    OBVIOUS
  <2>1. MadeOf(s, i, g) = <<c>> \o t
    BY <1>0, <1>3, SMTT(60) DEF MadeOf
  <2>2. c \in 0 .. 255
    BY OredTyped DEF Url!Unescape
  <2>3. i + 3 \in i + 1 .. Len(s) + 1
    BY <1>0, <1>3
  <2>4. t \in Seq(0 .. 255) /\ Len(t) <= Len(s) + 1 - (i + 3)
    BY <2>3
  <2>5. <<c>> \o t \in Seq(0 .. 255) /\ Len(<<c>> \o t) = Len(t) + 1
    BY ONLY <2>2, <2>4, OneMore
  <2> QED
    BY <1>0, <2>1, <2>4, <2>5
<1>4. CASE i <= Len(s) /\ s[i] # Url!percent
  <2> PICK c, t : c = (IF s[i] = Url!plus THEN Url!space ELSE s[i]) /\ t = g[i + 1]
    OBVIOUS
  <2>1. MadeOf(s, i, g) = <<c>> \o t
    BY <1>0, <1>4 DEF MadeOf
  <2>2. c \in 0 .. 255
    <3>1. i \in 1 .. Len(s)
      BY <1>0, <1>4
    <3>2. s[i] \in UrlByte
      BY <3>1
    <3>3. s[i] \in 0 .. 255 /\ Url!space \in 0 .. 255
      BY ONLY <3>2 DEF UrlByte, Url!space
    <3> QED
      BY <3>3
  <2>3. i + 1 \in i + 1 .. Len(s) + 1
    BY <1>0, <1>4
  <2>4. t \in Seq(0 .. 255) /\ Len(t) <= Len(s) + 1 - (i + 1)
    BY <2>3
  <2>5. <<c>> \o t \in Seq(0 .. 255) /\ Len(<<c>> \o t) = Len(t) + 1
    BY ONLY <2>2, <2>4, OneMore
  <2> QED
    BY <1>0, <2>1, <2>4, <2>5
<1> QED
  BY <1>1, <1>2, <1>3, <1>4

\* Only the places behind i matter.
LEMMA MadeSame ==
    ASSUME NEW s \in Seq(UrlByte), NEW i \in 1 .. Len(s) + 1, NEW g, NEW h,
           \A j \in i + 1 .. Len(s) + 1 : g[j] = h[j]
    PROVE  MadeOf(s, i, g) = MadeOf(s, i, h)
<1>0. Len(s) \in Nat
  OBVIOUS
<1>1. CASE i > Len(s)
  BY <1>0, <1>1 DEF MadeOf
<1>2. CASE i <= Len(s) /\ s[i] = Url!percent /\ i + 2 > Len(s)
  <2>1. i + 1 \in i + 1 .. Len(s) + 1
    BY <1>0, <1>2
  <2> QED
    BY <1>0, <1>2, <2>1 DEF MadeOf
<1>3. CASE i <= Len(s) /\ s[i] = Url!percent /\ ~(i + 2 > Len(s))
  <2>1. i + 3 \in i + 1 .. Len(s) + 1
    BY <1>0, <1>3
  <2>2. g[i + 3] = h[i + 3]
    BY <2>1
  <2> QED
    BY <1>0, <1>3, <2>2, SMTT(60) DEF MadeOf
<1>4. CASE i <= Len(s) /\ s[i] # Url!percent
  <2>1. i + 1 \in i + 1 .. Len(s) + 1
    BY <1>0, <1>4
  <2>2. g[i + 1] = h[i + 1]
    BY <2>1
  <2> QED
    BY <1>0, <1>4, <2>2 DEF MadeOf
<1> QED
  BY <1>1, <1>2, <1>3, <1>4

\* The recursion of url_decode() has a solution.
LEMMA MadeExists ==
    ASSUME NEW s \in Seq(UrlByte)
    PROVE  \E g : Makes(g, s)
<1> PICK n : n = Len(s)
  OBVIOUS
<1>0. n \in Nat
  OBVIOUS
<1> DEFINE T == {k \in Nat : k <= n + 1 => \E g : /\ g = [i \in 1 .. n + 1 |-> g[i]]
                                                  /\ \A i \in n + 2 - k .. n + 1 : i >= 1 => g[i] = MadeOf(s, i, g)}
<1>1. 0 \in T
  <2> DEFINE g == [i \in 1 .. n + 1 |-> <<>>]
  <2>1. g = [i \in 1 .. n + 1 |-> g[i]]
    OBVIOUS
  <2>2. n + 2 - 0 .. n + 1 = {}
    BY <1>0
  <2> HIDE DEF g
  <2> QED
    BY <2>1, <2>2
<1>2. ASSUME NEW k \in Nat, k \in T PROVE k + 1 \in T
  <2> SUFFICES ASSUME k + 1 <= n + 1
               PROVE  \E g : /\ g = [i \in 1 .. n + 1 |-> g[i]]
                             /\ \A i \in n + 2 - (k + 1) .. n + 1 : i >= 1 => g[i] = MadeOf(s, i, g)
    OBVIOUS
  <2>0. k <= n + 1
    BY <1>0
  <2>1. PICK g : /\ g = [i \in 1 .. n + 1 |-> g[i]]
                 /\ \A i \in n + 2 - k .. n + 1 : i >= 1 => g[i] = MadeOf(s, i, g)
    BY <1>2, <2>0
  <2> PICK m : m = n + 1 - k
    OBVIOUS
  <2>2. m \in 1 .. n + 1 /\ n + 2 - k = m + 1 /\ n + 2 - (k + 1) = m
    BY <1>0, <2>0
  <2> DEFINE h == [i \in 1 .. n + 1 |-> IF i = m THEN MadeOf(s, m, g) ELSE g[i]]
  <2>3. h = [i \in 1 .. n + 1 |-> h[i]]
    OBVIOUS
  <2>4. h[m] = MadeOf(s, m, g) /\ \A i \in m + 1 .. n + 1 : h[i] = g[i]
    BY <1>0, <2>2
  <2> HIDE DEF h
  <2>5. ASSUME NEW i \in m .. n + 1 PROVE h[i] = MadeOf(s, i, h)
    <3>1. i \in 1 .. Len(s) + 1 /\ \A j \in i + 1 .. Len(s) + 1 : j \in m + 1 .. n + 1
      BY <1>0, <2>2
    <3>2. \A j \in i + 1 .. Len(s) + 1 : g[j] = h[j]
      BY <2>4, <3>1
    <3>3. MadeOf(s, i, g) = MadeOf(s, i, h)
      BY ONLY <3>1, <3>2, MadeSame, s \in Seq(UrlByte)
    <3>4. CASE i = m
      BY <2>4, <3>3, <3>4
    <3>5. CASE i # m
      <4>1. i \in m + 1 .. n + 1 /\ i \in n + 2 - k .. n + 1 /\ i >= 1
        BY <1>0, <2>2, <3>5
      <4> QED
        BY <2>1, <2>4, <3>3, <4>1
    <3> QED
      BY <3>4, <3>5
  <2> QED
    BY <2>2, <2>3, <2>5
<1> HIDE DEF T
<1>3. n + 1 \in T
  BY <1>0, <1>1, <1>2, Induction
<1>4. PICK g : /\ g = [i \in 1 .. n + 1 |-> g[i]]
               /\ \A i \in n + 2 - (n + 1) .. n + 1 : i >= 1 => g[i] = MadeOf(s, i, g)
  BY <1>0, <1>3 DEF T
<1>5. \A i \in 1 .. n + 1 : i \in n + 2 - (n + 1) .. n + 1 /\ i >= 1
  BY <1>0
<1>6. \A i \in 1 .. n + 1 : g[i] = MadeOf(s, i, g)
  BY <1>4, <1>5
<1>7. g = [i \in 1 .. n + 1 |-> MadeOf(s, i, g)]
  BY <1>4, <1>6
<1> QED
  BY <1>7 DEF Makes

LEMMA DecodedIs ==
    ASSUME NEW s \in Seq(UrlByte)
    PROVE  \E g : Makes(g, s) /\ Url!Decoded(s) = g[1]
<1> DEFINE g == CHOOSE g : Makes(g, s)
<1>1. Makes(g, s)
  BY MadeExists
<1>2. Url!Decoded(s) = g[1]
  BY DEF Url!Decoded, Makes, MadeOf
<1> QED
  BY <1>1, <1>2

\* The decoded string is no longer than its code.
LEMMA DecodedTyped ==
    ASSUME NEW s \in Seq(UrlByte)
    PROVE  Url!Decoded(s) \in Seq(0 .. 255) /\ Len(Url!Decoded(s)) <= Len(s)
<1>1. PICK g : Makes(g, s) /\ Url!Decoded(s) = g[1]
  BY DecodedIs
<1> PICK n : n = Len(s)
  OBVIOUS
<1>2. n \in Nat
  OBVIOUS
<1>3. \A i \in 1 .. n + 1 : g[i] = MadeOf(s, i, g)
  BY <1>1 DEF Makes
<1> DEFINE right(j) == g[j] \in Seq(0 .. 255) /\ Len(g[j]) <= n + 1 - j
           T == {k \in Nat : \A i \in n + 1 - k .. n + 1 : i >= 1 => right(i)}
<1>4. ASSUME NEW m \in 1 .. n + 1, \A j \in m + 1 .. n + 1 : right(j) PROVE right(m)
  <2>1. MadeOf(s, m, g) \in Seq(0 .. 255) /\ Len(MadeOf(s, m, g)) <= n + 1 - m
    BY <1>4, MadeTyped
  <2> QED
    BY <1>3, <2>1
<1> HIDE DEF right
<1>5. 0 \in T
  <2>1. right(n + 1)
    BY <1>2, <1>4
  <2> QED
    BY <1>2, <2>1
<1>6. ASSUME NEW k \in Nat, k \in T PROVE k + 1 \in T
  <2> SUFFICES ASSUME NEW i \in n + 1 - (k + 1) .. n + 1, i >= 1 PROVE right(i)
    OBVIOUS
  <2>1. CASE i \in n + 1 - k .. n + 1
    BY <1>6, <2>1
  <2>2. CASE i \notin n + 1 - k .. n + 1
    <3>1. i = n - k /\ i \in 1 .. n + 1 /\ \A j \in i + 1 .. n + 1 : j \in n + 1 - k .. n + 1 /\ j >= 1
      BY <1>2, <2>2
    <3> QED
      BY <1>4, <1>6, <3>1
  <2> QED
    BY <2>1, <2>2
<1> HIDE DEF T
<1>7. n \in T
  BY <1>2, <1>5, <1>6, Induction
<1>8. right(1)
  BY <1>2, <1>7 DEF T
<1> QED
  BY <1>1, <1>2, <1>8 DEF right

\* F codes each character of V as itself, a blank as a plus, or a percent sign and two digits.
Codes(F, V) ==
    /\ Spreads(F, V, UrlByte)
    /\ \A e \in V :
          \/ \E c \in UrlByte : /\ F[e] = <<c>> /\ c # Url!percent
                                /\ e = IF c = Url!plus THEN Url!space ELSE c
          \/ \E a, b \in UrlByte : F[e] = <<Url!percent, a, b>> /\ Url!Unescape(a, b) = e

\* What a piece of a string is within the whole.
LEMMA PieceAt ==
    ASSUME NEW S, NEW a \in Seq(S), NEW f \in Seq(S), NEW c \in Seq(S)
    PROVE  \A j \in 1 .. Len(f) : ((a \o f) \o c)[Len(a) + j] = f[j]
OBVIOUS

LEMMA LengthOfThree ==
    ASSUME NEW S, NEW a \in Seq(S), NEW f \in Seq(S), NEW c \in Seq(S)
    PROVE  /\ Len((a \o f) \o c) = Len(a) + Len(f) + Len(c) /\ Len(a \o f) = Len(a) + Len(f)
           /\ Len(a) \in Nat /\ Len(f) \in Nat /\ Len(c) \in Nat
OBVIOUS

\* A coded string is decoded to what was coded.
LEMMA DecodedCode ==
    ASSUME NEW V, V \subseteq UrlByte, NEW F, Codes(F, V), NEW s \in Seq(V)
    PROVE  Url!Decoded(Spread(s, F)) = s
<1>1. Spreads(F, V, UrlByte)
  BY DEF Codes
<1> PICK t : t = Spread(s, F)
  OBVIOUS
<1>2. t \in Seq(UrlByte)
  BY <1>1, SpreadTyped
<1>3. PICK g : Makes(g, t) /\ Url!Decoded(t) = g[1]
  BY <1>2, DecodedIs
<1>4. \A i \in 1 .. Len(t) + 1 : g[i] = MadeOf(t, i, g)
  BY <1>3 DEF Makes
<1> DEFINE right(n) == \A a, b \in Seq(V) : a \o b = s /\ Len(b) = n => g[Len(Spread(a, F)) + 1] = b
           N == {n \in Nat : right(n)}
<1>5. right(0)
  <2> SUFFICES ASSUME NEW a \in Seq(V), NEW b \in Seq(V), a \o b = s, Len(b) = 0
               PROVE  g[Len(Spread(a, F)) + 1] = b
    OBVIOUS
  <2>1. b = <<>> /\ a = s
    OBVIOUS
  <2>2. Len(t) + 1 \in 1 .. Len(t) + 1 /\ Len(t) + 1 > Len(t)
    BY <1>2
  <2>3. MadeOf(t, Len(t) + 1, g) = <<>>
    BY <2>2 DEF MadeOf
  <2> QED
    BY <1>4, <2>1, <2>2, <2>3
<1>6. ASSUME NEW n \in Nat, right(n) PROVE right(n + 1)
  <2> SUFFICES ASSUME NEW a \in Seq(V), NEW b \in Seq(V), a \o b = s, Len(b) = n + 1
               PROVE  g[Len(Spread(a, F)) + 1] = b
    OBVIOUS
  <2> PICK e, r, d : e = b[1] /\ r = Tail(b) /\ d = Append(a, e)
    OBVIOUS
  <2>1. e \in V /\ r \in Seq(V) /\ Len(r) = n /\ b = <<e>> \o r /\ b # <<>> /\ d \in Seq(V)
    BY <1>6
  <2>2. d \o r = s
    BY <2>1, AppendTail
  <2>3. g[Len(Spread(d, F)) + 1] = r
    BY <1>6, <2>1, <2>2
  <2> PICK p, f, q : p = Spread(a, F) /\ f = F[e] /\ q = Spread(r, F)
    OBVIOUS
  <2>4. p \in Seq(UrlByte) /\ f \in Seq(UrlByte) /\ q \in Seq(UrlByte)
    BY <1>1, <2>1, SpreadTyped DEF Spreads
  <2>5. Spread(d, F) = p \o f
    <3>1. Spread(Append(a, e), F) = Spread(a, F) \o F[e]
      BY ONLY <1>1, <2>1, SpreadAppend, a \in Seq(V)
    <3> QED
      BY <3>1
  <2>6. t = (p \o f) \o q
    <3>1. Spread(d \o r, F) = Spread(d, F) \o Spread(r, F)
      BY ONLY <1>1, <2>1, SpreadConcat, SMTT(60)
    <3> QED
      BY <2>2, <2>5, <3>1
  <2>7. /\ \A j \in 1 .. Len(f) : t[Len(p) + j] = f[j]
        /\ Len(t) = Len(p) + Len(f) + Len(q) /\ Len(p \o f) = Len(p) + Len(f)
        /\ Len(p) \in Nat /\ Len(f) \in Nat /\ Len(q) \in Nat
    <3>1. \A j \in 1 .. Len(f) : ((p \o f) \o q)[Len(p) + j] = f[j]
      BY ONLY <2>4, PieceAt, SMTT(60)
    <3>2. /\ Len((p \o f) \o q) = Len(p) + Len(f) + Len(q) /\ Len(p \o f) = Len(p) + Len(f)
          /\ Len(p) \in Nat /\ Len(f) \in Nat /\ Len(q) \in Nat
      BY ONLY <2>4, LengthOfThree
    <3> QED
      BY <2>6, <3>1, <3>2, Zenon
  <2>8. Len(p) + 1 \in 1 .. Len(t) + 1
    BY <2>7
  <2>9. g[Len(p) + 1] = MadeOf(t, Len(p) + 1, g)
    BY <1>4, <2>8
  <2>10. CASE \E c \in UrlByte : /\ f = <<c>> /\ c # Url!percent
                                 /\ e = IF c = Url!plus THEN Url!space ELSE c
    <3>1. PICK c \in UrlByte : /\ f = <<c>> /\ c # Url!percent
                               /\ e = IF c = Url!plus THEN Url!space ELSE c
      BY <2>10
    <3>2. Len(f) = 1 /\ f[1] = c
      BY <3>1
    <3>3. t[Len(p) + 1] = c /\ Len(p) + 1 <= Len(t) /\ Len(p \o f) = Len(p) + 1
      BY ONLY <2>7, <3>2
    <3>4. MadeOf(t, Len(p) + 1, g) = <<e>> \o g[Len(p) + 2]
      <4> PICK i : i = Len(p) + 1
        OBVIOUS
      <4>1. i + 1 = Len(p) + 2 /\ i <= Len(t) /\ ~(i > Len(t))
        BY ONLY <2>7, <3>3, i = Len(p) + 1
      <4>2. MadeOf(t, i, g) = <<IF t[i] = Url!plus THEN Url!space ELSE t[i]>> \o g[i + 1]
        BY ONLY <3>1, <3>3, <4>1, i = Len(p) + 1 DEF MadeOf
      <4> QED
        BY ONLY <3>1, <3>3, <4>1, <4>2, i = Len(p) + 1
    <3>5. Len(p \o f) + 1 = Len(p) + 2
      BY ONLY <2>7, <3>3
    <3> QED
      BY <2>1, <2>3, <2>5, <2>9, <3>4, <3>5
  <2>11. CASE \E x, y \in UrlByte : f = <<Url!percent, x, y>> /\ Url!Unescape(x, y) = e
    <3>1. PICK x \in UrlByte, y \in UrlByte : f = <<Url!percent, x, y>> /\ Url!Unescape(x, y) = e
      BY <2>11
    <3>2. Len(f) = 3 /\ f[1] = Url!percent /\ f[2] = x /\ f[3] = y
      BY <3>1
    <3>3. /\ t[Len(p) + 1] = Url!percent /\ t[Len(p) + 2] = x /\ t[Len(p) + 3] = y
          /\ Len(p) + 3 <= Len(t) /\ Len(p \o f) = Len(p) + 3
      <4>1. t[Len(p) + 1] = f[1] /\ t[Len(p) + 2] = f[2] /\ t[Len(p) + 3] = f[3]
        BY ONLY <2>7, <3>2
      <4>2. Len(p) + 3 <= Len(t) /\ Len(p \o f) = Len(p) + 3
        BY ONLY <2>7, <3>2
      <4> QED
        BY ONLY <3>2, <4>1, <4>2
    <3>4. MadeOf(t, Len(p) + 1, g) = <<e>> \o g[Len(p) + 4]
      <4> PICK i : i = Len(p) + 1
        OBVIOUS
      <4>1. /\ i + 1 = Len(p) + 2 /\ i + 2 = Len(p) + 3 /\ i + 3 = Len(p) + 4
            /\ i <= Len(t) /\ ~(i > Len(t)) /\ ~(i + 2 > Len(t))
        BY <2>7, <3>3, SMTT(60)
      <4>2. MadeOf(t, i, g) = <<Url!Unescape(t[i + 1], t[i + 2])>> \o g[i + 3]
        BY <3>3, <4>1 DEF MadeOf
      <4> QED
        BY <3>1, <3>3, <4>1, <4>2
    <3>5. Len(p \o f) + 1 = Len(p) + 4
      BY <2>7, <3>3, SMTT(60)
    <3> QED
      BY <2>1, <2>3, <2>5, <2>9, <3>4, <3>5
  <2> QED
    BY <2>1, <2>10, <2>11 DEF Codes
<1> HIDE DEF right
<1>7. 0 \in N /\ \A n \in Nat : n \in N => n + 1 \in N
  BY <1>5, <1>6
<1> HIDE DEF N
<1>8. Len(s) \in N
  BY <1>7, Induction
<1>9. <<>> \in Seq(V) /\ <<>> \o s = s /\ Len(s) = Len(s)
  OBVIOUS
<1>10. g[Len(Spread(<<>>, F)) + 1] = s
  BY <1>8, <1>9 DEF N, right
<1>11. Spread(<<>>, F) = <<>>
  BY SpreadEmpty
<1> QED
  BY <1>3, <1>10, <1>11

\* The characters that are coded as themselves stay when they are decoded.
UrlEncoding == [ch \in UrlByte |-> Url!Encoded(ch)]
Escaping(V) == [ch \in V |-> Url!Escaped(ch)]

LEMMA EscapeIs ==
    ASSUME NEW ch \in UrlByte
    PROVE  \E a, b \in UrlByte \ {32} : /\ Url!Escape(ch) = <<Url!percent, a, b>>
                                        /\ Url!Unescape(a, b) = ch
BY DigitsBack DEF Url!Escape

LEMMA EncodingCodes == Codes(UrlEncoding, UrlByte)
<1>1. ASSUME NEW e \in UrlByte
      PROVE  /\ UrlEncoding[e] \in Seq(UrlByte)
             /\ \/ \E c \in UrlByte : /\ UrlEncoding[e] = <<c>> /\ c # Url!percent
                                      /\ e = IF c = Url!plus THEN Url!space ELSE c
                \/ \E a, b \in UrlByte : UrlEncoding[e] = <<Url!percent, a, b>> /\ Url!Unescape(a, b) = e
  <2>0. UrlEncoding[e] = Url!Encoded(e)
    BY DEF UrlEncoding
  <2>1. CASE Url!unreserved(e)
    <3>1. e # Url!percent /\ e # Url!plus /\ e # Url!space
      BY <2>1 DEF Url!unreserved, Url!isdigit, Url!tolower, Url!isupper, Url!percent, Url!plus, Url!space, UrlByte
    <3>2. Url!Encoded(e) = <<e>>
      BY <2>1, <3>1 DEF Url!Encoded
    <3> QED
      BY <2>0, <3>1, <3>2
  <2>2. CASE ~Url!unreserved(e) /\ e = Url!space
    <3>1. Url!Encoded(e) = <<Url!plus>>
      BY <2>2 DEF Url!Encoded
    <3>2. Url!plus \in UrlByte /\ Url!plus # Url!percent
      BY DEF Url!percent, Url!plus, UrlByte
    <3> QED
      BY <2>0, <2>2, <3>1, <3>2
  <2>3. CASE ~Url!unreserved(e) /\ e # Url!space
    <3>1. Url!Encoded(e) = Url!Escape(e)
      BY <2>3 DEF Url!Encoded
    <3>2. PICK a, b \in UrlByte : Url!Escape(e) = <<Url!percent, a, b>> /\ Url!Unescape(a, b) = e
      BY EscapeIs
    <3>3. Url!percent \in UrlByte
      BY DEF Url!percent, UrlByte
    <3> QED
      BY <2>0, <3>1, <3>2, <3>3
  <2> QED
    BY <2>1, <2>2, <2>3
<1>2. UrlEncoding \in [UrlByte -> Seq(UrlByte)]
  <2>1. UrlEncoding = [ch \in UrlByte |-> UrlEncoding[ch]]
    BY DEF UrlEncoding
  <2> QED
    BY <1>1, <2>1
<1> QED
  BY <1>1, <1>2 DEF Codes, Spreads

LEMMA EscapingCodes ==
    ASSUME NEW V, V \subseteq UrlByte, Url!plus \notin V, Url!percent \notin V
    PROVE  Codes(Escaping(V), V)
<1>1. ASSUME NEW e \in V
      PROVE  /\ Escaping(V)[e] \in Seq(UrlByte)
             /\ \/ \E c \in UrlByte : /\ Escaping(V)[e] = <<c>> /\ c # Url!percent
                                      /\ e = IF c = Url!plus THEN Url!space ELSE c
                \/ \E a, b \in UrlByte : Escaping(V)[e] = <<Url!percent, a, b>> /\ Url!Unescape(a, b) = e
  <2>0. Escaping(V)[e] = Url!Escaped(e) /\ e \in UrlByte /\ e # Url!plus /\ e # Url!percent
    BY DEF Escaping
  <2>1. CASE e # Url!space
    BY <2>0, <2>1 DEF Url!Escaped
  <2>2. CASE e = Url!space
    <3>1. Url!Escaped(e) = Url!Escape(e)
      BY <2>2 DEF Url!Escaped
    <3>2. PICK a, b \in UrlByte : Url!Escape(e) = <<Url!percent, a, b>> /\ Url!Unescape(a, b) = e
      BY <2>0, EscapeIs
    <3>3. Url!percent \in UrlByte
      BY DEF Url!percent, UrlByte
    <3> QED
      BY <2>0, <3>1, <3>2, <3>3
  <2> QED
    BY <2>1, <2>2
<1>2. Escaping(V) \in [V -> Seq(UrlByte)]
  <2>1. Escaping(V) = [ch \in V |-> Escaping(V)[ch]]
    BY DEF Escaping
  <2> QED
    BY <1>1, <2>1
<1> QED
  BY <1>1, <1>2 DEF Codes, Spreads

NoSpace == UrlByte \ {Url!space}

LEMMA EscapingSpreads == Spreads(Escaping(UrlByte), UrlByte, NoSpace)
<1>1. ASSUME NEW e \in UrlByte PROVE Escaping(UrlByte)[e] \in Seq(NoSpace)
  <2>0. Escaping(UrlByte)[e] = Url!Escaped(e)
    BY DEF Escaping
  <2>1. CASE e # Url!space
    BY <2>0, <2>1 DEF Url!Escaped, NoSpace
  <2>2. CASE e = Url!space
    <3>1. Url!Escaped(e) = Url!Escape(e)
      BY <2>2 DEF Url!Escaped
    <3>2. PICK a, b \in UrlByte \ {32} : Url!Escape(e) = <<Url!percent, a, b>> /\ Url!Unescape(a, b) = e
      BY <2>0, EscapeIs
    <3>3. Url!percent \in NoSpace /\ a \in NoSpace /\ b \in NoSpace
      BY <3>2 DEF Url!percent, Url!space, NoSpace, UrlByte
    <3> QED
      BY <2>0, <3>1, <3>2, <3>3
  <2> QED
    BY <2>1, <2>2
<1> QED
  BY <1>1 DEF Spreads, Escaping

\* The two encoders spread the characters.
LEMMA UrlFlatten == \A ss : Url!FlattenSeq(ss) = FlattenSeq(ss)
BY DEF Url!FlattenSeq, FlattenSeq

LEMMA EncodedIs ==
    ASSUME NEW s \in Seq(UrlByte)
    PROVE  Url!EncodedUrl(s) = Spread(s, UrlEncoding)
<1>1. [i \in 1 .. Len(s) |-> Url!Encoded(s[i])] = Mapped(s, UrlEncoding)
  BY DEF Mapped, UrlEncoding
<1> QED
  BY <1>1, UrlFlatten, Zenon DEF Url!EncodedUrl, Spread

LEMMA EscapedIs ==
    ASSUME NEW V, NEW s \in Seq(V)
    PROVE  Url!EscapedUrl(s) = Spread(s, Escaping(V))
<1>1. [i \in 1 .. Len(s) |-> Url!Escaped(s[i])] = Mapped(s, Escaping(V))
  BY DEF Mapped, Escaping
<1> QED
  BY <1>1, UrlFlatten, Zenon DEF Url!EscapedUrl, Spread

\* Up to three characters for every one.
LEMMA ThriceAsLong ==
    ASSUME NEW F, NEW V, Spreads(F, V, UrlByte), \A e \in V : Len(F[e]) <= 3, NEW s \in Seq(V)
    PROVE  Spread(s, F) \in Seq(UrlByte) /\ Len(Spread(s, F)) <= 3 * Len(s)
<1> DEFINE good == {c \in Seq(V) : Len(Spread(c, F)) <= 3 * Len(c)}
<1>1. <<>> \in good
  <2>1. Spread(<<>>, F) = <<>>
    BY SpreadEmpty
  <2> QED
    BY <2>1
<1>2. ASSUME NEW c \in Seq(V), NEW e \in V, c \in good PROVE Append(c, e) \in good
  <2> PICK p, f, d : p = Spread(c, F) /\ f = F[e] /\ d = Append(c, e)
    OBVIOUS
  <2>1. p \in Seq(UrlByte) /\ f \in Seq(UrlByte) /\ Len(f) <= 3
    BY SpreadTyped DEF Spreads
  <2>2. Spread(d, F) = p \o f
    <3>1. Spread(Append(c, e), F) = Spread(c, F) \o F[e]
      BY ONLY Spreads(F, V, UrlByte), c \in Seq(V), e \in V, SpreadAppend
    <3> QED
      BY <3>1
  <2>3. d \in Seq(V) /\ Len(d) = Len(c) + 1 /\ Len(c) \in Nat
    OBVIOUS
  <2>4. Len(p \o f) = Len(p) + Len(f) /\ Len(p) \in Nat /\ Len(f) \in Nat
    BY ONLY <2>1
  <2>5. Len(p) <= 3 * Len(c)
    BY <1>2
  <2>6. Len(Spread(d, F)) <= 3 * Len(d)
    BY <2>1, <2>2, <2>3, <2>4, <2>5
  <2> QED
    BY <2>3, <2>6
<1> HIDE DEF good
<1>3. s \in good
  BY <1>1, <1>2, SequenceInduction
<1> QED
  BY <1>3, SpreadTyped DEF good

LEMMA CodeLength == \A e \in UrlByte : Len(UrlEncoding[e]) <= 3
<1> SUFFICES ASSUME NEW e \in UrlByte PROVE Len(UrlEncoding[e]) <= 3
  OBVIOUS
<1> PICK f : f = UrlEncoding[e]
  OBVIOUS
<1>1. (\E c \in UrlByte : f = <<c>>) \/ \E a, b \in UrlByte : f = <<Url!percent, a, b>>
  BY EncodingCodes DEF Codes
<1>2. Len(f) \in {1, 3}
  BY ONLY <1>1
<1>3. \A n \in {1, 3} : n <= 3
  OBVIOUS
<1> QED
  BY <1>2, <1>3, Zenon

LEMMA EncodedBack ==
    ASSUME NEW s \in Seq(UrlByte)
    PROVE  /\ Url!EncodedUrl(s) \in Seq(UrlByte) /\ Url!Decoded(Url!EncodedUrl(s)) = s
           /\ Len(Url!EncodedUrl(s)) <= 3 * Len(s)
<1>1. Codes(UrlEncoding, UrlByte) /\ \A e \in UrlByte : Len(UrlEncoding[e]) <= 3
  BY EncodingCodes, CodeLength
<1>2. Spreads(UrlEncoding, UrlByte, UrlByte)
  BY <1>1 DEF Codes
<1>3. Url!Decoded(Spread(s, UrlEncoding)) = s
  BY <1>1, DecodedCode
<1> QED
  BY <1>1, <1>2, <1>3, EncodedIs, ThriceAsLong

LEMMA EscapedTyped ==
    ASSUME NEW s \in Seq(UrlByte)
    PROVE  Url!EscapedUrl(s) \in Seq(NoSpace) /\ Len(Url!EscapedUrl(s)) <= 3 * Len(s)
<1>1. Spreads(Escaping(UrlByte), UrlByte, NoSpace)
  BY EscapingSpreads
<1>2. Seq(NoSpace) \subseteq Seq(UrlByte)
  BY DEF NoSpace
<1>3. Spreads(Escaping(UrlByte), UrlByte, UrlByte)
  BY <1>1, <1>2 DEF Spreads
<1>4. \A e \in UrlByte : Len(Escaping(UrlByte)[e]) <= 3
  BY DEF Escaping, Url!Escaped, Url!Escape
<1>5. Spread(s, Escaping(UrlByte)) \in Seq(NoSpace)
  BY <1>1, SpreadTyped
<1> QED
  BY <1>3, <1>4, <1>5, EscapedIs, ThriceAsLong

\* Without a blank nothing is escaped.
LEMMA EscapedAgain ==
    ASSUME NEW s \in Seq(NoSpace)
    PROVE  Url!EscapedUrl(s) = s
<1>1. Spreads(Escaping(UrlByte), UrlByte, NoSpace) /\ NoSpace \subseteq UrlByte
  BY EscapingSpreads DEF NoSpace
<1>2. \A e \in NoSpace : Escaping(UrlByte)[e] = <<e>>
  BY DEF Escaping, NoSpace, Url!Escaped
<1>3. Spread(s, Escaping(UrlByte)) = s
  BY <1>1, <1>2, SpreadSingles
<1>4. s \in Seq(UrlByte)
  BY <1>1
<1> QED
  BY <1>3, <1>4, EscapedIs

LEMMA EscapedBack ==
    ASSUME NEW s \in Seq(UrlByte), {Url!plus, Url!percent} \cap Range(s) = {}
    PROVE  Url!Decoded(Url!EscapedUrl(s)) = s
<1> PICK V : V = UrlByte \ {Url!plus, Url!percent}
  OBVIOUS
<1>1. s \in Seq(V)
  <2>1. \A i \in 1 .. Len(s) : s[i] \in V
    BY DEF Range
  <2>2. s = [i \in 1 .. Len(s) |-> s[i]] /\ Len(s) \in Nat
    OBVIOUS
  <2> QED
    BY <2>1, <2>2, SeqDef
<1>2. Codes(Escaping(V), V)
  BY EscapingCodes
<1>3. Url!Decoded(Spread(s, Escaping(V))) = s
  BY <1>1, <1>2, DecodedCode
<1> QED
  BY <1>1, <1>3, EscapedIs

\* What was made of what, and the block it was written to.
UrlInv ==
    /\ Url!TypeOK
    /\ url_pc = "idle" => code = <<>> /\ plain = Url!NoString
    /\ url_pc = "encoded" => /\ code = Url!EncodedUrl(str) /\ room = Url!Room(Len(str))
                             /\ plain = Url!NoString
    /\ url_pc = "escaped" => code = Url!EscapedUrl(str) /\ room = Url!Room(Len(str))
    /\ url_pc = "decoded" => /\ code = Url!Decoded(str) /\ room = Len(str) + 1
                             /\ plain # Url!NoString => plain \in Seq(UrlByte) /\ str = Url!EncodedUrl(plain)

LEMMA UrlInit == Url!Init => UrlInv
BY DEF Url!Init, UrlInv, Url!TypeOK, Url!NoString

LEMMA UrlStepInv == UrlInv /\ [Url!Next]_(Url!vars) => UrlInv'
<1> SUFFICES ASSUME UrlInv, [Url!Next]_(Url!vars) PROVE UrlInv'
  OBVIOUS
<1>0. str \in Seq(UrlByte) /\ Strings \subseteq Seq(UrlByte) /\ Seq(UrlByte) \subseteq Seq(0 .. 255)
  BY UrlAssumption DEF UrlInv, Url!TypeOK, Url!UrlCodeAssumption, UrlByte
<1>1. ASSUME NEW s \in Strings, Url!url_encode(s) PROVE UrlInv'
  <2>1. s \in Seq(UrlByte) /\ Url!EncodedUrl(s) \in Seq(0 .. 255) /\ Url!Room(Len(s)) \in Nat
    BY <1>0, EncodedBack DEF Url!Room
  <2> QED
    BY <1>1, <2>1 DEF Url!url_encode, UrlInv, Url!TypeOK, UrlByte
<1>2. ASSUME NEW s \in Strings, Url!url_encode_whitespace(s) PROVE UrlInv'
  <2>1. s \in Seq(UrlByte) /\ Url!EscapedUrl(s) \in Seq(0 .. 255) /\ Url!Room(Len(s)) \in Nat
    BY <1>0, EscapedTyped DEF Url!Room, NoSpace, UrlByte
  <2> QED
    BY <1>2, <2>1 DEF Url!url_encode_whitespace, UrlInv, Url!TypeOK, UrlByte
<1>3. ASSUME NEW s \in Strings \cup {code}, Url!url_decode(s) PROVE UrlInv'
  <2>1. s \in Seq(UrlByte)
    <3>1. CASE s \in Strings
      BY <1>0, <3>1
    <3>2. CASE s = code /\ url_pc = "encoded"
      BY <1>0, <3>2, EncodedBack DEF UrlInv
    <3>3. CASE s = code /\ url_pc = "idle"
      BY <3>3 DEF UrlInv
    <3> QED
      BY <1>3, <3>1, <3>2, <3>3 DEF Url!url_decode
  <2>2. Url!Decoded(s) \in Seq(0 .. 255) /\ Len(s) + 1 \in Nat
    BY <2>1, DecodedTyped
  <2>3. Url!TypeOK'
    BY <1>3, <2>1, <2>2 DEF Url!url_decode, Url!TypeOK, UrlByte
  <2>4. url_pc' = "decoded" /\ code' = Url!Decoded(str') /\ room' = Len(str') + 1
    BY <1>3 DEF Url!url_decode
  <2>5. plain' # Url!NoString => plain' \in Seq(UrlByte) /\ str' = Url!EncodedUrl(plain')
    <3>1. CASE url_pc = "idle"
      BY <1>3, <3>1 DEF Url!url_decode, UrlInv
    <3>2. CASE url_pc # "idle"
      BY <1>0, <1>3, <3>2 DEF Url!url_decode, UrlInv
    <3> QED
      BY <3>1, <3>2
  <2> QED
    BY <2>3, <2>4, <2>5 DEF UrlInv
<1>4. CASE Url!Release
  BY <1>4 DEF Url!Release, UrlInv, Url!TypeOK
<1>5. CASE UNCHANGED Url!vars
  BY <1>5 DEF Url!vars, UrlInv, Url!TypeOK
<1> QED
  BY <1>1, <1>2, <1>3, <1>4, <1>5 DEF Url!Next

\* UrlCode's properties follow from what each function made.
LEMMA UrlsRight == UrlInv => Url!RoundTrip /\ Url!RequestClean /\ Url!WritesFit
<1> SUFFICES ASSUME UrlInv PROVE Url!RoundTrip /\ Url!RequestClean /\ Url!WritesFit
  OBVIOUS
<1>0. str \in Seq(UrlByte) /\ Len(str) \in Nat
  BY DEF UrlInv, Url!TypeOK, UrlByte
<1>1. Url!RoundTrip
  BY EncodedBack DEF UrlInv, Url!RoundTrip
<1>2. Url!RequestClean
  <2> SUFFICES ASSUME url_pc = "escaped"
               PROVE  /\ Url!space \notin Url!ToSet(code) /\ Url!EscapedUrl(code) = code
                      /\ {Url!plus, Url!percent} \cap Url!ToSet(str) = {} => Url!Decoded(code) = str
    BY DEF Url!RequestClean
  <2>1. code = Url!EscapedUrl(str) /\ code \in Seq(NoSpace)
    BY <1>0, EscapedTyped DEF UrlInv
  <2>2. Url!space \notin Url!ToSet(code)
    BY <2>1 DEF Url!ToSet, NoSpace
  <2>3. Url!ToSet(str) = Range(str)
    BY DEF Url!ToSet, Range
  <2> QED
    BY <1>0, <2>1, <2>2, <2>3, EscapedAgain, EscapedBack
<1>3. Url!WritesFit
  <2>1. url_pc = "encoded" => Len(code) + 1 <= room
    BY <1>0, EncodedBack DEF UrlInv, Url!Room
  <2>2. url_pc = "escaped" => Len(code) + 1 <= room
    BY <1>0, EscapedTyped DEF UrlInv, Url!Room, NoSpace
  <2>3. url_pc = "decoded" => Len(code) + 1 <= room
    BY <1>0, DecodedTyped DEF UrlInv
  <2> QED
    BY <2>1, <2>2, <2>3 DEF UrlInv, Url!TypeOK, Url!WritesFit
<1> QED
  BY <1>1, <1>2, <1>3

-----------------------------------------------------------------------------
(* The folders of utils.c and the name of a download.                      *)

\* A string of the C library, or none.
Str == Seq(Char) \ {<<>>}
MaybeStr == Str \cup {None}

LEMMA PathConstants ==
    /\ Values \subseteq Seq(Char) /\ Settings \subseteq Seq(Char) /\ Urls \subseteq Seq(Char)
    /\ Garbage \subseteq Seq(Char) /\ None \notin Seq(Char) /\ None # <<>>
    /\ Statefile \in Str /\ Temp \in Str /\ PathMax \in Nat /\ PathMax >= 2
<1>1. <<>> \in Seq(Char)
  OBVIOUS
<1>2. None \notin Seq(Char)
  BY PathAssumption DEF Path!PathsAssumption
<1>3. None # <<>>
  BY <1>1, <1>2
<1> QED
  BY <1>2, <1>3, PathAssumption DEF Path!PathsAssumption, Str

LEMMA TailOfTwo ==
    ASSUME NEW S, NEW a \in S, NEW b \in S, NEW s \in Seq(S)
    PROVE  /\ <<a, b>> \o s \in Seq(S) /\ Len(<<a, b>> \o s) = 2 + Len(s)
           /\ Tail(<<a, b>> \o s) = <<b>> \o s
           /\ (<<a, b>> \o s)[1] = a /\ (<<a, b>> \o s)[2] = b
<1> PICK l, r, t : t = <<a, b>> \o s /\ l = Tail(t) /\ r = <<b>> \o s
  OBVIOUS
<1>1. /\ t \in Seq(S) /\ Len(t) = 2 + Len(s) /\ Len(s) \in Nat /\ t[1] = a /\ t[2] = b
      /\ \A i \in 1 .. Len(s) : t[2 + i] = s[i]
  OBVIOUS
<1>2. r \in Seq(S) /\ Len(r) = 1 + Len(s) /\ r[1] = b /\ \A i \in 1 .. Len(s) : r[1 + i] = s[i]
  OBVIOUS
<1>3. l \in Seq(S) /\ Len(l) = 1 + Len(s) /\ \A i \in 1 .. 1 + Len(s) : l[i] = t[i + 1]
  BY <1>1
<1>4. \A i \in 1 .. 1 + Len(s) : l[i] = r[i]
  <2> SUFFICES ASSUME NEW i \in 1 .. 1 + Len(s) PROVE l[i] = r[i]
    OBVIOUS
  <2>1. CASE i = 1
    BY <1>1, <1>2, <1>3, <2>1
  <2>2. CASE i # 1
    <3> PICK j : j = i - 1
      OBVIOUS
    <3>1. j \in 1 .. Len(s) /\ i = 1 + j /\ i + 1 = 2 + j
      BY <1>1, <2>2
    <3> QED
      BY <1>1, <1>2, <1>3, <3>1
  <2> QED
    BY <2>1, <2>2
<1>5. l = r
  BY <1>2, <1>3, <1>4
<1> QED
  BY <1>1, <1>5

LEMMA Duplicated ==
    ASSUME NEW s \in Seq(Char)
    PROVE  Path!am_strdup(s) \in MaybeStr
BY DEF Path!am_strdup, Str, MaybeStr

LEMMA HomeTyped ==
    ASSUME env \in [Path!Variables -> Values \cup {None}]
    PROVE  Path!get_home_folder \in MaybeStr
<1> PICK v : v = IF env["HOME"] # None THEN env["HOME"] ELSE env["passwd"]
  OBVIOUS
<1>1. v \in Values \cup {None}
  BY DEF Path!Variables
<1>2. Path!get_home_folder = Path!am_strdup(v)
  BY DEF Path!get_home_folder
<1>3. CASE v = None
  BY <1>2, <1>3, PathConstants DEF Path!am_strdup, MaybeStr
<1>4. CASE v # None
  BY <1>1, <1>2, <1>4, PathConstants, Duplicated
<1> QED
  BY <1>3, <1>4

LEMMA TempTyped ==
    ASSUME env \in [Path!Variables -> Values \cup {None}]
    PROVE  Path!get_temp_folder \in MaybeStr
<1> PICK v : v = CASE env["TEMPDIR"] # None -> env["TEMPDIR"]
                   [] env["TEMPDIR"] = None /\ env["TMPDIR"] # None -> env["TMPDIR"]
                   [] OTHER -> Temp
  OBVIOUS
<1>1. v \in Seq(Char)
  <2>1. env["TEMPDIR"] \in Values \cup {None} /\ env["TMPDIR"] \in Values \cup {None}
    BY DEF Path!Variables
  <2> QED
    BY <2>1, PathConstants DEF Str
<1>2. Path!get_temp_folder = Path!am_strdup(v)
  BY DEF Path!get_temp_folder
<1> QED
  BY <1>1, <1>2, Duplicated

LEMMA ResolvedTyped ==
    ASSUME env \in [Path!Variables -> Values \cup {None}], NEW p \in Seq(Char), NEW old \in MaybeStr
    PROVE  Path!Resolved(old, p) \in MaybeStr /\ (Path!Resolved(old, p) = None => old = None)
<1> PICK home, t : home = Path!get_home_folder /\ t = Tail(p)
  OBVIOUS
<1>1. home \in MaybeStr /\ None \notin Seq(Char)
  BY HomeTyped, PathConstants
<1>2. Path!resolve_path(p) = CASE Len(p) <= 2 -> None
                               [] Len(p) > 2 /\ Path!IsPrefix(<<"~", "/">>, p) /\ home # None -> home \o t
                               [] OTHER -> p
  BY DEF Path!resolve_path
<1>3. CASE Len(p) <= 2 \/ Len(p) >= PathMax
  <2>1. Len(p) <= 2 => Path!resolve_path(p) = None
    BY <1>2
  <2> QED
    BY <1>3, <2>1 DEF Path!Resolved
<1>4. CASE Len(p) > 2 /\ ~(Len(p) >= PathMax)
  <2>1. p \in Str /\ t \in Seq(Char)
    BY <1>4 DEF Str
  <2>2. home # None => home \o t \in Str
    BY <1>1, <2>1 DEF Str, MaybeStr
  <2>3. Path!resolve_path(p) \in Str
    BY <1>2, <1>4, <2>1, <2>2
  <2> QED
    BY <1>1, <1>4, <2>3 DEF Path!Resolved, Str, MaybeStr
<1> QED
  BY <1>3, <1>4

LEMMA InHome ==
    /\ <<"~", "/">> \o Statefile \in Seq(Char) /\ Len(<<"~", "/">> \o Statefile) = 2 + Len(Statefile)
    /\ Tail(<<"~", "/">> \o Statefile) = <<"/">> \o Statefile
<1>1. "~" \in Char /\ "/" \in Char
  BY PathAssumption DEF Path!PathsAssumption
<1>2. Statefile \in Seq(Char)
  BY PathConstants DEF Str
<1> QED
  BY ONLY <1>1, <1>2, TailOfTwo

\* The name is cut off where the buffer ends.
NamedAs(u, buf) ==
    LET whole == Path!Printed(download_folder) \o <<"/">> \o Path!LastPiece(u, buf)
    IN  path = IF Len(whole) > PathMax - 2 THEN SubSeq(whole, 1, PathMax - 2) ELSE whole

PathInv ==
    /\ path_pc \in {"start", "ready", "named", "crashed"} /\ env \in [Path!Variables -> Values \cup {None}]
    /\ download_folder \in MaybeStr /\ statefile \in MaybeStr
    /\ configured \in [download_folder : Seq(Char) \cup {None}, statefile : Seq(Char) \cup {None}]
    /\ path_pc = "start" => configured.statefile = None
    /\ path_pc # "named" => url = <<>> /\ path = <<>>
    /\ path_pc = "named" => url \in Urls /\ \E buf \in Garbage : NamedAs(url, buf)
    /\ Path!SameStatefile

LEMMA PathInitInv == Path!Init => PathInv
<1> SUFFICES ASSUME Path!Init PROVE PathInv
  OBVIOUS
<1>1. configured.statefile = None /\ None \notin Seq(Char) /\ <<"~", "/">> \o Statefile \in Seq(Char)
  <2>1. <<"~", "/">> \o Statefile \in Seq(Char)
    BY InHome
  <2> QED
    BY <2>1, PathConstants DEF Path!Init
<1>2. Path!SameStatefile
  BY <1>1 DEF Path!SameStatefile
<1> QED
  BY <1>2 DEF Path!Init, PathInv, MaybeStr

\* The state file of the line that names the default is the default.
LEMMA SameFile ==
    ASSUME env \in [Path!Variables -> Values \cup {None}], NEW old
    PROVE  LET p == <<"~", "/">> \o Statefile
           IN  Path!Resolved(old, p) = IF Path!get_home_folder = None THEN p
                                       ELSE Path!get_home_folder \o <<"/">> \o Statefile
<1> PICK home, p, t : home = Path!get_home_folder /\ p = <<"~", "/">> \o Statefile /\ t = Tail(p)
  OBVIOUS
<1>1. home \in MaybeStr /\ None \notin Seq(Char) /\ Statefile \in Seq(Char) /\ Statefile # <<>>
  BY HomeTyped, PathConstants DEF Str
<1>2. p \in Seq(Char) /\ Len(p) > 2 /\ t = <<"/">> \o Statefile /\ ~(Len(p) >= PathMax)
  <2>1. p \in Seq(Char) /\ Len(p) = 2 + Len(Statefile) /\ t = <<"/">> \o Statefile
    BY InHome
  <2>2. Len(Statefile) > 0 /\ Len(Statefile) + 2 < PathMax /\ PathMax \in Nat
    BY <1>1, PathConstants, PathAssumption DEF Path!PathsAssumption
  <2> QED
    BY <2>1, <2>2
<1>3. Path!IsPrefix(<<"~", "/">>, p)
  <2>1. SubSeq(<<"~", "/">>, 1, 2) = SubSeq(p, 1, 2) /\ Len(<<"~", "/">>) = 2 /\ 2 <= Len(p)
    BY <1>1
  <2> QED
    BY <2>1 DEF Path!IsPrefix
<1>4. Path!resolve_path(p) = IF home # None THEN home \o t ELSE p
  BY <1>2, <1>3 DEF Path!resolve_path
<1>5. home # None => home \o t \in Seq(Char) /\ home \o t = home \o <<"/">> \o Statefile
  <2> SUFFICES ASSUME home # None PROVE home \o t \in Seq(Char) /\ home \o t = home \o <<"/">> \o Statefile
    OBVIOUS
  <2>1. home \in Seq(Char) /\ Statefile \in Seq(Char) /\ <<"/">> \in Seq(Char)
    <3>1. "/" \in Char
      BY PathAssumption DEF Path!PathsAssumption
    <3> QED
      BY <1>1, <3>1 DEF MaybeStr, Str
  <2>2. t = <<"/">> \o Statefile
    BY <1>2
  <2>3. home \o (<<"/">> \o Statefile) = home \o <<"/">> \o Statefile
    BY ONLY <2>1
  <2>4. home \o (<<"/">> \o Statefile) \in Seq(Char)
    BY ONLY <2>1
  <2> QED
    BY ONLY <2>2, <2>3, <2>4
<1>6. Path!resolve_path(p) # None
  BY <1>1, <1>2, <1>4, <1>5
<1> QED
  BY <1>2, <1>4, <1>5, <1>6 DEF Path!Resolved

LEMMA PathStepInv == PathInv /\ [Path!Next]_(Path!vars) => PathInv'
<1> SUFFICES ASSUME PathInv, [Path!Next]_(Path!vars) PROVE PathInv'
  OBVIOUS
<1>0. /\ env \in [Path!Variables -> Values \cup {None}] /\ None \notin Seq(Char)
      /\ download_folder \in MaybeStr /\ statefile \in MaybeStr
      /\ configured \in [download_folder : Seq(Char) \cup {None}, statefile : Seq(Char) \cup {None}]
  BY PathConstants DEF PathInv
<1>1. CASE Path!session_init
  <2>1. /\ path_pc = "start" /\ path_pc' = "ready" /\ UNCHANGED <<env, configured, url, path>>
        /\ download_folder' = Path!get_temp_folder
        /\ statefile' = Path!Printed(Path!get_home_folder) \o <<"/">> \o Statefile
    BY <1>1 DEF Path!session_init, Path!HomeStatefile
  <2>2. statefile' \in MaybeStr
    <3> PICK h : h = Path!Printed(Path!get_home_folder)
      OBVIOUS
    <3>1. "(null)" \in Char /\ "/" \in Char
      BY PathAssumption DEF Path!PathsAssumption
    <3>2. h \in Seq(Char)
      BY <1>0, <3>1, HomeTyped DEF Path!Printed, MaybeStr, Str
    <3>3. Statefile \in Seq(Char) /\ <<"/">> \in Seq(Char)
      BY <3>1, PathConstants DEF Str
    <3>4. h \o <<"/">> \o Statefile \in Seq(Char) /\ Len(h \o <<"/">> \o Statefile) > 0
      BY ONLY <3>2, <3>3
    <3> QED
      BY <2>1, <3>4 DEF MaybeStr, Str
  <2>3. configured.statefile = None /\ <<"~", "/">> \o Statefile \in Seq(Char)
    BY <2>1, InHome DEF PathInv
  <2>4. Path!SameStatefile'
    BY <1>0, <2>1, <2>3 DEF Path!SameStatefile
  <2> QED
    BY <1>0, <2>1, <2>2, <2>4, TempTyped DEF PathInv
<1>2. ASSUME NEW p \in Settings, Path!SetFolder(p) PROVE PathInv'
  <2>1. /\ path_pc = "ready" /\ UNCHANGED <<env, path_pc, statefile, url, path>>
        /\ download_folder' = Path!Resolved(download_folder, p)
        /\ configured' = [configured EXCEPT !.download_folder = p]
    BY <1>2 DEF Path!SetFolder
  <2>2. p \in Seq(Char)
    BY PathConstants
  <2>3. download_folder' \in MaybeStr
    BY <1>0, <2>1, <2>2, ResolvedTyped
  <2>4. /\ configured'.statefile = configured.statefile
        /\ configured' \in [download_folder : Seq(Char) \cup {None}, statefile : Seq(Char) \cup {None}]
    BY <1>0, <2>1, <2>2
  <2>5. Path!get_home_folder' = Path!get_home_folder
    BY <2>1 DEF Path!get_home_folder
  <2>6. Path!SameStatefile'
    BY <2>1, <2>4, <2>5 DEF PathInv, Path!SameStatefile
  <2> QED
    BY <1>0, <2>1, <2>3, <2>4, <2>6 DEF PathInv
<1>3. ASSUME NEW p \in Settings, Path!SetStatefile(p) PROVE PathInv'
  <2>1. /\ path_pc = "ready" /\ UNCHANGED <<env, path_pc, download_folder, url, path>>
        /\ statefile' = Path!Resolved(statefile, p)
        /\ configured' = [configured EXCEPT !.statefile = p]
    BY <1>3 DEF Path!SetStatefile
  <2>2. p \in Seq(Char)
    BY PathConstants
  <2>3. statefile' \in MaybeStr
    BY <1>0, <2>1, <2>2, ResolvedTyped
  <2>4. /\ configured'.statefile = p
        /\ configured' \in [download_folder : Seq(Char) \cup {None}, statefile : Seq(Char) \cup {None}]
    BY <1>0, <2>1, <2>2
  <2>5. Path!get_home_folder' = Path!get_home_folder
    BY <2>1 DEF Path!get_home_folder
  <2>6. Path!SameStatefile'
    <3> SUFFICES ASSUME p = <<"~", "/">> \o Statefile
                 PROVE  statefile' = IF Path!get_home_folder = None THEN p
                                     ELSE Path!get_home_folder \o <<"/">> \o Statefile
      BY <2>4, <2>5 DEF Path!SameStatefile
    <3> QED
      BY <1>0, <2>1, SameFile
  <2> QED
    BY <1>0, <2>1, <2>3, <2>4, <2>6 DEF PathInv
<1>4. ASSUME NEW u \in Urls, Path!get_filename(u) PROVE PathInv'
  <2>1. /\ path_pc' = "named" /\ url' = u /\ UNCHANGED <<env, download_folder, statefile, configured>>
    BY <1>4 DEF Path!get_filename, Path!session
  <2>2. (\E buf \in Garbage : NamedAs(url, buf))'
    BY <1>4, <2>1 DEF Path!get_filename, NamedAs
  <2>3. Path!get_home_folder' = Path!get_home_folder
    BY <2>1 DEF Path!get_home_folder
  <2>4. Path!SameStatefile'
    BY <2>1, <2>3 DEF PathInv, Path!SameStatefile
  <2> QED
    BY <1>0, <2>1, <2>2, <2>4 DEF PathInv
<1>5. CASE Path!Forget
  <2>1. /\ path_pc' = "ready" /\ url' = <<>> /\ path' = <<>>
        /\ UNCHANGED <<env, download_folder, statefile, configured>>
    BY <1>5 DEF Path!Forget, Path!session
  <2>2. Path!get_home_folder' = Path!get_home_folder
    BY <2>1 DEF Path!get_home_folder
  <2>3. Path!SameStatefile'
    BY <2>1, <2>2 DEF PathInv, Path!SameStatefile
  <2> QED
    BY <1>0, <2>1, <2>3 DEF PathInv
<1>6. CASE Path!Overrun
  <2>1. /\ path_pc' = "crashed" /\ path_pc # "named"
        /\ UNCHANGED <<url, path, env, download_folder, statefile, configured>>
    BY <1>6 DEF Path!Overrun, Path!session
  <2>2. Path!get_home_folder' = Path!get_home_folder
    BY <2>1 DEF Path!get_home_folder
  <2>3. Path!SameStatefile'
    BY <2>1, <2>2 DEF PathInv, Path!SameStatefile
  <2> QED
    BY <1>0, <2>1, <2>3 DEF PathInv
<1>7. CASE Path!Restart
  <2>1. /\ path_pc' = "start" /\ UNCHANGED <<url, path, env>> /\ path_pc # "named"
        /\ download_folder' = None /\ statefile' = None
        /\ configured' = [download_folder |-> None, statefile |-> None]
    BY <1>7 DEF Path!Restart
  <2>2. configured'.statefile = None /\ <<"~", "/">> \o Statefile \in Seq(Char)
    BY <2>1, InHome
  <2>3. Path!SameStatefile'
    BY <1>0, <2>2 DEF Path!SameStatefile
  <2> QED
    BY <1>0, <2>1, <2>3 DEF PathInv, MaybeStr
<1>8. CASE UNCHANGED Path!vars
  <2>1. UNCHANGED <<path_pc, url, path, env, download_folder, statefile, configured>>
    BY <1>8 DEF Path!vars, Path!session
  <2>2. Path!get_home_folder' = Path!get_home_folder
    BY <2>1 DEF Path!get_home_folder
  <2>3. Path!SameStatefile'
    BY <2>1, <2>2 DEF PathInv, Path!SameStatefile
  <2>4. (\E buf \in Garbage : NamedAs(url, buf))' <=> \E buf \in Garbage : NamedAs(url, buf)
    BY <2>1 DEF NamedAs
  <2> QED
    BY <1>0, <2>1, <2>3, <2>4 DEF PathInv
<1> QED
  BY <1>1, <1>2, <1>3, <1>4, <1>5, <1>6, <1>7, <1>8 DEF Path!Next

\* A piece that ends last also starts last.
LEMMA PieceIs ==
    ASSUME NEW u \in Seq(Char), NEW buf, Path!Pieces(u) # {}
    PROVE  \E p \in Path!Pieces(u) : /\ \A q \in Path!Pieces(u) : q[1] <= p[1]
                                     /\ Path!LastPiece(u, buf) = SubSeq(u, p[1], p[2])
<1> PICK P : P = Path!Pieces(u)
  OBVIOUS
<1>1. P \subseteq (1 .. Len(u)) \X (1 .. Len(u))
  BY DEF Path!Pieces
<1>2. PICK T : T = {p[1] : p \in P}
  OBVIOUS
<1>3. T # {} /\ T \subseteq 0 .. Len(u) /\ Len(u) \in Nat
  BY <1>1, <1>2
<1>4. PICK m \in T : \A k \in T : m >= k
  BY <1>3, GreatestNumber
<1>5. \E p \in P : \A q \in P : q[1] <= p[1]
  <2>1. PICK p \in P : p[1] = m
    BY <1>2, <1>4
  <2>2. \A q \in P : q[1] \in T
    BY <1>2
  <2>3. \A q \in P : q[1] <= p[1]
    BY <1>4, <2>1, <2>2, <1>1, <1>3
  <2> QED
    BY <2>3
<1>6. PICK p : p = CHOOSE x \in P : \A y \in P : y[1] <= x[1]
  OBVIOUS
<1>7. p \in P /\ \A q \in P : q[1] <= p[1]
  BY <1>5, <1>6
<1>8. Path!LastPiece(u, buf) = SubSeq(u, p[1], p[2])
  BY <1>6 DEF Path!LastPiece
<1> QED
  BY <1>7, <1>8

LEMMA PieceTyped ==
    ASSUME NEW u \in Seq(Char), NEW buf \in Seq(Char)
    PROVE  Path!LastPiece(u, buf) \in Seq(Char)
<1>1. CASE Path!Pieces(u) = {}
  BY <1>1 DEF Path!LastPiece
<1>2. CASE Path!Pieces(u) # {}
  <2>1. PICK p \in Path!Pieces(u) : Path!LastPiece(u, buf) = SubSeq(u, p[1], p[2])
    BY <1>2, PieceIs
  <2>2. p[1] \in 1 .. Len(u) /\ p[2] \in 1 .. Len(u)
    BY DEF Path!Pieces
  <2> QED
    BY <2>1, <2>2
<1> QED
  BY <1>1, <1>2

\* The path never gets longer than its buffer.
LEMMA PathTypes == PathInv => Path!TypeOK
<1> SUFFICES ASSUME PathInv PROVE Path!TypeOK
  OBVIOUS
<1>1. download_folder # <<>> /\ statefile # <<>>
  BY PathConstants DEF PathInv, MaybeStr, Str
<1>2. PathMax \in Nat /\ PathMax >= 2
  BY PathConstants
<1>3. Len(path) <= PathMax
  <2>1. CASE path_pc = "named"
    <3>1. PICK buf \in Garbage : NamedAs(url, buf)
      BY <2>1 DEF PathInv
    <3> PICK folder, piece : folder = Path!Printed(download_folder) /\ piece = Path!LastPiece(url, buf)
      OBVIOUS
    <3>2. path = IF Len(folder \o <<"/">> \o piece) > PathMax - 2
                 THEN SubSeq(folder \o <<"/">> \o piece, 1, PathMax - 2) ELSE folder \o <<"/">> \o piece
      BY <3>1 DEF NamedAs
    <3>3. folder \in Seq(Char) /\ "/" \in Char
      BY PathAssumption DEF PathInv, Path!Printed, MaybeStr, Str, Path!PathsAssumption
    <3>4. piece \in Seq(Char)
      BY <2>1, PathConstants, PieceTyped DEF PathInv
    <3> QED
      BY <1>2, <3>2, <3>3, <3>4
  <2>2. CASE path_pc # "named"
    BY <1>2, <2>2 DEF PathInv
  <2> QED
    BY <2>1, <2>2
<1> QED
  BY <1>1, <1>3 DEF PathInv, Path!TypeOK

\* The elements from a to b are what strtok() calls a piece.
Between(u, a, b) ==
    /\ a <= b /\ \A j \in a .. b : u[j] # "/"
    /\ a = 1 \/ u[a - 1] = "/"
    /\ b = Len(u) \/ u[b + 1] = "/"

LEMMA NotAmong ==
    ASSUME NEW S, NEW u \in Seq(S), NEW a \in 1 .. Len(u), NEW b \in a .. Len(u), NEW c
    PROVE  c \notin Path!ToSet(SubSeq(u, a, b)) <=> \A j \in a .. b : u[j] # c
<1> PICK t, n : t = SubSeq(u, a, b) /\ n = b - a + 1
  OBVIOUS
<1>1. n \in Nat /\ t \in Seq(S) /\ Len(t) = n /\ \A k \in 1 .. n : t[k] = u[a + k - 1]
  OBVIOUS
<1>2. Path!ToSet(t) = {t[k] : k \in 1 .. n}
  <2>1. DOMAIN t = 1 .. n
    BY <1>1
  <2> QED
    BY <2>1, Zenon DEF Path!ToSet
<1>3. c \notin Path!ToSet(t) <=> \A k \in 1 .. n : t[k] # c
  BY <1>2
<1>4. \A k \in 1 .. n : a + k - 1 \in a .. b
  OBVIOUS
<1>5. \A j \in a .. b : j - a + 1 \in 1 .. n /\ a + (j - a + 1) - 1 = j
  OBVIOUS
<1>6. (\A k \in 1 .. n : t[k] # c) <=> \A j \in a .. b : u[j] # c
  <2>1. ASSUME \A k \in 1 .. n : t[k] # c, NEW j \in a .. b PROVE u[j] # c
    <3>1. t[j - a + 1] = u[j] /\ j - a + 1 \in 1 .. n
      BY <1>1, <1>5
    <3> QED
      BY <2>1, <3>1
  <2>2. ASSUME \A j \in a .. b : u[j] # c, NEW k \in 1 .. n PROVE t[k] # c
    BY <1>1, <1>4, <2>2
  <2> QED
    BY <2>1, <2>2
<1> QED
  BY <1>3, <1>6

LEMMA BetweenSlashes ==
    ASSUME NEW u \in Seq(Char), NEW a \in 1 .. Len(u), NEW b \in 1 .. Len(u)
    PROVE  <<a, b>> \in Path!Pieces(u) <=> Between(u, a, b)
<1>1. <<a, b>> \in Path!Pieces(u) <=> /\ a <= b /\ "/" \notin Path!ToSet(SubSeq(u, a, b))
                                      /\ a = 1 \/ u[a - 1] = "/"
                                      /\ b = Len(u) \/ u[b + 1] = "/"
  BY DEF Path!Pieces
<1>2. CASE a <= b
  <2>1. "/" \notin Path!ToSet(SubSeq(u, a, b)) <=> \A j \in a .. b : u[j] # "/"
    BY <1>2, NotAmong
  <2> QED
    BY <1>1, <2>1, Zenon DEF Between
<1>3. CASE ~(a <= b)
  BY <1>1, <1>3 DEF Between
<1> QED
  BY <1>2, <1>3

\* The last piece of a URL that is not all slashes: from its last slash to the end of its name.
LEMMA LastOf ==
    ASSUME NEW u \in Seq(Char), NEW buf, NEW i \in 1 .. Len(u), u[i] # "/"
    PROVE  \E f, last \in 1 .. Len(u) :
             /\ f <= last /\ u[last] # "/" /\ \A j \in last + 1 .. Len(u) : u[j] = "/"
             /\ \A j \in f .. last : u[j] # "/"
             /\ f = 1 \/ u[f - 1] = "/"
             /\ Path!LastPiece(u, buf) = SubSeq(u, f, last)
<1> PICK n \in Nat : n = Len(u)
  OBVIOUS
<1>1. PICK last \in 1 .. n : u[last] # "/" /\ \A j \in last + 1 .. n : u[j] = "/"
  <2> DEFINE T == {j \in 1 .. n : u[j] # "/"}
  <2>1. T \in SUBSET (0 .. n) /\ i \in T
    OBVIOUS
  <2>2. PICK m \in T : \A k \in T : m >= k
    BY <2>1, GreatestNumber
  <2>3. m \in 1 .. n /\ u[m] # "/" /\ \A j \in m + 1 .. n : u[j] = "/"
    BY <2>2
  <2> QED
    BY <2>3
<1>2. PICK f \in 1 .. n : /\ f <= last /\ \A j \in f .. last : u[j] # "/"
                          /\ f = 1 \/ u[f - 1] = "/"
  <2> DEFINE T == {0} \cup {j \in 1 .. last : u[j] = "/"}
  <2>1. T \in SUBSET (0 .. last) /\ 0 \in T /\ last \in Nat
    OBVIOUS
  <2>2. PICK m \in T : \A k \in T : m >= k
    BY <2>1, GreatestNumber
  <2>3. m \in 0 .. last /\ m # last
    BY <1>1, <2>1, <2>2
  <2>4. \A j \in m + 1 .. last : u[j] # "/"
    BY <2>2, <2>3
  <2>5. m = 0 \/ u[m] = "/"
    BY <2>2
  <2>6. m + 1 \in 1 .. n /\ m + 1 <= last /\ (m + 1) - 1 = m
    BY <2>3
  <2> HIDE DEF T
  <2> QED
    BY <2>4, <2>5, <2>6
<1>3. \A a, b \in 1 .. n : <<a, b>> \in Path!Pieces(u) <=> Between(u, a, b)
  BY BetweenSlashes
<1>4. \A p \in Path!Pieces(u) : p[1] \in 1 .. n /\ p[2] \in 1 .. n /\ p = <<p[1], p[2]>>
  BY DEF Path!Pieces
<1>5. <<f, last>> \in Path!Pieces(u)
  <2>1. last = n \/ u[last + 1] = "/"
    <3>1. last # n => last + 1 \in last + 1 .. n
      OBVIOUS
    <3> QED
      BY <1>1, <3>1
  <2>2. Between(u, f, last)
    BY <1>2, <2>1 DEF Between
  <2> QED
    BY <1>3, <2>2
<1>6. PICK p \in Path!Pieces(u) : /\ \A q \in Path!Pieces(u) : q[1] <= p[1]
                                 /\ Path!LastPiece(u, buf) = SubSeq(u, p[1], p[2])
  BY <1>5, PieceIs
<1>7. PICK a, b \in 1 .. n : p = <<a, b>> /\ f <= a
  BY <1>4, <1>5, <1>6
<1>8. /\ a <= b /\ \A j \in a .. b : u[j] # "/"
      /\ a = 1 \/ u[a - 1] = "/"
      /\ b = n \/ u[b + 1] = "/"
  BY <1>3, <1>7 DEF Between
<1>9. b <= last
  <2>1. b \in a .. b
    BY <1>8
  <2>2. u[b] # "/"
    BY <1>8, <2>1
  <2>3. b > last => b \in last + 1 .. n
    OBVIOUS
  <2> QED
    BY <1>1, <2>2, <2>3
<1>10. a = f
  <2> SUFFICES ASSUME a # f PROVE FALSE
    OBVIOUS
  <2>1. a - 1 \in f .. last /\ a # 1
    BY <1>7, <1>8, <1>9
  <2>2. u[a - 1] # "/"
    BY ONLY <1>2, <2>1
  <2> QED
    BY ONLY <1>8, <2>1, <2>2
<1>11. b = last
  <2> SUFFICES ASSUME b # last PROVE FALSE
    OBVIOUS
  <2>1. b + 1 \in f .. last /\ b # n
    BY <1>7, <1>8, <1>9, <1>10
  <2>2. u[b + 1] # "/"
    BY ONLY <1>2, <2>1
  <2> QED
    BY ONLY <1>8, <2>1, <2>2
<1>12. Path!LastPiece(u, buf) = SubSeq(u, f, last)
  BY <1>6, <1>7, <1>10, <1>11
<1> QED
  BY <1>1, <1>2, <1>12, Zenon

\* t is a, then b.
Parts(t, a, b) ==
    /\ Len(t) = Len(a) + Len(b)
    /\ SubSeq(t, 1, Len(a)) = a /\ SubSeq(t, Len(a) + 1, Len(t)) = b

LEMMA TwoParts ==
    ASSUME NEW S, NEW a \in Seq(S), NEW b \in Seq(S)
    PROVE  Parts(a \o b, a, b)
<1> PICK t, m, n : t = a \o b /\ m = Len(a) /\ n = Len(b)
  OBVIOUS
<1>1. /\ t \in Seq(S) /\ Len(t) = m + n /\ m \in Nat /\ n \in Nat
      /\ \A i \in 1 .. m : t[i] = a[i]
      /\ \A i \in 1 .. n : t[m + i] = b[i]
  OBVIOUS
<1>2. SubSeq(t, 1, m) = a
  <2> PICK l : l = SubSeq(t, 1, m)
    OBVIOUS
  <2>1. l \in Seq(S) /\ Len(l) = m /\ \A i \in 1 .. m : l[i] = t[i]
    BY <1>1, BeginningIs
  <2> QED
    BY <1>1, <2>1
<1>3. SubSeq(t, m + 1, m + n) = b
  <2> PICK r : r = SubSeq(t, m + 1, m + n)
    OBVIOUS
  <2>1. r \in Seq(S) /\ Len(r) = m + n - (m + 1) + 1
        /\ \A i \in 1 .. m + n - (m + 1) + 1 : r[i] = t[m + 1 + i - 1]
    BY <1>1
  <2>2. m + n - (m + 1) + 1 = n /\ \A i \in Nat : m + 1 + i - 1 = m + i
    BY <1>1
  <2>3. \A i \in 1 .. n : r[i] = b[i]
    BY <1>1, <2>1, <2>2
  <2>4. r \in Seq(S) /\ Len(r) = n
    BY <2>1, <2>2
  <2> QED
    BY <1>1, <2>3, <2>4
<1> QED
  BY <1>1, <1>2, <1>3 DEF Parts

LEMMA EndOfBeginning ==
    ASSUME NEW S, NEW u \in Seq(S), NEW l \in 1 .. Len(u), NEW f \in 1 .. l
    PROVE  Path!IsSuffix(SubSeq(u, f, l), SubSeq(u, 1, l))
<1> PICK s, t, n : s = SubSeq(u, f, l) /\ t = SubSeq(u, 1, l) /\ n = l - f + 1
  OBVIOUS
<1> PICK rs, rt : rs = Reverse(s) /\ rt = Reverse(t)
  OBVIOUS
<1>1. /\ s \in Seq(S) /\ Len(s) = n /\ n \in 1 .. l /\ \A i \in 1 .. n : s[i] = u[f + i - 1]
  OBVIOUS
<1>2. t \in Seq(S) /\ Len(t) = l /\ \A i \in 1 .. l : t[i] = u[i]
  OBVIOUS
<1>3. rs \in Seq(S) /\ Len(rs) = n /\ \A i \in 1 .. n : rs[i] = s[n - i + 1]
  <2>1. /\ Reverse(s) \in Seq(S) /\ Len(Reverse(s)) = Len(s)
        /\ \A i \in 1 .. Len(s) : Reverse(s)[i] = s[Len(s) - i + 1]
    BY ONLY <1>1, ReverseTyped
  <2> QED
    BY <1>1, <2>1
<1>4. rt \in Seq(S) /\ Len(rt) = l /\ \A i \in 1 .. l : rt[i] = t[l - i + 1]
  <2>1. /\ Reverse(t) \in Seq(S) /\ Len(Reverse(t)) = Len(t)
        /\ \A i \in 1 .. Len(t) : Reverse(t)[i] = t[Len(t) - i + 1]
    BY ONLY <1>2, ReverseTyped
  <2> QED
    BY <1>2, <2>1
<1>5. \A i \in 1 .. n : rs[i] = rt[i]
  <2> SUFFICES ASSUME NEW i \in 1 .. n PROVE rs[i] = rt[i]
    OBVIOUS
  <2>1. n - i + 1 \in 1 .. n /\ l - i + 1 \in 1 .. l /\ f + (n - i + 1) - 1 = l - i + 1 /\ i \in 1 .. l
    BY <1>1
  <2>2. rs[i] = u[l - i + 1]
    BY <1>1, <1>3, <2>1
  <2> QED
    BY <1>2, <1>4, <2>1, <2>2
<1>6. SubSeq(rs, 1, n) = SubSeq(rt, 1, n)
  <2> PICK a, b : a = SubSeq(rs, 1, n) /\ b = SubSeq(rt, 1, n)
    OBVIOUS
  <2>1. a \in Seq(S) /\ Len(a) = n /\ \A i \in 1 .. n : a[i] = rs[i]
    BY <1>1, <1>3, BeginningIs
  <2>2. b \in Seq(S) /\ Len(b) = n /\ \A i \in 1 .. n : b[i] = rt[i]
    BY <1>1, <1>4, BeginningIs
  <2> QED
    BY <1>5, <2>1, <2>2
<1>7. Path!Reverse(s) = rs /\ Path!Reverse(t) = rt
  BY DEF Path!Reverse, Reverse
<1>8. Path!IsPrefix(rs, rt)
  BY <1>1, <1>3, <1>4, <1>6 DEF Path!IsPrefix
<1> QED
  BY <1>7, <1>8 DEF Path!IsSuffix

LEMMA LastIs ==
    ASSUME NEW u \in Seq(Char), NEW last \in 1 .. Len(u), u[last] # "/",
           \A j \in last + 1 .. Len(u) : u[j] = "/"
    PROVE  Path!SelectLastInSeq(u, LAMBDA c : c # "/") = last
<1> PICK I : I = {j \in 1 .. Len(u) : u[j] # "/"}
  OBVIOUS
<1> DEFINE greatest(x) == x \in I /\ \A y \in I : x >= y
<1>1. greatest(last)
  OBVIOUS
<1>2. \A x : greatest(x) => x = last
  BY <1>1
<1>3. I # {}
  BY <1>1
<1>4. Path!SelectLastInSeq(u, LAMBDA c : c # "/") = CHOOSE x \in I : \A y \in I : x >= y
  BY <1>3 DEF Path!SelectLastInSeq, Path!Max
<1>5. greatest(CHOOSE x \in I : \A y \in I : x >= y)
  BY <1>1
<1> QED
  BY <1>2, <1>4, <1>5

\* What get_filename() makes of a URL that is not all slashes.
LEMMA Saved == PathInv => Path!SavedInFolder
<1> SUFFICES ASSUME PathInv, path_pc = "named", Path!ToSet(url) # {"/"}, url # <<>>
             PROVE  LET folder == Append(Path!Printed(download_folder), "/")
                        name == SubSeq(path, Len(folder) + 1, Len(path))
                        last == Path!SelectLastInSeq(url, LAMBDA c : c # "/")
                    IN  \/ Len(path) = PathMax - 2
                        \/ /\ Path!IsPrefix(folder, path)
                           /\ name # <<>> /\ "/" \notin Path!ToSet(name)
                           /\ Path!IsSuffix(name, SubSeq(url, 1, last))
                           /\ last > Len(name) => url[last - Len(name)] = "/"
  BY DEF Path!SavedInFolder
<1>1. url \in Seq(Char) /\ PathMax \in Nat /\ PathMax >= 2 /\ "/" \in Char
  BY PathConstants, PathAssumption DEF PathInv, Path!PathsAssumption
<1>2. PICK i \in 1 .. Len(url) : url[i] # "/"
  <2> SUFFICES ASSUME \A i \in 1 .. Len(url) : url[i] = "/" PROVE FALSE
    OBVIOUS
  <2>1. DOMAIN url = 1 .. Len(url) /\ 1 \in 1 .. Len(url)
    BY <1>1
  <2>2. Path!ToSet(url) = {"/"}
    BY <2>1, Zenon DEF Path!ToSet
  <2> QED
    BY <2>2
<1>3. PICK buf \in Garbage : NamedAs(url, buf)
  BY DEF PathInv
<1>4. PICK f, last \in 1 .. Len(url) :
             /\ f <= last /\ url[last] # "/" /\ \A j \in last + 1 .. Len(url) : url[j] = "/"
             /\ \A j \in f .. last : url[j] # "/"
             /\ f = 1 \/ url[f - 1] = "/"
             /\ Path!LastPiece(url, buf) = SubSeq(url, f, last)
  BY <1>1, <1>2, LastOf
<1> PICK home, folder, piece : /\ home = Path!Printed(download_folder) /\ folder = Append(home, "/")
                               /\ piece = SubSeq(url, f, last)
  OBVIOUS
<1>5. home \in Seq(Char)
  BY PathAssumption DEF PathInv, Path!Printed, MaybeStr, Str, Path!PathsAssumption
<1>6. folder \in Seq(Char) /\ home \o <<"/">> = folder
  BY <1>1, <1>5
<1>7. piece \in Seq(Char) /\ Len(piece) = last - f + 1
  BY <1>1, <1>4
<1>8. home \o <<"/">> \o piece = folder \o piece
  BY <1>6
<1>9. path = IF Len(folder \o piece) > PathMax - 2 THEN SubSeq(folder \o piece, 1, PathMax - 2)
             ELSE folder \o piece
  BY <1>3, <1>4, <1>8 DEF NamedAs
<1>10. Path!SelectLastInSeq(url, LAMBDA c : c # "/") = last
  BY <1>1, <1>4, LastIs
<1>11. CASE Len(folder \o piece) > PathMax - 2
  <2>1. folder \o piece \in Seq(Char)
    BY <1>6, <1>7
  <2>2. Len(path) = PathMax - 2
    BY <1>1, <1>9, <1>11, <2>1
  <2> QED
    BY <2>2
<1>12. CASE ~(Len(folder \o piece) > PathMax - 2)
  <2>1. path = folder \o piece
    BY <1>9, <1>12
  <2>2. /\ Len(path) = Len(folder) + Len(piece) /\ SubSeq(path, 1, Len(folder)) = folder
        /\ SubSeq(path, Len(folder) + 1, Len(path)) = piece
    <3>1. folder \in Seq(Char) /\ piece \in Seq(Char)
      BY <1>6, <1>7
    <3>2. Parts(folder \o piece, folder, piece)
      BY ONLY <3>1, TwoParts
    <3>3. Parts(path, folder, piece)
      BY ONLY <2>1, <3>2, Zenon
    <3> QED
      BY <3>3, Zenon DEF Parts
  <2>3. Path!IsPrefix(folder, path)
    <3>1. SubSeq(folder, 1, Len(folder)) = folder /\ Len(folder) <= Len(path)
      BY <1>6, <1>7, <2>2
    <3> QED
      BY <2>2, <3>1 DEF Path!IsPrefix
  <2>4. piece # <<>> /\ "/" \notin Path!ToSet(piece) /\ Path!IsSuffix(piece, SubSeq(url, 1, last))
    <3>1. piece # <<>>
      <4>1. Len(piece) # 0
        BY <1>4, <1>7
      <4> QED
        BY <4>1
    <3>2. last \in f .. Len(url) /\ f \in 1 .. last
      BY <1>4
    <3>3. "/" \notin Path!ToSet(piece)
      BY <1>1, <1>4, <3>2, NotAmong
    <3>4. Path!IsSuffix(piece, SubSeq(url, 1, last))
      BY <1>1, <3>2, EndOfBeginning
    <3> QED
      BY <3>1, <3>3, <3>4
  <2>5. last > Len(piece) => url[last - Len(piece)] = "/"
    <3>1. last - Len(piece) = f - 1 /\ (last > Len(piece) => f # 1)
      BY <1>4, <1>7
    <3> QED
      BY <1>4, <3>1
  <2> QED
    BY <1>10, <2>2, <2>3, <2>4, <2>5
<1> QED
  BY <1>11, <1>12

-----------------------------------------------------------------------------
(* Notifications.                                                          *)

LEMMA CutIs ==
    ASSUME NEW width \in Nat \ {0}, NEW n \in Nat
    PROVE  Prowl!CutTo(width, n) \in Nat /\ Prowl!CutTo(width, n) = IF n <= width - 1 THEN n ELSE width - 1
<1> DEFINE least(x) == x \in {n, width - 1} /\ \A y \in {n, width - 1} : x <= y
<1>1. \A x : least(x) <=> x = IF n <= width - 1 THEN n ELSE width - 1
  OBVIOUS
<1>2. Prowl!CutTo(width, n) = CHOOSE x \in {n, width - 1} : \A y \in {n, width - 1} : x <= y
  BY DEF Prowl!CutTo, Prowl!Min
<1>3. least(Prowl!CutTo(width, n))
  BY <1>1, <1>2
<1> QED
  BY <1>1, <1>3

LEMMA RoomIs ==
    ASSUME NEW k \in Nat, NEW e \in Nat, NEW d \in Nat
    PROVE  /\ Prowl!MessageRoom(k, e, d) = 80 + k + e + d /\ Prowl!MessageLength(k, e, d) = 63 + k + e + d
           /\ Prowl!MessageRoom(k, e, d) \in Nat /\ Prowl!MessageLength(k, e, d) \in Nat
<1>1. e # None /\ d # None
  BY ProwlAssumption DEF Prowl!NotificationAssumption
<1>2. Prowl!MessageRoom(k, e, d) = 80 + k + e + d
  BY <1>1 DEF Prowl!MessageRoom
<1>3. Prowl!MessageLength(k, e, d) = 63 + k + e + d
  BY <1>1 DEF Prowl!MessageLength, Prowl!Printed
<1> QED
  BY <1>2, <1>3

\* What the sizes are made of.
Sized ==
    /\ prowl_pc # "start" => asked = Prowl!CutTo(UrlSize, 45 + key) - 45
    /\ prowl_pc = "message" => /\ total_size = Prowl!MessageRoom(key, event, desc)
                               /\ data_size = Prowl!MessageLength(key, event, desc)

ProwlInv == Prowl!TypeOK /\ Sized

LEMMA ProwlInit == Prowl!Init => ProwlInv
BY ProwlAssumption DEF Prowl!Init, ProwlInv, Prowl!TypeOK, Sized, Prowl!NotificationAssumption

LEMMA ProwlStepInv == ProwlInv /\ [Prowl!Next]_(Prowl!vars) => ProwlInv'
<1> SUFFICES ASSUME ProwlInv, [Prowl!Next]_(Prowl!vars) PROVE ProwlInv'
  OBVIOUS
<1>0. /\ Keys \subseteq Nat \ {0} /\ DescSize \in Nat \ {0} /\ UrlSize \in Nat /\ UrlSize > 45
      /\ Names \subseteq Nat \cup {None} /\ None \notin Nat
  BY ProwlAssumption DEF Prowl!NotificationAssumption
<1>1. key \in Keys /\ key \in Nat
  BY <1>0 DEF ProwlInv, Prowl!TypeOK
<1>2. CASE Prowl!verifyProwlAPIKey
  <2>1. Prowl!CutTo(UrlSize, 45 + key) - 45 \in Nat
    <3>1. UrlSize \in Nat \ {0} /\ 45 + key \in Nat
      BY <1>0, <1>1
    <3>2. Prowl!CutTo(UrlSize, 45 + key) = IF 45 + key <= UrlSize - 1 THEN 45 + key ELSE UrlSize - 1
      BY <3>1, CutIs
    <3> QED
      BY <1>0, <1>1, <3>2
  <2>2. asked' \in Nat /\ asked' = Prowl!CutTo(UrlSize, 45 + key') - 45
    BY <1>2, <2>1 DEF Prowl!verifyProwlAPIKey
  <2> QED
    BY <1>2, <2>2 DEF ProwlInv, Prowl!verifyProwlAPIKey, Prowl!TypeOK, Sized
<1>3. ASSUME NEW e \in {Prowl!NewTrailer, Prowl!DownloadFailed}, NEW name \in Names,
             Prowl!prowl_sendNotification(e, name)
      PROVE  ProwlInv'
  <2>1. e \in Nat
    BY DEF Prowl!NewTrailer, Prowl!DownloadFailed
  <2>2. Prowl!Printed(name) \in Nat
    BY <1>0 DEF Prowl!Printed
  <2>3. desc' \in Nat
    BY <1>0, <1>3, <2>2, CutIs DEF Prowl!prowl_sendNotification
  <2>4. Prowl!MessageRoom(key, e, desc') \in Nat /\ Prowl!MessageLength(key, e, desc') \in Nat
    <3>0. desc' \in Nat
      BY <2>3
    <3> QED
      BY <1>1, <2>1, <3>0, RoomIs
  <2>5. /\ prowl_pc' \in {"message", "sent"} /\ event' = e /\ key' = key /\ asked' = asked
        /\ total_size' \in Nat /\ data_size' \in Nat /\ prowl_pc = "verified"
        /\ told' \in {-1, told}
    BY <1>3, <2>4 DEF Prowl!prowl_sendNotification, ProwlInv, Prowl!TypeOK
  <2>6. Prowl!TypeOK'
    BY <1>1, <2>1, <2>3, <2>5 DEF Prowl!TypeOK, ProwlInv
  <2>7. Sized'
    BY <1>3, <2>5 DEF Prowl!prowl_sendNotification, ProwlInv, Sized
  <2> QED
    BY <2>6, <2>7 DEF ProwlInv
<1>4. CASE Prowl!Sent
  BY <1>4 DEF Prowl!Sent, ProwlInv, Prowl!TypeOK, Sized
<1>5. CASE Prowl!Forget
  BY <1>5 DEF Prowl!Forget, ProwlInv, Prowl!TypeOK, Sized
<1>6. CASE UNCHANGED Prowl!vars
  BY <1>6 DEF Prowl!vars, ProwlInv, Prowl!TypeOK, Sized
<1> QED
  BY <1>2, <1>3, <1>4, <1>5, <1>6 DEF Prowl!Next

LEMMA MessagesWhole == ProwlInv => Prowl!MessageWhole
<1> SUFFICES ASSUME ProwlInv, prowl_pc = "message"
             PROVE  /\ data_size < total_size /\ data_size = 63 + key + event + desc
                    /\ asked = key \/ asked + 45 = UrlSize - 1
  BY DEF Prowl!MessageWhole
<1>0. Keys \subseteq Nat \ {0} /\ UrlSize \in Nat /\ UrlSize > 45 /\ None \notin Nat
  BY ProwlAssumption DEF Prowl!NotificationAssumption
<1>1. key \in Nat /\ event \in Nat /\ desc \in Nat
  BY <1>0 DEF ProwlInv, Prowl!TypeOK
<1>2. /\ total_size = 80 + key + event + desc /\ data_size = 63 + key + event + desc
      /\ asked = Prowl!CutTo(UrlSize, 45 + key) - 45
  BY <1>1, RoomIs DEF ProwlInv, Sized
<1>3. Prowl!CutTo(UrlSize, 45 + key) = IF 45 + key <= UrlSize - 1 THEN 45 + key ELSE UrlSize - 1
  BY <1>0, <1>1, CutIs
<1> QED
  BY <1>0, <1>1, <1>2, <1>3

-----------------------------------------------------------------------------
(* The composition.                                                        *)

\* Every step of the composition is a step of each helper, or leaves it alone.
LEMMA HelpersStep ==
    ASSUME [HelpersNext]_helpersVars
    PROVE  /\ [Next]_vars /\ [Matching!Next]_(Matching!vars) /\ [List!Next]_(List!vars)
           /\ [Url!Next]_(Url!vars) /\ [Path!Next]_(Path!vars) /\ [Prowl!Next]_(Prowl!vars)
           /\ helper' = helper
<1> USE DEF vars, regexVars, listVars, urlVars, pathVars, prowlVars, Matching!vars,
        Matching!filtering, Matching!asked, List!vars, List!heap, List!locals, Url!vars,
        Path!vars, Path!session, Prowl!vars
<1>1. CASE Base64Step
  BY <1>1 DEF Base64Step
<1>2. CASE RegexStep
  BY <1>2 DEF RegexStep
<1>3. CASE ListStep
  BY <1>3 DEF ListStep
<1>4. CASE UrlStep
  BY <1>4 DEF UrlStep
<1>5. CASE PathStep
  BY <1>5 DEF PathStep
<1>6. CASE ProwlStep
  BY <1>6 DEF ProwlStep
<1>7. CASE UNCHANGED helpersVars
  BY <1>7 DEF helpersVars
<1> QED
  BY <1>1, <1>2, <1>3, <1>4, <1>5, <1>6, <1>7 DEF HelpersNext

\* The variables of the paths and of the notifications rest in a state of no call.
HelpersInv ==
    /\ helper \in {"base64", "regex", "list", "url", "paths", "prowl"}
    /\ BaseInv /\ Coded /\ ListInv /\ UrlInv
    /\ MatchInv /\ Found /\ Matching!GroupReturned
    /\ helper = "paths" => PathInv
    /\ helper = "prowl" => ProwlInv

\* The parts that do not run keep their invariants.
LEMMA HelpersInductive == HelpersSpec => []HelpersInv
<1>1. HelpersInit => HelpersInv
  <2> SUFFICES ASSUME HelpersInit PROVE HelpersInv
    OBVIOUS
  <2>1. Init /\ Matching!Init /\ List!Init /\ Url!Init
    BY DEF HelpersInit
  <2>2. /\ helper \in {"base64", "regex", "list", "url", "paths", "prowl"}
        /\ helper = "paths" => Path!Init
        /\ helper = "prowl" => Prowl!Init
    BY DEF HelpersInit
  <2> QED
    BY <2>1, <2>2, BaseInit, CodedInit, MatchInit, MatchFoundInit, HeapInit, UrlInit, PathInitInv, ProwlInit,
       MatchingAssumption, ListAssumption DEF HelpersInv
<1>2. HelpersInv /\ [HelpersNext]_helpersVars => HelpersInv'
  <2> SUFFICES ASSUME HelpersInv, [HelpersNext]_helpersVars PROVE HelpersInv'
    OBVIOUS
  <2>1. /\ [Next]_vars /\ [Matching!Next]_(Matching!vars) /\ [List!Next]_(List!vars)
        /\ [Url!Next]_(Url!vars) /\ [Path!Next]_(Path!vars) /\ [Prowl!Next]_(Prowl!vars)
        /\ helper' = helper
    BY HelpersStep
  <2>2. BaseInv' /\ Coded' /\ ListInv' /\ UrlInv'
    BY <2>1, BaseStep, CodedStep, HeapStep, UrlStepInv, ListAssumption DEF HelpersInv
  <2>3. MatchInv' /\ Found' /\ Matching!GroupReturned'
    BY <2>1, MatchStep, MatchFoundStep, GroupStep, MatchingAssumption DEF HelpersInv
  <2>4. helper' = "paths" => PathInv'
    BY <2>1, PathStepInv DEF HelpersInv
  <2>5. helper' = "prowl" => ProwlInv'
    BY <2>1, ProwlStepInv DEF HelpersInv
  <2> QED
    BY <2>1, <2>2, <2>3, <2>4, <2>5 DEF HelpersInv
<1> QED
  BY <1>1, <1>2, PTL DEF HelpersSpec

\* TypesOK of every helper: the variables of base64.c, regex.c, list.c, urlcode.c, of the paths of
\* utils.c and of the messages of prowl.c have their types, for texts of every length; no path is
\* longer than its buffer.
THEOREM HelpersTypeCorrect == HelpersSpec => []TypesOK
<1>1. HelpersInv => TypesOK
  <2> SUFFICES ASSUME HelpersInv PROVE TypesOK
    OBVIOUS
  <2>1. TypeOK /\ List!TypeOK /\ Url!TypeOK /\ Matching!TypeOK
    BY DEF HelpersInv, BaseInv, ListInv, UrlInv, MatchInv
  <2>2. helper = "paths" => Path!TypeOK
    BY PathTypes DEF HelpersInv
  <2>3. helper = "prowl" => Prowl!TypeOK
    BY DEF HelpersInv, ProwlInv
  <2>4. helper \in {"base64", "regex", "list", "url", "paths", "prowl"}
    BY DEF HelpersInv
  <2> QED
    BY <2>1, <2>2, <2>3, <2>4, Zenon DEF TypesOK
<1> QED
  BY <1>1, HelpersInductive, PTL

\* TextsRight of texts, addresses, lists of filters, paths and messages of every length: base64.c
\* and urlcode.c write the bits and characters they should and decoding gives the input back,
\* isMatch() returns the first filter that matches and getRegExMatch() the text of the group,
\* a saved file lies in the download folder, the state file is where the settings say, and a
\* notification carries the whole message.
THEOREM HelpersTextsRight == HelpersSpec => []TextsRight
<1>1. HelpersInv => TextsRight
  <2> SUFFICES ASSUME HelpersInv PROVE TextsRight
    OBVIOUS
  <2>1. EncodedRight /\ DecodedRight /\ RoundTrip
    BY EncodedIsRight, DecodedIsRight, RoundTripHolds DEF HelpersInv
  <2>2. Url!RoundTrip /\ Url!RequestClean /\ Url!WritesFit
    BY UrlsRight DEF HelpersInv
  <2>3. Matching!FirstFilterWins /\ Matching!GroupReturned
    BY FirstWins DEF HelpersInv
  <2>4. helper = "paths" => Path!SavedInFolder /\ Path!SameStatefile
    BY Saved DEF HelpersInv, PathInv
  <2>5. helper = "prowl" => Prowl!MessageWhole
    BY MessagesWhole DEF HelpersInv
  <2>6. helper \in {"base64", "regex", "list", "url", "paths", "prowl"}
    BY DEF HelpersInv
  <2> QED
    BY <2>1, <2>2, <2>3, <2>4, <2>5, <2>6, Zenon DEF TextsRight
<1> QED
  BY <1>1, HelpersInductive, PTL

\* NothingLost of lists and matches of every size: on the heap of list.c every node hangs in the
\* list and every element in one node of it, and getRegExMatch() gives back what it allocated.
THEOREM HelpersLoseNothing == HelpersSpec => []NothingLost
<1>1. HelpersInv => NothingLost
  BY OwnsHeap, ListAssumption DEF HelpersInv, MatchInv, ListInv, NothingLost, Held
<1> QED
  BY <1>1, HelpersInductive, PTL

\* WritesFit while any helper runs: base64.c stays in its blocks, for inputs of every length.
THEOREM HelpersWriteInBlock == HelpersSpec => []WritesFit
<1>1. HelpersInv => WritesFit
  BY LengthsFit DEF HelpersInv
<1> QED
  BY <1>1, HelpersInductive, PTL

\* list.c implements ListSpec, for any number of nodes and elements: every loop step takes effect on
\* the sequence at once or is not seen in it, also in the middle of reverseList() and freeList().
THEOREM ListsAreSequences == HelpersSpec => List!IsASequence
<1>1. HelpersInit => List!Promise!Init
  BY HeapInit, ListAssumption DEF HelpersInit
<1>2. HelpersInv /\ [HelpersNext]_helpersVars => [List!Promise!Next]_(List!Items)
  BY HelpersStep, HeapStep, ListAssumption DEF HelpersInv
<1> QED
  BY <1>1, <1>2, HelpersInductive, PTL DEF HelpersSpec, List!IsASequence, List!Promise!Spec
=============================================================================
