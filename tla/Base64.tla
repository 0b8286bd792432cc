------------------------------- MODULE Base64 -------------------------------
(***************************************************************************)
(* base64.c: base64_encode() and base64_decode(), one character of the      *)
(* input per step, and what they write against what they allocated. Bytes    *)
(* are numbers, characters of a text are strings.                          *)
(***************************************************************************)
EXTENDS SequencesExt, Integers

CONSTANTS
    Inputs,     \* the byte sequences that are encoded
    Char,       \* the characters
    Texts       \* the texts that are decoded, besides the encoded ones

Byte == 0 .. 255

alphabet == << "A", "B", "C", "D", "E", "F", "G", "H", "I", "J", "K", "L", "M", "N", "O", "P",
               "Q", "R", "S", "T", "U", "V", "W", "X", "Y", "Z", "a", "b", "c", "d", "e", "f",
               "g", "h", "i", "j", "k", "l", "m", "n", "o", "p", "q", "r", "s", "t", "u", "v",
               "w", "x", "y", "z", "0", "1", "2", "3", "4", "5", "6", "7", "8", "9", "+", "/" >>

NUL == ""

ASSUME Base64Assumption ==
    /\ \A in \in Inputs : in \in Seq(Byte)
    /\ \A text \in Texts : text \in Seq(Char)
    /\ \A i \in 1 .. 64 : alphabet[i] \in Char
    /\ "=" \in Char /\ NUL \in Char

VARIABLES
    pc,         \* idle, encode, encoded, decode, decoded
    input,      \* the argument
    pos,        \* characters of it consumed
    chars,      \* char_3, char_4: those not converted yet
    out,        \* what was written
    size,       \* of the block allocated for it, 0 without one
    original    \* history: the bytes that input encodes, if base64_encode() made it

vars == <<pc, input, pos, chars, out, size, original>>

Init == /\ pc = "idle" /\ input = <<>> /\ pos = 0 /\ chars = <<>> /\ out = <<>> /\ size = 0
        /\ original = <<>>

-----------------------------------------------------------------------------

is_base64(c) == \E i \in 1 .. 64 : alphabet[i] = c

\* The place of a character, -1 in an unsigned char for one that is not in the alphabet.
find(c) == IF is_base64(c) THEN (CHOOSE i \in 1 .. 64 : alphabet[i] = c) - 1 ELSE 255

\* Three bytes as four places in the alphabet, four places as three bytes.
char_4(a, b, c) == << a \div 4, (a % 4) * 16 + b \div 16, (b % 16) * 4 + c \div 64, c % 64 >>

\* Mutant: the masks are forgotten.
char_3Wide(a, b, c, d) == << a * 4 + b \div 16, b * 16 + c \div 4, c * 64 + d >>

char_3(a, b, c, d) == << (a * 4 + (b % 64) \div 16) % 256,
                         ((b % 16) * 16 + (c % 64) \div 4) % 256,
                         ((c % 4) * 64 + d) % 256 >>

-----------------------------------------------------------------------------

\* Mutant: room for the whole groups of three only.
EncodedSizeDown(len) == (len \div 3) * 4 + 1

EncodedSize(len) == ((len + 13) \div 3) * 4

\* NULL and a length of 0 for no input.
base64_encode(in) ==
    /\ pc = "idle"
    /\ pc' = IF in = <<>> THEN "encoded" ELSE "encode"
    /\ input' = in /\ size' = IF in = <<>> THEN 0 ELSE EncodedSize(Len(in))
    /\ UNCHANGED <<pos, chars, out, original>>

EncodeByte ==
    /\ pc = "encode" /\ pos < Len(input)
    /\ LET three == Append(chars, input[pos + 1])
           four == char_4(three[1], three[2], three[3])
       IN  IF Len(three) < 3 THEN chars' = three /\ UNCHANGED out
           ELSE chars' = <<>> /\ out' = out \o [j \in 1 .. 4 |-> alphabet[four[j] + 1]]
    /\ pos' = pos + 1
    /\ UNCHANGED <<pc, input, size, original>>

\* One or two bytes that are left are filled up with zeros, their places with padding.
EncodeRest ==
    /\ pc = "encode" /\ pos = Len(input)
    /\ LET i == Len(chars)
           three == chars \o <<0, 0, 0>>
           four == char_4(three[1], three[2], three[3])
       IN  out' = IF i = 0 THEN out
                  ELSE out \o [j \in 1 .. 4 |-> IF j <= i + 1 THEN alphabet[four[j] + 1] ELSE "="]
    /\ pc' = "encoded" /\ chars' = <<>>
    /\ UNCHANGED <<input, pos, size, original>>

-----------------------------------------------------------------------------

DecodedSize(len) == 3 * (len \div 4) + 2

\* A text of its own, or what base64_encode() returned.
base64_decode(text, bytes) ==
    /\ pc' = "decode" /\ input' = text /\ size' = DecodedSize(Len(text)) /\ original' = bytes
    /\ pos' = 0 /\ chars' = <<>> /\ out' = <<>>

DecodeText == pc = "idle" /\ \E text \in Texts : base64_decode(text, <<>>)
DecodeEncoded == pc = "encoded" /\ out # <<>> /\ base64_decode(out, input)

\* The loop ends at the end, at the padding and at any other character.
MoreToDecode == pos < Len(input) /\ is_base64(input[pos + 1])

DecodeChar ==
    /\ pc = "decode" /\ MoreToDecode
    /\ LET four == Append(chars, input[pos + 1])
       IN  IF Len(four) < 4 THEN chars' = four /\ UNCHANGED out
           ELSE /\ chars' = <<>>
                /\ out' = out \o char_3(find(four[1]), find(four[2]), find(four[3]), find(four[4]))
    /\ pos' = pos + 1
    /\ UNCHANGED <<pc, input, size, original>>

\* Of i characters that are left come i - 1 bytes.
DecodeRest ==
    /\ pc = "decode" /\ ~MoreToDecode
    /\ LET i == Len(chars)
           four == chars \o <<NUL, NUL, NUL, NUL>>
           three == char_3(find(four[1]), find(four[2]), find(four[3]), find(four[4]))
       IN  out' = IF i = 0 THEN out ELSE out \o SubSeq(three, 1, i - 1)
    /\ pc' = "decoded" /\ chars' = <<>>
    /\ UNCHANGED <<input, pos, size, original>>

\* The caller frees the result.
Release ==
    /\ pc \in {"encoded", "decoded"}
    /\ pc' = "idle" /\ input' = <<>> /\ pos' = 0 /\ chars' = <<>> /\ out' = <<>> /\ size' = 0
    /\ original' = <<>>

Next == \/ \E in \in Inputs : base64_encode(in)
        \/ EncodeByte \/ EncodeRest
        \/ DecodeText \/ DecodeEncoded \/ DecodeChar \/ DecodeRest
        \/ Release

Spec == Init /\ [][Next]_vars

-----------------------------------------------------------------------------
(* Properties.                                                             *)

\* The variables have their types: what is encoded are bytes and what comes out is text, and the
\* other way round.
TypeOK ==
    /\ pc \in {"idle", "encode", "encoded", "decode", "decoded"}
    /\ pos \in 0 .. Len(input) /\ size \in Nat
    /\ pc \in {"encode", "encoded"} => input \in Seq(Byte) /\ chars \in Seq(Byte) /\ out \in Seq(Char)
    /\ pc \in {"decode", "decoded"} => /\ input \in Seq(Char) /\ chars \in Seq(Char)
                                       /\ out \in Seq(Byte) /\ original \in Seq(Byte)

\* Bit k, from 0, of a sequence of numbers of w bits, highest bit first, and zeros behind it.
Bit(s, w, k) == IF k \div w < Len(s) THEN (s[k \div w + 1] \div 2^(w - 1 - (k % w))) % 2 ELSE 0

\* The places of the first n characters.
PlacesOf(text, n) == [k \in 1 .. n |-> find(text[k])]

\* base64_encode() writes the input's bits in sixes, zeros behind the last, as characters of the
\* alphabet, and pads the last group of four.
EncodedRight ==
    pc = "encoded" =>
        LET n == (8 * Len(input) + 5) \div 6
        IN  /\ Len(out) = 4 * ((Len(input) + 2) \div 3)
            /\ \A k \in 1 .. Len(out) : IF k <= n THEN is_base64(out[k]) ELSE out[k] = "="
            /\ \A k \in 0 .. 6 * n - 1 : Bit(PlacesOf(out, n), 6, k) = Bit(input, 8, k)

\* base64_decode() takes the characters up to the first that is not in the alphabet, padding
\* included, and writes every byte whose eight bits they hold.
DecodedRight ==
    pc = "decoded" =>
        LET end == SelectInSeq(input, LAMBDA c : ~is_base64(c))
            n == IF end = 0 THEN Len(input) ELSE end - 1
        IN  /\ Len(out) = (6 * n) \div 8
            /\ \A k \in 0 .. 8 * Len(out) - 1 : Bit(out, 8, k) = Bit(PlacesOf(input, n), 6, k)

\* What was encoded is decoded to itself.
RoundTrip == pc = "decoded" /\ original # <<>> => out = original

\* Neither function writes beyond the block it allocated, the terminating NUL included, but for a
\* text without padding that ends three characters into a group.
WritesFit ==
    /\ pc = "encoded" /\ size > 0 => Len(out) + 1 <= size
    /\ pc = "decoded" => Len(out) + 1 <= size \/ (pos = Len(input) /\ pos % 4 = 3)

=============================================================================
