------------------------------ MODULE UrlCode ------------------------------
(***************************************************************************)
(* urlcode.c. A string is the sequence of its bytes, without the NUL; each   *)
(* function is one step, out what it writes and size the block it asked for. *)
(***************************************************************************)
EXTENDS SequencesExt, Integers

CONSTANT Strings    \* what the functions are called with

UrlCodeAssumption == Strings \subseteq Seq(1 .. 255)

VARIABLES
    pc,         \* idle, encoded, escaped, decoded
    str, out, size,
    original    \* history: what str encodes, NoString when url_encode() did not make it

vars == <<pc, str, out, size, original>>

NoString == <<0>>

Init == pc = "idle" /\ str = <<>> /\ out = <<>> /\ size = 0 /\ original = NoString

-----------------------------------------------------------------------------
(* Characters, by their codes.                                             *)

space == 32
percent == 37
plus == 43

isdigit(ch) == ch \in 48 .. 57
isupper(ch) == ch \in 65 .. 90
tolower(ch) == IF isupper(ch) THEN ch + 32 ELSE ch

\* isalnum(), and the characters '-', '.', '_' and '~'.
unreserved(ch) == isdigit(ch) \/ tolower(ch) \in 97 .. 122 \/ ch \in {45, 46, 95, 126}

\* A char keeps eight bits, of whatever the character is.
from_hex(ch) == IF isdigit(ch) THEN ch - 48 ELSE tolower(ch) - 87

to_hex(code) == LET digit == code % 16 IN IF digit < 10 THEN 48 + digit ELSE 87 + digit

\* The bits of two bytes, or-ed.
Ored(a, b) ==
    LET bit(w) == IF (a \div w) % 2 = 1 \/ (b \div w) % 2 = 1 THEN w ELSE 0
    IN  bit(128) + bit(64) + bit(32) + bit(16) + bit(8) + bit(4) + bit(2) + bit(1)

\* The two digits are put together as signed characters are, a byte of it is kept.
Unescape(high, low) == Ored((16 * from_hex(high)) % 256, from_hex(low) % 256)

Escape(ch) == << percent, to_hex(ch \div 16), to_hex(ch) >>

-----------------------------------------------------------------------------

Encoded(ch) == CASE unreserved(ch) -> <<ch>>
                 [] ch = space -> <<plus>>
                 [] OTHER -> Escape(ch)

Escaped(ch) == IF ch = space THEN Escape(ch) ELSE <<ch>>

EncodedUrl(s) == FlattenSeq([i \in 1 .. Len(s) |-> Encoded(s[i])])

EscapedUrl(s) == FlattenSeq([i \in 1 .. Len(s) |-> Escaped(s[i])])

\* What is made of the rest of s from i on. A percent sign without two characters behind it is
\* dropped; the two characters may be anything.
Decoded(s) ==
    LET from[i \in 1 .. Len(s) + 1] ==
            CASE i > Len(s) -> <<>>
              [] i <= Len(s) /\ s[i] = percent ->
                    IF i + 2 > Len(s) THEN from[i + 1]
                    ELSE << Unescape(s[i + 1], s[i + 2]) >> \o from[i + 3]
              [] OTHER -> << IF s[i] = plus THEN space ELSE s[i] >> \o from[i + 1]
    IN  from[1]

\* Room for three characters in place of every one.
Room(len) == 3 * len + 1

url_encode(s) ==
    /\ pc = "idle" /\ pc' = "encoded"
    /\ str' = s /\ out' = EncodedUrl(s) /\ size' = Room(Len(s))
    /\ UNCHANGED original

\* Of the URL of a download, before it goes to libcurl.
url_encode_whitespace(s) ==
    /\ pc = "idle" /\ pc' = "escaped"
    /\ str' = s /\ out' = EscapedUrl(s) /\ size' = Room(Len(s))
    /\ UNCHANGED original

\* Any string, or what url_encode() returned.
url_decode(s) ==
    /\ \/ pc = "idle" /\ UNCHANGED original
       \/ pc = "encoded" /\ s = out /\ original' = str
    /\ pc' = "decoded"
    /\ str' = s /\ out' = Decoded(s) /\ size' = Len(s) + 1

\* The caller frees the result.
Release == /\ pc # "idle" /\ pc' = "idle"
           /\ str' = <<>> /\ out' = <<>> /\ size' = 0 /\ original' = NoString

Next == \/ \E s \in Strings : url_encode(s) \/ url_encode_whitespace(s) \/ url_decode(s)
        \/ url_decode(out)
        \/ Release

Spec == Init /\ [][Next]_vars

-----------------------------------------------------------------------------
(* Properties.                                                             *)

\* The variables have their types: no function writes a NUL or more than a byte.
TypeOK == /\ pc \in {"idle", "encoded", "escaped", "decoded"}
          /\ str \in Seq(1 .. 255) /\ out \in Seq(0 .. 255) /\ size \in Nat

\* What url_encode() made comes back from url_decode() as it was.
RoundTrip == pc = "decoded" /\ original # NoString => out = original

\* A request line never holds a blank, escaping what is escaped changes nothing, and a server
\* that decodes it gets the URL of the feed, if that had neither a plus nor a percent sign.
RequestClean ==
    pc = "escaped" => /\ space \notin ToSet(out) /\ EscapedUrl(out) = out
                      /\ {plus, percent} \cap ToSet(str) = {} => Decoded(out) = str

\* No function writes beyond its block, the NUL included.
WritesFit == pc # "idle" => Len(out) + 1 <= size

=============================================================================
