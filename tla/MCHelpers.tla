----------------------------- MODULE MCHelpers -----------------------------
(***************************************************************************)
(* Values for the helpers, around the sizes and characters they tell apart. *)
(***************************************************************************)
EXTENDS Helpers

CONSTANTS
    n1, n2, n3, n4,         \* nodes
    e1, e2, e3, e4          \* elements

\* Base64: up to four bytes with all bits clear, set and mixed; up to five characters from both
\* ends and the middle of the alphabet, padding, and one that is not of the alphabet.
MCInputs == BoundedSeq({0, 1, 90, 255}, 4)
MCChar == {alphabet[i] : i \in 1 .. 64} \cup {"=", "-", NUL, "~", "?", "(null)"}
MCTexts == BoundedSeq({"A", "l", "/", "=", "-"}, 5)

\* Regex: up to three groups where two are assumed when PCRE does not say; texts with white space
\* at either end, inside and alone.
MCPatterns == {[valid |-> TRUE, groups |-> n] : n \in 0 .. 3} \cup {[valid |-> FALSE, groups |-> 1]}
MCCaptures == { <<>>, <<" ">>, <<"x">>, <<" ", "x", " ", "x", " ">> }

MCNodes == {n1, n2, n3, n4}
MCElements == {e1, e2, e3, e4}

\* UrlCode: a blank, '%', '+', '4', 'F' and a byte that is not ASCII.
MCStrings == BoundedSeq({32, 37, 43, 52, 70, 255}, 4)

\* Paths: a folder that leaves no room for a name in it, and a setting that is too long by itself.
MCValues == {<<>>, <<"/", "h">>, <<"/", "h", "/", "h", "/", "h">>}
MCTemp == <<"/", "t">>
MCStatefile == <<"s">>
MCSettings == {<<"~">>, <<"~", "/", "s">>, <<"/", "d", "/">>, <<"/", "d", "/", "d", "/", "d", "/", "d">>}
MCUrls == BoundedSeq({"/", "a"}, 3) \cup {<<"a", "/", "b">>}
MCGarbage == {<<>>, <<"?">>}

\* Notification: keys and names around what the URL of the key check and the description hold.
MCKeys == {1, 40, 82, 83}
MCNames == {0, 1, 498, 499, 500, None}
=============================================================================
