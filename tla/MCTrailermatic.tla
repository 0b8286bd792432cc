--------------------------- MODULE MCTrailermatic ---------------------------
(***************************************************************************)
(* Small instances of Trailermatic for TLC: the URLs u1 and u3 have the     *)
(* same basename, noise is listed but matched by no filter.                *)
(***************************************************************************)
EXTENDS Trailermatic

CONSTANTS u1, u2, u3, noise

MCUrls == {u1, u2, u3, noise}
MCMatch == {u1, u2, u3}
MCPathOf == [u \in MCUrls |-> CASE u = u2 -> "b" [] u = noise -> "n" [] OTHER -> "a"]

Doc(list, items) == [urls |-> list, count |-> items]

\* One feed whose document changes between polls; an unparsable one is empty.
OneFeed == << { Doc(<<>>, 0), Doc(<<u1, u2>>, 1), Doc(<<u2, noise, u3>>, 1) } >>

\* Two feeds that list a URL in common, on two paths.
PlainUrls == {u1, u2}
TwoFeeds == << { Doc(<<u1, u2>>, 1) }, { Doc(<<u2>>, 1) } >>
PlainPathOf == [u \in PlainUrls |-> IF u = u2 THEN "b" ELSE "a"]

OneEach == {FALSE}
Both == BOOLEAN
=============================================================================
