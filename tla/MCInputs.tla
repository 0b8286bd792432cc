------------------------------ MODULE MCInputs ------------------------------
(***************************************************************************)
(* Values for the readers: configuration files and documents of            *)
(* MCConfigFile and MCFeedParser, URLs below the threshold of the state     *)
(* file, at each end of what fits a line of four characters, and too long,  *)
(* and files of up to three bytes.                                         *)
(***************************************************************************)
EXTENDS Inputs, MCConfigFile

CONSTANTS
    short, least, most, over,   \* URLs
    x, y                        \* bytes

Listings == INSTANCE MCFeedParser WITH NULL <- None

MCDocuments == Listings!MCDocuments
MCTexts == Listings!MCTexts
MCVideoTypes == {"video"}

MCUrls == {short, least, most, over}
MCLength == (short :> 1) @@ (least :> 2) @@ (most :> 4) @@ (over :> 5)

MCBytes == {x, y, Zero}
=============================================================================
