------------------------------ MODULE StateFile ------------------------------
(***************************************************************************)
(* The text of the state file: the lines save_state() prints, what a kill in *)
(* the middle leaves of them, and what fgets(), the length test and          *)
(* am_strndup() of load_state() make of each line. Trailermatic takes the     *)
(* lines for entries; here a text is a stretch of some URL, and its length    *)
(* decides.                                                                  *)
(***************************************************************************)
EXTENDS SequencesExt, Integers

CONSTANTS
    Urls, Length,   \* the URLs and their lengths
    MAX_LINE_LEN,   \* size of the line buffer, 300
    Threshold,      \* a line must be longer than this, 20
    MaxEntries, MaxKills   \* bounds on the records and the kills

\* A URL of MAX_LINE_LEN characters or more does not fit save_state()'s own buffer;
\* such URLs are left out.
StateFileAssumption ==
    /\ MAX_LINE_LEN \in Nat /\ Threshold \in Nat /\ 2 < MAX_LINE_LEN
    /\ Length \in [Urls -> 1 .. (MAX_LINE_LEN - 1)]
    /\ MaxEntries \in Nat /\ MaxKills \in Nat

VARIABLES
    running,
    downloads,  \* the bucket: a sequence of texts
    statefile,  \* the lines; only the last may lack its newline
    kills       \* history: kills in the middle of save_state()

vars == <<running, downloads, statefile, kills>>

Text == [url : Urls, from : Nat, len : Nat]
Whole(url) == [url |-> url, from |-> 0, len |-> Length[url]]

Init == running = FALSE /\ downloads = <<>> /\ statefile = <<>> /\ kills = 0

-----------------------------------------------------------------------------
(* Lines.                                                                  *)

Line(text, newline) == [text |-> text, newline |-> newline]

\* save_state(): every entry and a newline.
Printed(list) == [i \in DOMAIN list |-> Line(list[i], TRUE)]

\* Beginnings of a file, cut between or within lines.
Cut(lines) ==
    { SubSeq(lines, 1, n) : n \in 0 .. Len(lines) - 1 } \cup
    UNION { { Append(SubSeq(lines, 1, n - 1), Line([lines[n].text EXCEPT !.len = len], FALSE)) :
                len \in 1 .. lines[n].text.len } : n \in DOMAIN lines }

Size(line) == line.text.len + (IF line.newline THEN 1 ELSE 0)
\* Mutant: fgets() gets the size of the buffer without its last byte.
RoomShort == MAX_LINE_LEN - 2

\* fgets() returns a line in stretches of the room of its buffer.
Room == MAX_LINE_LEN - 1
Pieces(line) == (Size(line) + Room - 1) \div Room
PieceSize(line, k) == Min({Room, Size(line) - (k - 1) * Room})

\* Mutant: the line end is taken for two characters.
StrippedTwice(line, k) ==
    [line.text EXCEPT !.from = @ + (k - 1) * Room, !.len = PieceSize(line, k) - 2]

\* am_strndup() of a piece without its last character, newline or not.
Stripped(line, k) ==
    [line.text EXCEPT !.from = @ + (k - 1) * Room, !.len = PieceSize(line, k) - 1]

\* The pieces load_state() keeps of one line.
Kept(line) ==
    FlattenSeq([k \in 1 .. Pieces(line) |->
                  IF PieceSize(line, k) > Threshold THEN <<Stripped(line, k)>> ELSE <<>>])

Loaded(lines) == FlattenSeq([i \in DOMAIN lines |-> Kept(lines[i])])

-----------------------------------------------------------------------------
(* The daemon.                                                             *)

\* main(): load_state().
Start == /\ ~running /\ running' = TRUE
         /\ downloads' = Loaded(statefile)
         /\ UNCHANGED <<statefile, kills>>

\* A URL that is not in the bucket is recorded and the bucket is saved.
Record(url) == /\ running /\ Len(downloads) < MaxEntries
               /\ Whole(url) \notin Range(downloads)
               /\ downloads' = <<Whole(url)>> \o downloads
               /\ statefile' = Printed(downloads')
               /\ UNCHANGED <<running, kills>>

\* The same, and the process is killed before the text is complete.
RecordKilled(url) == /\ running /\ Len(downloads) < MaxEntries /\ kills < MaxKills
                     /\ Whole(url) \notin Range(downloads)
                     /\ statefile' \in Cut(Printed(<<Whole(url)>> \o downloads))
                     /\ running' = FALSE /\ downloads' = <<>>
                     /\ kills' = kills + 1

\* shutdown_daemon() saves once more what has changed.
Stop == /\ running /\ running' = FALSE
        /\ \/ statefile' = Printed(downloads)
           \/ UNCHANGED statefile
        /\ downloads' = <<>>
        /\ UNCHANGED kills

StopKilled == /\ running /\ running' = FALSE
              /\ kills < MaxKills /\ kills' = kills + 1
              /\ statefile' \in Cut(Printed(downloads))
              /\ downloads' = <<>>

Next == \/ Start \/ Stop \/ StopKilled
        \/ \E url \in Urls : Record(url) \/ RecordKilled(url)

Spec == Init /\ [][Next]_vars

-----------------------------------------------------------------------------
(* Properties.                                                             *)

TypeOK == /\ running \in BOOLEAN /\ kills \in 0 .. MaxKills
          /\ \A i \in DOMAIN downloads :
                 /\ downloads[i] \in Text
                 /\ downloads[i].from + downloads[i].len <= Length[downloads[i].url]
          /\ \A i \in DOMAIN statefile : statefile[i].newline \/ i = Len(statefile)

\* Lengths that come back as they were written: 20 .. 298.
Fits(text) == text.len \in Threshold .. MAX_LINE_LEN - 2

FitsWhole(text) == Fits(text) /\ Fits(Whole(text.url))

Fitting(list) ==
    FlattenSeq([i \in DOMAIN list |-> IF FitsWhole(list[i]) THEN <<list[i]>> ELSE <<>>])

\* The entries that fit survive every restart, in their order, whatever lines lie
\* before, between and after them.
FittingSurvive == running => Fitting(Loaded(Printed(downloads))) = Fitting(downloads)

\* What one restart has made of any file, torn or with lines too long, the next ones
\* leave alone: nothing is shortened twice, no line grows or splits again.
SettledAfterRestart == Loaded(Printed(Loaded(statefile))) = Loaded(statefile)

\* A URL that fits, and came back as something else.
Spoilt(text) == Fits(Whole(text.url)) /\ text # Whole(text.url)

\* Of the URLs that fit, a kill spoils one at most: every other entry is a whole URL.
OneSpoiltPerKill == Cardinality({i \in DOMAIN downloads : Spoilt(downloads[i])}) <= kills

=============================================================================
