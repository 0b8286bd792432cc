------------------------- MODULE TrailermaticProofs -------------------------
(***************************************************************************)
(* The invariants of Trailermatic.tla, for every number of feeds, every     *)
(* set of URLs and every document the feeds may serve.                     *)
(***************************************************************************)
EXTENDS Trailermatic, DataLemmas

-----------------------------------------------------------------------------
(* Facts about the bucket operators, for every bucket, item and maximum.   *)

\* The first n nodes of a list.
LEMMA FirstNodes ==
    ASSUME NEW S, NEW list \in Seq(S), NEW n \in 0..(Len(list) - 1)
    PROVE  /\ SubSeq(list, 1, n) \in Seq(S)
           /\ Len(SubSeq(list, 1, n)) = n
           /\ \A i \in 1..n : SubSeq(list, 1, n)[i] = list[i]
OBVIOUS

\* What is left of a list without its last node.
LEMMA WithoutLast ==
    ASSUME NEW S, NEW list \in Seq(S), Len(list) > 0
    PROVE  /\ SubSeq(list, 1, Len(list) - 1) \in Seq(S)
           /\ Len(SubSeq(list, 1, Len(list) - 1)) = Len(list) - 1
           /\ \A i \in 1..(Len(list) - 1) : SubSeq(list, 1, Len(list) - 1)[i] = list[i]
<1> DEFINE n == Len(list) - 1
<1>1. n \in 0..(Len(list) - 1)
  OBVIOUS
<1> HIDE DEF n
<1>2. /\ SubSeq(list, 1, n) \in Seq(S)
      /\ Len(SubSeq(list, 1, n)) = n
      /\ \A i \in 1..n : SubSeq(list, 1, n)[i] = list[i]
  BY <1>1, FirstNodes
<1> QED
  BY <1>2 DEF n

\* addToBucket() puts the new item at the head, keeps the order of the others
\* and drops at most the last of them.
LEMMA AddToBucket ==
    ASSUME NEW S, NEW bucket \in Seq(S), NEW item \in S, NEW max \in Nat
    PROVE  LET new == addToBucket(item, bucket, max) IN
           /\ new \in Seq(S)
           /\ Len(new) \in {Len(bucket), Len(bucket) + 1} /\ Len(new) > 0
           /\ new[1] = item
           /\ \A i \in 2..Len(new) : new[i] = bucket[i - 1]
           /\ max > 0 /\ Len(new) > Len(bucket) => Len(new) <= max
<1> DEFINE new == addToBucket(item, bucket, max)
<1> DEFINE longer == Cons(item, bucket)
<1>1. /\ longer \in Seq(S) /\ Len(longer) = Len(bucket) + 1
      /\ longer[1] = item /\ \A i \in 2..Len(longer) : longer[i] = bucket[i - 1]
  BY DEF Cons
<1>2. CASE TooLarge(longer, max)
  <2> HIDE DEF longer
  <2>1. Len(bucket) > 0
    BY <1>1, <1>2 DEF TooLarge
  <2>2. new = SubSeq(longer, 1, Len(longer) - 1)
    BY <1>2 DEF addToBucket, removeLast, Front, longer
  <2>3. /\ new \in Seq(S) /\ Len(new) = Len(bucket)
        /\ \A i \in 1..Len(new) : new[i] = longer[i]
    BY <1>1, <2>1, <2>2, WithoutLast
  <2>4. \A i \in 2..Len(new) : new[i] = bucket[i - 1]
    BY <1>1, <2>3
  <2> QED
    BY <1>1, <2>1, <2>3, <2>4
<1>3. CASE ~TooLarge(longer, max)
  <2>1. new = longer
    BY <1>3 DEF addToBucket
  <2> QED
    BY <1>1, <1>3, <2>1 DEF TooLarge
<1> QED
  BY <1>2, <1>3

-----------------------------------------------------------------------------
USE DEF Feeds, Entries, Lines

Fetching == {"open", "transfer", "announce", "record"}
Saving == {"save", "write"}

\* In the loop over the URLs of a document.
InDocument == pc \in {"url"} \cup Fetching \/ (pc \in Saving /\ queue # <<>>)

\* Only the last line of the state file is ever cut off.
TornIsLast == \A i \in DOMAIN statefile : statefile[i] = Torn => i = Len(statefile)

\* What main() has at each point: a URL in hand while it is fetched, one the
\* bucket does not have; nothing left over outside the loops.
Control ==
    /\ pc \in Fetching => queue # <<>> /\ ~has_been_downloaded(downloads, url)
    /\ InDocument => feed > 0
    /\ ~InDocument => queue = <<>> /\ (pc # "feed" => feed = 0)
    /\ pc = "down" => Idle
    /\ match_only => ~bucket_changed /\ pc \notin Fetching \cup Saving

TypeInv == TypeOK /\ TornIsLast /\ Control

\* What was fetched is known or may be forgotten; the state file has what the
\* bucket has.
Remembered ==
    /\ pc = "down" => got \subseteq OnDisk \cup forgotten
    /\ pc # "down" => got \subseteq Known \cup forgotten \cup InFlight
    /\ StateFileCurrent

Ordered ==
    /\ NewestFirst
    /\ pc \notin Saving /\ (dirty => pc = "down") => OrderOf(statefile) \subseteq newer

\* The feeds whose items a first pass has still to add to the bucket size.
Uncounted == IF pc \in {"down", "check"} THEN NFeeds
             ELSE IF pc = "feed" THEN feed
             ELSE IF InDocument THEN feed - 1 ELSE 0

Bound == DefaultMax + NFeeds * MaxCount

Counted ==
    /\ max_bucket_items >= DefaultMax /\ max_bucket_items <= Bound
    /\ first_run /\ ~xmlfile => max_bucket_items + Uncounted * MaxCount <= Bound
    /\ xmlfile => /\ pc \in {"down", "check"} => max_bucket_items = DefaultMax
                  /\ pc = "feed" => feed = 0
                  /\ pc = "feed" \/ InDocument => once
                  /\ InDocument => feed = 1
    /\ pc = "sleep" => ~xmlfile /\ ~first_run

Limited == Len(downloads) <= Bound /\ Len(statefile) <= Bound

-----------------------------------------------------------------------------
(* Lists of lines.                                                         *)

\* What load_state() makes of each line, as a function.
Entry(keepTorn) == [line \in Lines |-> EntryOf(line, keepTorn)]

LEMMA EntryFacts ==
    ASSUME NamesAssumption, NEW keepTorn \in BOOLEAN
    PROVE  /\ Spreads(Entry(keepTorn), Lines, Entries)
           /\ \A line \in Lines : Entry(keepTorn)[line] \in {<<>>, <<Mangled>>, <<line>>}
           /\ \A line \in Lines : Entry(keepTorn)[line] = <<line>> =>
                    line \notin Unrestorable \cup {Torn} \/ line = Mangled
           /\ \A line \in Urls \ Unrestorable : Entry(keepTorn)[line] = <<line>>
<1>1. ASSUME NEW line \in Lines
      PROVE  /\ EntryOf(line, keepTorn) \in Seq(Entries)
             /\ EntryOf(line, keepTorn) \in {<<>>, <<Mangled>>, <<line>>}
             /\ EntryOf(line, keepTorn) = <<line>> =>
                    line \notin Unrestorable \cup {Torn} \/ line = Mangled
             /\ line \in Urls \ Unrestorable => EntryOf(line, keepTorn) = <<line>>
  <2> PICK new : new = EntryOf(line, keepTorn)
    OBVIOUS
  <2>0. <<>> \in Seq(Entries) /\ <<>> # <<line>> /\ <<Mangled>> \in Seq(Entries)
    OBVIOUS
  <2>1. CASE line \in TooShort \/ (line = Torn /\ ~keepTorn)
    <3>1. new = <<>> /\ line \notin Urls \ Unrestorable
      BY <2>1 DEF EntryOf, NamesAssumption, Unrestorable
    <3> QED
      BY <2>0, <3>1
  <2>2. CASE ~(line \in TooShort \/ (line = Torn /\ ~keepTorn)) /\ line \in TooLong \cup {Torn}
    <3>1. new = <<Mangled>> /\ line \notin Urls \ Unrestorable
      BY <2>2 DEF EntryOf, NamesAssumption, Unrestorable
    <3>2. <<Mangled>> = <<line>> => line = Mangled
      OBVIOUS
    <3> QED
      BY <2>0, <3>1, <3>2
  <2>3. CASE line \notin TooShort \cup TooLong \cup {Torn}
    <3>1. new = <<line>> /\ line \notin Unrestorable \cup {Torn} /\ line \in Entries
      BY <2>3 DEF EntryOf, NamesAssumption, Unrestorable
    <3>2. <<line>> \in Seq(Entries)
      BY <3>1
    <3> QED
      BY <3>1, <3>2
  <2>4. line \in TooLong \cup {Torn} \/ line \in TooShort \/ line \notin TooShort \cup TooLong \cup {Torn}
    OBVIOUS
  <2> QED
    BY <2>1, <2>2, <2>3, <2>4
<1> QED
  BY <1>1, Zenon DEF Entry, Spreads
\* A list that has been restored from lines: no longer, with the same restorable
\* URLs, in the same order, none of them twice.
RestoredFrom(list, lines) ==
    /\ Len(list) <= Len(lines)
    /\ \A u \in Urls : bucket_hasURL(u, list) <=>
            u \notin Unrestorable /\ bucket_hasURL(u, lines)
    /\ OrderOf(list) \subseteq OrderOf(lines)
    /\ OnceEach(lines) => OnceEach(list)

\* The facts about a list and a longer one that the next lemmas need.
LEMMA OneMoreLine ==
    ASSUME NEW S, NEW list \in Seq(S), NEW e \in S
    PROVE  LET longer == Append(list, e)
           IN  /\ longer \in Seq(S) /\ Len(longer) = Len(list) + 1
               /\ longer[Len(longer)] = e
               /\ DOMAIN list = 1..Len(list) /\ DOMAIN longer = 1..(Len(list) + 1)
               /\ \A i \in 1..Len(list) : longer[i] = list[i]
               /\ \A u : bucket_hasURL(u, longer) <=> u = e \/ bucket_hasURL(u, list)
<1> DEFINE longer == Append(list, e)
<1>1. /\ longer \in Seq(S) /\ Len(longer) = Len(list) + 1
      /\ longer[Len(longer)] = e
      /\ DOMAIN list = 1..Len(list) /\ DOMAIN longer = 1..(Len(list) + 1)
      /\ \A i \in 1..Len(list) : longer[i] = list[i]
      /\ Len(list) \in Nat
  BY AppendProperties
<1> HIDE DEF longer
<1>2. ASSUME NEW u
      PROVE  bucket_hasURL(u, longer) <=> u = e \/ bucket_hasURL(u, list)
  BY <1>1 DEF bucket_hasURL
<1> QED
  BY <1>1, <1>2 DEF longer

\* A line more in the file that is restored as nothing, ...
LEMMA LineDropped ==
    ASSUME NEW list \in Seq(Entries), NEW lines \in Seq(Lines), RestoredFrom(list, lines),
           NEW line \in Lines, line \notin Urls \ Unrestorable
    PROVE  RestoredFrom(list, Append(lines, line))
<1> HIDE DEF Entries, Lines
<1> PICK more : more = Append(lines, line)
  OBVIOUS
<1>1. /\ Len(more) = Len(lines) + 1 /\ Len(lines) \in Nat
      /\ DOMAIN lines = 1..Len(lines) /\ DOMAIN more = 1..(Len(lines) + 1)
      /\ \A i \in 1..Len(lines) : more[i] = lines[i]
      /\ \A u : bucket_hasURL(u, more) <=> u = line \/ bucket_hasURL(u, lines)
  BY OneMoreLine
<1>2. ASSUME NEW p \in OrderOf(lines) PROVE p \in OrderOf(more)
  <2>1. PICK i \in DOMAIN lines, j \in DOMAIN lines : i < j /\ lines[i] = p[1] /\ lines[j] = p[2]
    BY DEF OrderOf
  <2>2. i \in DOMAIN more /\ j \in DOMAIN more /\ more[i] = p[1] /\ more[j] = p[2]
    BY <1>1, <2>1
  <2> QED
    BY <2>1, <2>2 DEF OrderOf
<1>3. OnceEach(more) => OnceEach(lines)
  BY <1>1 DEF OnceEach
<1>4. Len(list) <= Len(more)
  BY <1>1 DEF RestoredFrom
<1>5. \A u \in Urls : bucket_hasURL(u, list) <=> u \notin Unrestorable /\ bucket_hasURL(u, more)
  BY <1>1 DEF RestoredFrom
<1> QED
  BY <1>2, <1>3, <1>4, <1>5 DEF RestoredFrom

\* ... or as an entry that is the line or no URL.
LEMMA LineKept ==
    ASSUME NEW list \in Seq(Entries), NEW lines \in Seq(Lines), RestoredFrom(list, lines),
           NEW line \in Lines, NEW entry \in Entries,
           \/ entry = line /\ line \notin Unrestorable
           \/ entry \notin Urls /\ line \notin Urls \ Unrestorable
    PROVE  RestoredFrom(Append(list, entry), Append(lines, line))
<1> HIDE DEF Entries, Lines
<1> PICK more, longer : more = Append(lines, line) /\ longer = Append(list, entry)
  OBVIOUS
<1>1. /\ Len(more) = Len(lines) + 1 /\ Len(lines) \in Nat /\ more[Len(lines) + 1] = line
      /\ DOMAIN lines = 1..Len(lines) /\ DOMAIN more = 1..(Len(lines) + 1)
      /\ \A i \in 1..Len(lines) : more[i] = lines[i]
      /\ \A u : bucket_hasURL(u, more) <=> u = line \/ bucket_hasURL(u, lines)
  BY OneMoreLine
<1>2. /\ Len(longer) = Len(list) + 1 /\ Len(list) \in Nat /\ longer[Len(list) + 1] = entry
      /\ DOMAIN list = 1..Len(list) /\ DOMAIN longer = 1..(Len(list) + 1)
      /\ \A i \in 1..Len(list) : longer[i] = list[i]
      /\ \A u : bucket_hasURL(u, longer) <=> u = entry \/ bucket_hasURL(u, list)
  BY OneMoreLine
<1>3. Len(longer) <= Len(more)
  BY <1>1, <1>2 DEF RestoredFrom
<1>4. \A u \in Urls : bucket_hasURL(u, longer) <=> u \notin Unrestorable /\ bucket_hasURL(u, more)
  BY <1>1, <1>2 DEF RestoredFrom
<1>5. ASSUME NEW p \in OrderOf(longer) PROVE p \in OrderOf(more)
  <2>1. PICK i \in DOMAIN longer, j \in DOMAIN longer :
            i < j /\ longer[i] = p[1] /\ longer[j] = p[2]
    BY DEF OrderOf
  <2>2. p \in Urls \X Urls /\ p[1] \in Urls /\ p[2] \in Urls
    BY DEF OrderOf
  <2>3. i \in 1..Len(list) /\ list[i] = p[1]
    BY <1>2, <2>1
  <2>4. CASE j = Len(list) + 1
    <3>1. entry = p[2] /\ entry = line
      BY <1>2, <2>1, <2>2, <2>4
    <3>2. bucket_hasURL(p[1], list)
      BY <1>2, <2>3 DEF bucket_hasURL
    <3>3. bucket_hasURL(p[1], lines)
      BY <2>2, <3>2 DEF RestoredFrom
    <3>4. PICK k \in 1..Len(lines) : lines[k] = p[1]
      BY <1>1, <3>3 DEF bucket_hasURL
    <3>5. /\ k \in DOMAIN more /\ Len(lines) + 1 \in DOMAIN more /\ k < Len(lines) + 1
          /\ more[k] = p[1] /\ more[Len(lines) + 1] = p[2]
      BY <1>1, <3>1, <3>4
    <3> QED
      BY <2>2, <3>5 DEF OrderOf
  <2>5. CASE j # Len(list) + 1
    <3>1. j \in 1..Len(list) /\ list[j] = p[2]
      BY <1>2, <2>1, <2>5
    <3>2. p \in OrderOf(list)
      BY <1>2, <2>1, <2>2, <2>3, <3>1 DEF OrderOf
    <3>3. PICK k \in DOMAIN lines, l \in DOMAIN lines :
              k < l /\ lines[k] = p[1] /\ lines[l] = p[2]
      BY <3>2 DEF RestoredFrom, OrderOf
    <3>4. k \in DOMAIN more /\ l \in DOMAIN more /\ more[k] = p[1] /\ more[l] = p[2]
      BY <1>1, <3>3
    <3> QED
      BY <2>2, <3>3, <3>4 DEF OrderOf
  <2> QED
    BY <2>4, <2>5
<1>6. ASSUME OnceEach(more) PROVE OnceEach(longer)
  <2>1. OnceEach(lines)
    BY <1>1, <1>6 DEF OnceEach
  <2>2. OnceEach(list)
    BY <2>1 DEF RestoredFrom
  <2>3. entry \in Urls => ~bucket_hasURL(entry, list)
    <3> SUFFICES ASSUME entry \in Urls, bucket_hasURL(entry, list) PROVE FALSE
      OBVIOUS
    <3>1. entry = line /\ bucket_hasURL(line, lines)
      BY DEF RestoredFrom
    <3>2. PICK k \in 1..Len(lines) : lines[k] = line
      BY <1>1, <3>1 DEF bucket_hasURL
    <3>3. k \in DOMAIN more /\ Len(lines) + 1 \in DOMAIN more /\ more[k] = line
          /\ k # Len(lines) + 1
      BY <1>1, <3>2
    <3> QED
      BY <1>1, <1>6, <3>1, <3>3 DEF OnceEach
  <2> SUFFICES ASSUME NEW i \in 1..(Len(list) + 1), NEW j \in 1..(Len(list) + 1),
                      longer[i] \in Urls, longer[i] = longer[j]
               PROVE  i = j
    BY <1>2 DEF OnceEach
  <2>4. CASE i \in 1..Len(list) /\ j \in 1..Len(list)
    BY <1>2, <2>2, <2>4 DEF OnceEach
  <2>5. CASE i = Len(list) + 1 /\ j \in 1..Len(list)
    BY <1>2, <2>3, <2>5 DEF bucket_hasURL
  <2>6. CASE j = Len(list) + 1 /\ i \in 1..Len(list)
    BY <1>2, <2>3, <2>6 DEF bucket_hasURL
  <2>7. i \in 1..Len(list) \/ i = Len(list) + 1
    BY <1>2
  <2>8. j \in 1..Len(list) \/ j = Len(list) + 1
    BY <1>2
  <2> QED
    BY <2>4, <2>5, <2>6, <2>7, <2>8
<1> QED
  BY <1>3, <1>4, <1>5, <1>6 DEF RestoredFrom

\* load_state() restores the URLs of the file in their order, but for those whose
\* length it does not support.
LEMMA RestoredLines ==
    ASSUME NamesAssumption, NEW lines \in Seq(Lines), NEW keepTorn \in BOOLEAN
    PROVE  /\ Restored(lines, keepTorn) \in Seq(Entries)
           /\ RestoredFrom(Restored(lines, keepTorn), lines)
<1> HIDE DEF Entries, Lines
<1> PICK F : F = Entry(keepTorn)
  OBVIOUS
<1>1. /\ Spreads(F, Lines, Entries)
      /\ \A line \in Lines : F[line] \in {<<>>, <<Mangled>>, <<line>>}
      /\ \A line \in Lines : F[line] = <<line>> =>
               line \notin Unrestorable \cup {Torn} \/ line = Mangled
      /\ \A line \in Urls \ Unrestorable : F[line] = <<line>>
  BY EntryFacts
<1> DEFINE good == {l \in Seq(Lines) : RestoredFrom(Spread(l, F), l)}
<1>2. <<>> \in good
  <2>1. Spread(<<>>, F) = <<>>
    BY SpreadEmpty
  <2> QED
    BY <2>1 DEF RestoredFrom, bucket_hasURL, OrderOf, OnceEach
<1>3. ASSUME NEW l \in Seq(Lines), NEW line \in Lines, l \in good
      PROVE  Append(l, line) \in good
  <2> PICK list, x, list2, l2 :
         list = Spread(l, F) /\ x = F[line] /\ l2 = Append(l, line) /\ list2 = Spread(l2, F)
    OBVIOUS
  <2>1. list \in Seq(Entries) /\ list2 = list \o x
    <3>1. l \in Seq(Lines)
      BY <1>3
    <3>2. Spread(Append(l, line), F) = Spread(l, F) \o x /\ Spread(l, F) \in Seq(Entries)
      BY ONLY <1>1, <3>1, line \in Lines, x = F[line], SpreadAppend, SMTT(30)
    <3> QED
      BY ONLY <3>2, list = Spread(l, F), l2 = Append(l, line), list2 = Spread(l2, F)
  <2>2. RestoredFrom(list, l) /\ l2 \in Seq(Lines)
    BY <1>3
  <2>3. x \in {<<>>, <<Mangled>>, <<line>>}
    BY <1>1
  <2>4. Mangled \in Entries /\ Mangled \notin Urls
    BY DEF NamesAssumption, Entries
  <2>5. CASE x = <<>>
    <3>1. list2 = list
      BY <2>1, <2>5
    <3>2. line \notin Urls \ Unrestorable
      <4>1. <<>> # <<line>>
        OBVIOUS
      <4> QED
        BY <1>1, <2>5, <4>1
    <3>3. RestoredFrom(list2, l2)
      BY <2>1, <2>2, <3>1, <3>2, LineDropped
    <3> QED
      BY <2>2, <3>3
  <2>6. CASE x = <<line>>
    <3>1. line \notin Unrestorable \cup {Torn} \/ line = Mangled
      BY <1>1, <2>6
    <3>2. line \in Entries /\ line \notin Unrestorable
      BY <2>4, <3>1 DEF NamesAssumption, Entries, Lines
    <3>3. list2 = Append(list, line)
      BY <2>1, <2>6, <3>2
    <3>4. RestoredFrom(list2, l2)
      BY <2>1, <2>2, <3>2, <3>3, LineKept
    <3> QED
      BY <2>2, <3>4
  <2>7. CASE x = <<Mangled>> /\ x # <<line>>
    <3>1. line \notin Urls \ Unrestorable
      BY <1>1, <2>7
    <3>2. list2 = Append(list, Mangled)
      BY <2>1, <2>4, <2>7
    <3>3. RestoredFrom(list2, l2)
      BY <2>1, <2>2, <2>4, <3>1, <3>2, LineKept
    <3> QED
      BY <2>2, <3>3
  <2> QED
    BY <2>3, <2>5, <2>6, <2>7
<1> HIDE DEF good
<1>4. lines \in good
  BY <1>2, <1>3, SequenceInduction
<1>5. Restored(lines, keepTorn) = Spread(lines, F)
  <2>1. \A i \in DOMAIN lines : lines[i] \in Lines
    OBVIOUS
  <2>2. [i \in DOMAIN lines |-> EntryOf(lines[i], keepTorn)] = Mapped(lines, F)
    BY <2>1 DEF Mapped, Entry
  <2> QED
    BY <2>2 DEF Restored, Spread
<1>6. Spread(lines, F) \in Seq(Entries)
  BY <1>1, SpreadTyped
<1> QED
  BY <1>4, <1>5, <1>6 DEF good

\* A half-written file holds the first lines of the list, in order, and possibly
\* a cut-off one after them.
LEMMA PartialLines ==
    ASSUME NamesAssumption, NEW list \in Seq(Entries), NEW lines \in PartialWrites(list)
    PROVE  /\ lines \in Seq(Lines)
           /\ Len(lines) <= Len(list)
           /\ \A i \in DOMAIN lines : lines[i] = list[i] \/ lines[i] = Torn
           /\ \A i \in DOMAIN lines : lines[i] = Torn => i = Len(lines)
<1>1. PICK n \in 0..(Len(list) - 1), cut \in BOOLEAN :
        lines = IF cut THEN Append(SubSeq(list, 1, n), Torn) ELSE SubSeq(list, 1, n)
  BY DEF PartialWrites
<1> DEFINE prefix == SubSeq(list, 1, n)
<1>2. /\ prefix \in Seq(Entries) /\ Len(prefix) = n
      /\ \A i \in 1..n : prefix[i] = list[i]
  BY FirstNodes
<1>3. /\ prefix \in Seq(Lines)
      /\ \A i \in 1..n : prefix[i] # Torn
  BY <1>2 DEF NamesAssumption
<1> HIDE DEF prefix
<1>4. lines = IF cut THEN Append(prefix, Torn) ELSE prefix
  BY <1>1 DEF prefix
<1>5. CASE cut
  BY <1>2, <1>3, <1>4, <1>5
<1>6. CASE ~cut
  BY <1>2, <1>3, <1>4, <1>6
<1> QED
  BY <1>5, <1>6

\* What a start has in the bucket: what it restored, or nothing.
LEMMA StartLoads ==
    ASSUME NamesAssumption, statefile \in Seq(Lines), Start
    PROVE  /\ downloads' \in Seq(Entries)
           /\ \/ Load /\ RestoredFrom(downloads', statefile)
              \/ LoadFails /\ downloads' = <<>>
<1> HIDE DEF Entries, Lines
<1>1. CASE Load
  <2>1. PICK keepTorn \in BOOLEAN : downloads' = Restored(statefile, keepTorn)
    BY <1>1 DEF Load
  <2> QED
    BY <1>1, <2>1, RestoredLines
<1>2. CASE LoadFails
  BY <1>2 DEF LoadFails
<1> QED
  BY <1>1, <1>2 DEF Start

-----------------------------------------------------------------------------
(* Types and control.                                                      *)

\* The bucket size never reaches the width of its variable.
LEMMA BoundFits ==
    ASSUME FeedsAssumption, SizeAssumption
    PROVE  /\ Bound \in Nat /\ Bound < CountModulus
           /\ DefaultMax \in 0..(CountModulus - 1) /\ DefaultMax <= Bound
           /\ CountModulus \in Nat /\ CountModulus > 0
<1> DEFINE items == NFeeds * MaxCount
<1>1. items \in Nat
  BY DEF FeedsAssumption
<1>2. Bound = DefaultMax + items /\ Bound < CountModulus
  BY DEF Bound, SizeAssumption
<1> HIDE DEF items
<1> QED
  BY <1>1, <1>2 DEF SizeAssumption

LEMMA HeadAndTail ==
    ASSUME NEW S, NEW list \in Seq(S), list # <<>>
    PROVE  Head(list) \in S /\ Tail(list) \in Seq(S)
OBVIOUS

LEMMA ModuloInRange ==
    ASSUME NEW n \in Nat, NEW m \in Nat, m > 0
    PROVE  n % m \in 0..(m - 1)
OBVIOUS

\* The end of the process leaves a well-typed state, whatever it does to the
\* state file.
LEMMA TypeVanish ==
    ASSUME NamesAssumption, FeedsAssumption, SizeAssumption, TypeInv,
           Vanish, UNCHANGED <<folder, got, dirty>>,
           statefile' \in Seq(Lines), TornIsLast',
           forgotten' \subseteq Urls, newer' \subseteq Urls \X Urls
    PROVE  TypeInv'
<1>1. TypeOK'
  <2>1. 0 \in 0..NFeeds
    BY DEF FeedsAssumption
  <2>2. DefaultMax \in 0..(CountModulus - 1)
    BY BoundFits
  <2>3. <<>> \in Seq(Entries) /\ <<>> \in Seq(Urls)
    OBVIOUS
  <2> QED
    BY <2>1, <2>2, <2>3 DEF TypeInv, TypeOK, Vanish, PCs
<1>2. Control'
  BY DEF Vanish, Control, Idle, InDocument, Fetching, Saving
<1> QED
  BY <1>1, <1>2 DEF TypeInv

LEMMA TypeInit == FlagsAssumption /\ FeedsAssumption /\ SizeAssumption /\ Init => TypeInv
<1> USE DEF FlagsAssumption, FeedsAssumption, SizeAssumption
<1>1. ASSUME FlagsAssumption, FeedsAssumption, SizeAssumption, Init
      PROVE  TypeOK
  <2>1. max_bucket_items \in 0..(CountModulus - 1)
    BY <1>1, BoundFits DEF Init, Idle
  <2>2. folder \in [Paths -> FileStates]
    BY <1>1 DEF Init, FileStates
  <2>3. <<>> \in Seq(Entries) /\ <<>> \in Seq(Urls) /\ <<>> \in Seq(Lines)
    OBVIOUS
  <2>4. 0 \in 0..NFeeds
    BY <1>1
  <2> QED
    BY <1>1, <2>1, <2>2, <2>3, <2>4 DEF Init, Idle, TypeOK, PCs
<1>2. ASSUME Init
      PROVE  TornIsLast /\ Control
  BY <1>2 DEF Init, Idle, TornIsLast, Control, InDocument, Fetching, Saving
<1> QED
  BY <1>1, <1>2 DEF TypeInv

LEMMA TypeStep ==
    ASSUME NamesAssumption, FlagsAssumption, FeedsAssumption, SizeAssumption,
           TypeInv, [Next]_vars
    PROVE  TypeInv'
<1> USE DEF TypeInv, TypeOK, TornIsLast, Control, Idle, InDocument, Fetching, Saving,
            PCs, FileStates, volatile, history, url
<1>0. CountModulus \in Nat /\ CountModulus > 0
  BY BoundFits
<1>1. CASE Start
  <2>1. downloads' \in Seq(Entries)
    BY <1>1, StartLoads
  <2>2. forgotten' \subseteq Urls /\ dirty' \in BOOLEAN
    BY <1>1 DEF Start, Load, LoadFails, OnDisk
  <2> QED
    BY <1>1, <2>1, <2>2 DEF Start, FlagsAssumption
<1>2. CASE BeginPass
  BY <1>2 DEF BeginPass
<1>3. CASE LeaveLoop
  BY <1>3 DEF LeaveLoop, ShutdownPc
<1>4. CASE EndPass
  BY <1>4 DEF EndPass, ShutdownPc
<1>5. CASE WakeUp
  BY <1>5 DEF WakeUp
<1>6. CASE Exit
  <2>1. forgotten' \subseteq Urls /\ newer' \subseteq Urls \X Urls
    BY <1>6 DEF Exit, EndHistory, OrderOf
  <2> QED
    BY <1>6, <2>1, TypeVanish DEF Exit
<1>7. CASE FileUnreadable
  BY <1>7 DEF FileUnreadable
<1>8. ASSUME NEW doc \in Listings[1], ReadFile(doc)
      PROVE  TypeInv'
  <2>1. 1 \in Feeds /\ doc.urls \in Seq(Urls) /\ doc.count \in Nat
    BY <1>8, FeedsAssumption DEF Feeds
  <2>2. max_bucket_items' \in 0..(CountModulus - 1)
    <3>1. (max_bucket_items + doc.count) % CountModulus \in 0..(CountModulus - 1)
      BY <1>0, <2>1, ModuloInRange, SMTT(30)
    <3> QED
      BY <1>8, <3>1 DEF ReadFile
  <2>3. TypeOK' /\ TornIsLast'
    BY <1>8, <2>1, <2>2 DEF ReadFile, Feeds
  <2>4. Control'
    BY <1>8, <2>1 DEF ReadFile
  <2> QED
    BY <2>3, <2>4
<1>9. CASE FeedUnavailable
  BY <1>9 DEF FeedUnavailable
<1>10. ASSUME NEW f \in Feeds, feed = f, NEW doc \in Listings[f], FeedReceived(doc)
      PROVE  TypeInv'
  <2>1. doc.urls \in Seq(Urls) /\ doc.count \in Nat
    BY FeedsAssumption
  <2>2. max_bucket_items' \in 0..(CountModulus - 1)
    <3>1. (max_bucket_items + doc.count) % CountModulus \in 0..(CountModulus - 1)
      BY <1>0, <2>1, ModuloInRange, SMTT(60)
    <3> QED
      BY <1>10, <3>1 DEF FeedReceived
  <2> QED
    BY <1>10, <2>1, <2>2 DEF FeedReceived
<1>11. CASE FeedDone
  BY <1>11 DEF FeedDone
<1>12. CASE SkipUnmatched
  BY <1>12 DEF SkipUnmatched, NextUrl
<1>13. CASE ReportMatch
  <2>1. CASE Vanish /\ EndHistory(dirty)
    <3>1. forgotten' \subseteq Urls /\ newer' \subseteq Urls \X Urls
      BY <2>1 DEF EndHistory, OrderOf
    <3> QED
      BY <1>13, <2>1, <3>1, TypeVanish DEF ReportMatch
  <2>2. CASE ~(Vanish /\ EndHistory(dirty))
    <3>1. /\ NextUrl
          /\ UNCHANGED <<downloads, max_bucket_items, bucket_changed, first_run, closing,
                         once, match_only, xmlfile, feed, forgotten, newer>>
      BY <1>13, <2>2 DEF ReportMatch
    <3>2. pc' = "url" /\ queue' \in Seq(Urls)
      BY <1>13, <3>1, HeadAndTail DEF ReportMatch, NextUrl
    <3> QED
      BY <1>13, <3>1, <3>2 DEF ReportMatch
  <2> QED
    BY <2>1, <2>2
<1>14. CASE SkipKnown
  BY <1>14 DEF SkipKnown, NextUrl, Wanted
<1>15. CASE FoundNew
  BY <1>15 DEF FoundNew, Wanted
<1>16. CASE OpenFile
  BY <1>16 DEF OpenFile
<1>17. CASE OpenFails
  <2>1. folder' \in [Paths -> FileStates]
    BY <1>17 DEF OpenFails
  <2> QED
    BY <1>17, <2>1 DEF OpenFails, NextUrl
<1>18. CASE TransferFailed
  BY <1>18 DEF TransferFailed, NextUrl
<1>19. CASE HttpError
  <2>1. folder' \in [Paths -> FileStates]
    BY <1>19 DEF HttpError
  <2> QED
    BY <1>19, <2>1 DEF HttpError, NextUrl
<1>20. CASE TransferComplete
  <2>1. folder' \in [Paths -> FileStates] /\ got' \subseteq Urls
    BY <1>20 DEF TransferComplete
  <2> QED
    BY <1>20, <2>1 DEF TransferComplete
<1>21. CASE Announce
  BY <1>21 DEF Announce
<1>22. CASE Record
  <2>1. url \in Urls
    BY <1>22 DEF Record
  <2>2. downloads' \in Seq(Entries)
    <3>1. url \in Entries /\ max_bucket_items \in Nat /\ downloads \in Seq(Entries)
      BY <2>1, BoundFits
    <3>2. downloads' = addToBucket(url, downloads, max_bucket_items)
      BY <1>22 DEF Record
    <3> QED
      BY <3>1, <3>2, AddToBucket
  <2>3. forgotten' \subseteq Urls /\ newer' \subseteq Urls \X Urls
    BY <1>22, <2>1 DEF Record, Known
  <2> QED
    BY <1>22, <2>2, <2>3 DEF Record
<1>23. CASE SaveOpen
  BY <1>23 DEF SaveOpen
<1>24. CASE SaveOpenFails
  <2>1. CASE queue = <<>>
    BY <1>24, <2>1 DEF SaveOpenFails, Saved
  <2>2. CASE queue # <<>>
    <3>1. Saved /\ feed > 0 /\ ~match_only
      BY <1>24, <2>2 DEF SaveOpenFails
    <3>2. pc' = "url" /\ queue' = Tail(queue)
      BY <3>1, <2>2 DEF Saved
    <3>3. queue' \in Seq(Urls)
      BY <3>2, <2>2, HeadAndTail
    <3> QED
      BY <1>24, <3>1, <3>2, <3>3 DEF SaveOpenFails
  <2> QED
    BY <2>1, <2>2
<1>25. CASE SaveClose
  <2>1. statefile' \in Seq(Lines) /\ TornIsLast'
    BY <1>25 DEF SaveClose, NamesAssumption
  <2>2. CASE queue = <<>>
    BY <1>25, <2>1, <2>2 DEF SaveClose, Saved
  <2>3. CASE queue # <<>>
    <3>1. Saved /\ feed > 0 /\ ~match_only
      BY <1>25, <2>3 DEF SaveClose
    <3>2. pc' = "url" /\ queue' = Tail(queue)
      BY <3>1, <2>3 DEF Saved
    <3>3. queue' \in Seq(Urls)
      BY <3>2, <2>3, HeadAndTail
    <3> QED
      BY <1>25, <2>1, <3>1, <3>2, <3>3 DEF SaveClose
  <2> QED
    BY <2>2, <2>3
<1>26. CASE SaveFails
  <2>1. statefile' \in Seq(Lines) /\ TornIsLast'
    BY <1>26, PartialLines DEF SaveFails
  <2>2. CASE queue = <<>>
    BY <1>26, <2>1, <2>2 DEF SaveFails, Saved
  <2>3. CASE queue # <<>>
    <3>1. Saved /\ feed > 0 /\ ~match_only
      BY <1>26, <2>3 DEF SaveFails
    <3>2. pc' = "url" /\ queue' = Tail(queue)
      BY <3>1, <2>3 DEF Saved
    <3>3. queue' \in Seq(Urls)
      BY <3>2, <2>3, HeadAndTail
    <3> QED
      BY <1>26, <2>1, <3>1, <3>2, <3>3 DEF SaveFails
  <2> QED
    BY <2>2, <2>3
<1>27. CASE Signal
  BY <1>27 DEF Signal
<1>28. CASE Crash
  <2>1. statefile' = statefile \/ statefile' = downloads \/ statefile' \in PartialWrites(downloads)
    BY <1>28 DEF Crash
  <2>2. downloads \in Seq(Lines) /\ \A i \in DOMAIN downloads : downloads[i] # Torn
    BY DEF NamesAssumption
  <2>3. statefile' \in Seq(Lines) /\ TornIsLast'
    BY <2>1, <2>2, PartialLines
  <2>4. forgotten' \subseteq Urls /\ newer' \subseteq Urls \X Urls
    BY <1>28 DEF Crash, EndHistory, OrderOf
  <2> QED
    BY <1>28, <2>3, <2>4, TypeVanish DEF Crash
<1>29. ASSUME NEW p \in Paths, Collect(p)
      PROVE  TypeInv'
  BY <1>29 DEF Collect
<1>30. CASE UNCHANGED vars
  BY <1>30 DEF vars
<1> QED
  BY <1>1, <1>2, <1>3, <1>4, <1>5, <1>6, <1>7, <1>8, <1>9, <1>10, <1>11, <1>12, <1>13, <1>14, <1>15, <1>16, <1>17, <1>18, <1>19, <1>20, <1>21, <1>22, <1>23, <1>24, <1>25, <1>26, <1>27, <1>28, <1>29, <1>30
     DEF Next, MainStep, Environment, ProcessFeed, ProcessDocument, SaveState

LEMMA TypeInvariant ==
    ASSUME NamesAssumption, FlagsAssumption, FeedsAssumption, SizeAssumption
    PROVE  Spec => []TypeInv
<1>1. Init => TypeInv
  BY TypeInit
<1>2. TypeInv /\ [Next]_vars => TypeInv'
  BY TypeStep
<1> QED
  BY <1>1, <1>2, PTL DEF Spec

\* Every variable keeps its type (TypeOK): 16 bits are enough for the bucket size,
\* and a cut-off line of the state file never becomes an entry of the bucket.
THEOREM TypeCorrect ==
    ASSUME NamesAssumption, FlagsAssumption, FeedsAssumption, SizeAssumption
    PROVE  Spec => []TypeOK
<1>1. TypeInv => TypeOK
  BY DEF TypeInv
<1> QED
  BY <1>1, TypeInvariant, PTL

-----------------------------------------------------------------------------
(* No URL is recorded twice.                                               *)

\* The steps that write the bucket or the state file.
LEMMA WhoWritesLists ==
    ASSUME [Next]_vars
    PROVE  \/ UNCHANGED <<downloads, statefile>>
           \/ Vanish /\ UNCHANGED statefile
           \/ Start \/ Record \/ SaveOpen \/ SaveClose \/ SaveFails \/ Crash
<1>1. CASE BeginPass \/ LeaveLoop \/ EndPass \/ WakeUp \/ Exit \/ FileUnreadable
             \/ (\E doc \in Listings[1] : ReadFile(doc)) \/ ProcessFeed
  BY <1>1 DEF BeginPass, LeaveLoop, EndPass, WakeUp, Exit, FileUnreadable, ReadFile,
       ProcessFeed, FeedUnavailable, FeedReceived, volatile
<1>2. CASE FeedDone \/ SkipUnmatched \/ ReportMatch \/ SkipKnown \/ FoundNew
  BY <1>2 DEF FeedDone, SkipUnmatched, ReportMatch, SkipKnown, FoundNew, volatile
<1>3. CASE OpenFile \/ OpenFails \/ TransferFailed \/ HttpError \/ TransferComplete
  BY <1>3 DEF OpenFile, OpenFails, TransferFailed, HttpError, TransferComplete, volatile
<1>4. CASE Announce \/ SaveOpenFails \/ Signal \/ \E p \in Paths : Collect(p)
  BY <1>4 DEF Announce, SaveOpenFails, Signal, Collect, volatile
<1>5. CASE UNCHANGED vars
  BY <1>5 DEF vars, volatile
<1> QED
  BY <1>1, <1>2, <1>3, <1>4, <1>5
     DEF Next, MainStep, Environment, ProcessDocument, SaveState

LEMMA OnceStep ==
    ASSUME NamesAssumption, TypeInv, NoDuplicateEntries, [Next]_vars
    PROVE  NoDuplicateEntries'
<1> USE DEF NoDuplicateEntries, OnceEach
<1> HIDE DEF Entries, Lines
<1>0. downloads \in Seq(Entries) /\ statefile \in Seq(Lines)
  BY DEF TypeInv, TypeOK
<1>1. CASE UNCHANGED <<downloads, statefile>>
  BY <1>1
<1>2. CASE Vanish /\ UNCHANGED statefile
  BY <1>2 DEF Vanish
<1>3. CASE Start
  <2> HIDE DEF OnceEach
  <2>1. RestoredFrom(downloads', statefile) \/ downloads' = <<>>
    BY <1>0, <1>3, StartLoads
  <2>2. OnceEach(<<>>)
    BY DEF OnceEach
  <2> QED
    BY <1>3, <2>1, <2>2 DEF Start, RestoredFrom
<1>4. CASE Record
  <2>1. queue # <<>> /\ ~has_been_downloaded(downloads, url) /\ url \in Entries
    <3>1. queue \in Seq(Urls) /\ queue # <<>> /\ ~has_been_downloaded(downloads, url)
      BY <1>4 DEF Record, TypeInv, TypeOK, Control, Fetching
    <3>2. url \in Urls
      BY <3>1, HeadAndTail DEF url
    <3> QED
      BY <3>1, <3>2 DEF Entries
  <2>2. max_bucket_items \in Nat
    BY DEF TypeInv, TypeOK
  <2>3. downloads' = addToBucket(url, downloads, max_bucket_items)
    BY <1>4 DEF Record
  <2>4. /\ downloads' \in Seq(Entries) /\ downloads'[1] = url
        /\ Len(downloads') <= Len(downloads) + 1
        /\ \A i \in 2..Len(downloads') : downloads'[i] = downloads[i - 1]
    <3> DEFINE new == addToBucket(url, downloads, max_bucket_items)
    <3>1. /\ new \in Seq(Entries)
          /\ Len(new) \in {Len(downloads), Len(downloads) + 1}
          /\ new[1] = url
          /\ \A i \in 2..Len(new) : new[i] = downloads[i - 1]
      BY <1>0, <2>1, <2>2, AddToBucket
    <3> HIDE DEF new
    <3>2. downloads' = new
      BY <2>3 DEF new
    <3> QED
      BY <1>0, <3>1, <3>2, SMTT(60)
  <2>5. \A i \in 1..Len(downloads) : downloads[i] # url
    BY <1>0, <2>1 DEF has_been_downloaded, bucket_hasURL
  <2>6. OnceEach(downloads')
    <3> SUFFICES ASSUME NEW i \in 1..Len(downloads'), NEW j \in 1..Len(downloads'),
                        downloads'[i] \in Urls, downloads'[i] = downloads'[j]
                 PROVE  i = j
      BY <2>4
    <3>1. CASE i = 1 /\ j # 1
      BY <1>0, <2>4, <2>5, <3>1
    <3>2. CASE j = 1 /\ i # 1
      BY <1>0, <2>4, <2>5, <3>2
    <3>3. CASE i # 1 /\ j # 1
      <4>1. i - 1 \in DOMAIN downloads /\ j - 1 \in DOMAIN downloads
        BY <1>0, <2>4, <3>3
      <4>2. downloads[i - 1] \in Urls /\ downloads[i - 1] = downloads[j - 1]
        BY <2>4, <3>3
      <4> QED
        BY <4>1, <4>2
    <3> QED
      BY <3>1, <3>2, <3>3
  <2> QED
    BY <1>4, <2>6 DEF Record
<1>5. CASE SaveOpen
  BY <1>5 DEF SaveOpen, volatile
<1>6. CASE SaveClose
  BY <1>6 DEF SaveClose
<1>7. ASSUME statefile' \in PartialWrites(downloads)
      PROVE  OnceEach(statefile')
  BY <1>0, <1>7, PartialLines DEF NamesAssumption
<1>8. CASE SaveFails
  BY <1>7, <1>8 DEF SaveFails
<1>9. CASE Crash
  BY <1>7, <1>9 DEF Crash, Vanish
<1> QED
  BY <1>1, <1>2, <1>3, <1>4, <1>5, <1>6, <1>8, <1>9, WhoWritesLists

\* No URL stands twice in the bucket or in the state file (NoDuplicateEntries),
\* for every set of feeds and every sequence of crashes and failed saves.
THEOREM RecordedOnce ==
    ASSUME NamesAssumption, FlagsAssumption, FeedsAssumption, SizeAssumption
    PROVE  Spec => []NoDuplicateEntries
<1>1. Init => NoDuplicateEntries
  BY DEF Init, Idle, NoDuplicateEntries, OnceEach
<1>2. TypeInv /\ NoDuplicateEntries /\ [Next]_vars => NoDuplicateEntries'
  BY OnceStep
<1>3. Spec => []TypeInv
  BY TypeInvariant
<1> QED
  BY <1>1, <1>2, <1>3, PTL DEF Spec

-----------------------------------------------------------------------------
(* Nothing that is known is fetched again.                                 *)

LEMMA SameKnown ==
    (UNCHANGED downloads => Known' = Known) /\ (UNCHANGED statefile => OnDisk' = OnDisk)
BY DEF Known, OnDisk, has_been_downloaded, bucket_hasURL

\* A start knows what load_state() restores of what is on disk.
LEMMA StartRestores ==
    ASSUME NamesAssumption, statefile \in Seq(Lines), Start
    PROVE  \/ Load /\ Known' = OnDisk \ Unrestorable
           \/ LoadFails /\ Known' = {}
<1> HIDE DEF Entries, Lines
<1>1. CASE Load /\ RestoredFrom(downloads', statefile)
  <2>1. Known' = OnDisk \ Unrestorable
    BY <1>1 DEF RestoredFrom, Known, OnDisk, has_been_downloaded
  <2> QED
    BY <1>1, <2>1
<1>2. CASE LoadFails /\ downloads' = <<>>
  BY <1>2 DEF Known, has_been_downloaded, bucket_hasURL
<1> QED
  BY <1>1, <1>2, StartLoads

\* The process ends: what is on disk and what may be forgotten are all it fetched.
LEMMA RememberedAtEnd ==
    ASSUME Remembered, Vanish, UNCHANGED got, NEW unsaved \in BOOLEAN,
           EndHistory(unsaved),
           ~unsaved => pc # "down" /\ Known \subseteq OnDisk'
    PROVE  Remembered'
<1>1. got' \subseteq OnDisk' \cup forgotten'
  <2>1. CASE unsaved
    BY <2>1 DEF EndHistory
  <2>2. CASE ~unsaved
    BY <2>2 DEF EndHistory, Remembered
  <2> QED
    BY <2>1, <2>2
<1> QED
  BY <1>1 DEF Remembered, StateFileCurrent, Vanish

LEMMA RememberedStep ==
    ASSUME NamesAssumption, TypeInv, Remembered, [Next]_vars
    PROVE  Remembered'
<1> USE SameKnown DEF Remembered, StateFileCurrent, InFlight, Saving, Fetching, url
<1> HIDE DEF Entries, Lines
<1>0. /\ downloads \in Seq(Entries) /\ statefile \in Seq(Lines) /\ queue \in Seq(Urls)
      /\ pc \in Fetching => queue # <<>> /\ ~has_been_downloaded(downloads, url)
      /\ got \subseteq Urls /\ dirty \in BOOLEAN /\ max_bucket_items \in Nat
  BY DEF TypeInv, TypeOK, Control
<1>1. CASE Start
  <2>1. \/ Load /\ Known' = OnDisk \ Unrestorable
        \/ LoadFails /\ Known' = {}
    BY <1>0, <1>1, StartRestores
  <2> QED
    BY <1>1, <2>1 DEF Start, Load, LoadFails
<1>2. CASE BeginPass \/ LeaveLoop \/ EndPass \/ WakeUp \/ FileUnreadable
  BY <1>2 DEF BeginPass, LeaveLoop, EndPass, WakeUp, FileUnreadable, ShutdownPc,
       volatile, history
<1>3. CASE (\E doc \in Listings[1] : ReadFile(doc)) \/ ProcessFeed
  BY <1>3 DEF ReadFile, ProcessFeed, FeedUnavailable, FeedReceived, volatile, history
<1>4. CASE FeedDone \/ SkipUnmatched \/ SkipKnown \/ FoundNew
  BY <1>4 DEF FeedDone, SkipUnmatched, SkipKnown, FoundNew, NextUrl, volatile, history
<1>5. CASE OpenFile \/ OpenFails \/ TransferFailed \/ HttpError
  BY <1>5 DEF OpenFile, OpenFails, TransferFailed, HttpError, NextUrl, volatile, history
<1>6. CASE TransferComplete \/ Announce
  BY <1>6 DEF TransferComplete, Announce, volatile, history
<1>7. CASE ReportMatch
  <2>1. CASE Vanish /\ EndHistory(dirty)
    BY <1>0, <1>7, <2>1, RememberedAtEnd DEF ReportMatch
  <2>2. CASE ~(Vanish /\ EndHistory(dirty))
    BY <1>7, <2>2 DEF ReportMatch, NextUrl
  <2> QED
    BY <2>1, <2>2
<1>8. CASE Record
  <2>1. url \in Urls
    BY <1>0, <1>8, HeadAndTail DEF Record
  <2>2. downloads' = addToBucket(url, downloads, max_bucket_items)
    BY <1>8 DEF Record
  <2>3. Len(downloads') > 0 /\ downloads' \in Seq(Entries) /\ downloads'[1] = url
    <3>1. url \in Entries
      BY <2>1 DEF Entries
    <3> QED
      BY <1>0, <2>2, <3>1, AddToBucket
  <2>4. url \in Known'
    BY <2>1, <2>3 DEF Known, has_been_downloaded, bucket_hasURL
  <2>5. forgotten' = (forgotten \cup { u \in Known : u \notin Known' }) \ {url}
    BY <1>8 DEF Record, Known, has_been_downloaded
  <2> QED
    BY <1>8, <2>4, <2>5 DEF Record
<1>9. CASE SaveOpen \/ SaveOpenFails \/ SaveFails
  BY <1>9 DEF SaveOpen, SaveOpenFails, SaveFails, Saved, volatile, history
<1>10. CASE SaveClose
  <2>1. Known' = OnDisk' /\ Known' = Known
    BY <1>10 DEF SaveClose, Known, OnDisk, has_been_downloaded
  <2> QED
    BY <1>10, <2>1 DEF SaveClose, Saved
<1>11. CASE Exit
  BY <1>0, <1>11, RememberedAtEnd DEF Exit
<1>12. CASE Crash
  <2>1. ~(dirty \/ pc \in {"save", "write"}) => Known \subseteq OnDisk'
    BY <1>12 DEF Crash
  <2> QED
    BY <1>12, <2>1, RememberedAtEnd DEF Crash
<1>13. CASE Signal \/ \E p \in Paths : Collect(p)
  BY <1>13 DEF Signal, Collect, volatile, history
<1>14. CASE UNCHANGED vars
  BY <1>14 DEF vars, volatile, history
<1> QED
  BY <1>1, <1>2, <1>3, <1>4, <1>5, <1>6, <1>7, <1>8, <1>9, <1>10, <1>11, <1>12, <1>13, <1>14
     DEF Next, MainStep, Environment, ProcessDocument, SaveState

\* A fetched URL is fetched again only when the bucket, a crash, a failed save, or
\* a start that could not open the state file or restore a URL of that length has
\* made the daemon forget it (NoNeedlessDownload).
THEOREM FetchedOnce ==
    ASSUME NamesAssumption, FlagsAssumption, FeedsAssumption, SizeAssumption
    PROVE  Spec => [](NoNeedlessDownload /\ StateFileCurrent)
<1>1. Init => Remembered
  BY DEF Init, Idle, Remembered, StateFileCurrent
<1>2. TypeInv /\ Remembered /\ [Next]_vars => Remembered'
  BY RememberedStep
<1>3. TypeInv /\ Remembered => NoNeedlessDownload /\ StateFileCurrent
  BY DEF TypeInv, TypeOK, Control, Remembered, NoNeedlessDownload, InFlight, Known, Fetching
<1>4. Spec => []TypeInv
  BY TypeInvariant
<1> QED
  BY <1>1, <1>2, <1>3, <1>4, PTL DEF Spec

\* Outside save_state(), and unless the last save or the load failed, the state file holds what the
\* bucket holds and nothing else but URLs that load_state() cannot restore, however often the daemon
\* crashes and starts again (StateFileCurrent).
THEOREM StateFileIsCurrent ==
    ASSUME NamesAssumption, FlagsAssumption, FeedsAssumption, SizeAssumption
    PROVE  Spec => []StateFileCurrent
BY FetchedOnce, PTL

-----------------------------------------------------------------------------
(* The bucket is in the order of the records.                              *)

LEMMA OrderedStep ==
    ASSUME NamesAssumption, TypeInv, Ordered, [Next]_vars
    PROVE  Ordered'
<1> USE DEF Ordered, NewestFirst, Saving
<1> HIDE DEF Entries, Lines
<1>0. /\ downloads \in Seq(Entries) /\ queue \in Seq(Urls) /\ dirty \in BOOLEAN
      /\ pc \in Fetching => queue # <<>> /\ ~has_been_downloaded(downloads, url)
      /\ max_bucket_items \in Nat
  BY DEF TypeInv, TypeOK, Control
<1>1. CASE Start
  <2>1. statefile \in Seq(Lines)
    BY DEF TypeInv, TypeOK
  <2>2. RestoredFrom(downloads', statefile) \/ downloads' = <<>>
    BY <1>1, <2>1, StartLoads
  <2>3. OrderOf(downloads') \subseteq OrderOf(statefile)
    BY <2>2 DEF RestoredFrom, OrderOf
  <2> QED
    BY <1>1, <2>3 DEF Start
<1>2. CASE BeginPass \/ LeaveLoop \/ EndPass \/ WakeUp \/ FileUnreadable
             \/ (\E doc \in Listings[1] : ReadFile(doc)) \/ ProcessFeed
  BY <1>2 DEF BeginPass, LeaveLoop, EndPass, WakeUp, FileUnreadable, ShutdownPc, ReadFile,
       ProcessFeed, FeedUnavailable, FeedReceived, volatile, history
<1>3. CASE FeedDone \/ SkipUnmatched \/ SkipKnown \/ FoundNew
  BY <1>3 DEF FeedDone, SkipUnmatched, SkipKnown, FoundNew, NextUrl, volatile, history
<1>4. CASE OpenFile \/ OpenFails \/ TransferFailed \/ HttpError \/ TransferComplete \/ Announce
  BY <1>4 DEF OpenFile, OpenFails, TransferFailed, HttpError, TransferComplete, Announce,
       NextUrl, volatile, history
<1>5. OrderOf(<<>>) = {}
  BY DEF OrderOf
<1>6. CASE ReportMatch
  <2>1. CASE Vanish /\ EndHistory(dirty)
    BY <1>0, <1>5, <1>6, <2>1 DEF ReportMatch, Vanish, EndHistory
  <2>2. CASE ~(Vanish /\ EndHistory(dirty))
    BY <1>6, <2>2 DEF ReportMatch, NextUrl
  <2> QED
    BY <2>1, <2>2
<1>7. CASE Record
  <2>1. url \in Urls /\ url \in Entries
    BY <1>0, <1>7, HeadAndTail DEF Record, Fetching, url, Entries
  <2>2. downloads' = addToBucket(url, downloads, max_bucket_items)
    BY <1>7 DEF Record
  <2>3. /\ downloads' \in Seq(Entries) /\ downloads'[1] = url
        /\ Len(downloads') \in {Len(downloads), Len(downloads) + 1}
        /\ \A i \in 2..Len(downloads') : downloads'[i] = downloads[i - 1]
    <3> DEFINE new == addToBucket(url, downloads, max_bucket_items)
    <3>1. /\ new \in Seq(Entries) /\ new[1] = url
          /\ Len(new) \in {Len(downloads), Len(downloads) + 1}
          /\ \A i \in 2..Len(new) : new[i] = downloads[i - 1]
      BY <1>0, <2>1, AddToBucket
    <3> QED
      BY <2>2, <3>1
  <2>4. newer' = { p \in newer : p[2] # url } \cup { <<url, v>> : v \in Urls \ {url} }
    BY <1>7 DEF Record
  <2>5. \A i \in 1..Len(downloads) : downloads[i] # url
    BY <1>0, <1>7 DEF Record, Fetching, has_been_downloaded, bucket_hasURL
  <2>6. ASSUME NEW p \in OrderOf(downloads')
        PROVE  p \in newer'
    <3>1. PICK i \in DOMAIN downloads', j \in DOMAIN downloads' :
                 i < j /\ downloads'[i] = p[1] /\ downloads'[j] = p[2]
      BY DEF OrderOf
    <3>2. p \in Urls \X Urls /\ p = <<p[1], p[2]>> /\ p[1] \in Urls /\ p[2] \in Urls
      BY DEF OrderOf
    <3>3. /\ i \in 1..Len(downloads') /\ j \in 2..Len(downloads')
          /\ j - 1 \in 1..Len(downloads) /\ p[2] = downloads[j - 1]
      BY <1>0, <2>3, <3>1
    <3>4. p[2] # url
      BY <2>5, <3>3
    <3>5. CASE i = 1
      BY <2>3, <2>4, <3>1, <3>2, <3>4, <3>5
    <3>6. CASE i # 1
      <4>1. i - 1 \in DOMAIN downloads /\ j - 1 \in DOMAIN downloads /\ p[1] = downloads[i - 1]
        BY <1>0, <2>3, <3>1, <3>3, <3>6
      <4>2. p \in OrderOf(downloads)
        BY <3>1, <3>2, <3>3, <4>1 DEF OrderOf
      <4> QED
        BY <2>4, <3>4, <4>2
    <3> QED
      BY <3>5, <3>6
  <2> QED
    BY <1>7, <2>6 DEF Record
<1>8. CASE SaveOpen \/ SaveOpenFails \/ SaveClose \/ SaveFails
  BY <1>8 DEF SaveOpen, SaveOpenFails, SaveClose, SaveFails, Saved, volatile, history
<1>9. CASE Exit
  BY <1>0, <1>5, <1>9 DEF Exit, EndHistory, Vanish
<1>10. CASE Crash
  BY <1>0, <1>5, <1>10 DEF Crash, EndHistory, Vanish
<1>11. CASE Signal \/ \E p \in Paths : Collect(p)
  BY <1>11 DEF Signal, Collect, volatile, history
<1>12. CASE UNCHANGED vars
  BY <1>12 DEF vars, volatile, history
<1> QED
  BY <1>1, <1>2, <1>3, <1>4, <1>6, <1>7, <1>8, <1>9, <1>10, <1>11, <1>12
     DEF Next, MainStep, Environment, ProcessDocument, SaveState

\* The bucket is ordered from the newest record to the oldest, so that the entry
\* addToBucket() drops is the oldest (NewestFirst).
THEOREM OldestGoesFirst ==
    ASSUME NamesAssumption, FlagsAssumption, FeedsAssumption, SizeAssumption
    PROVE  Spec => []NewestFirst
<1>1. Init => Ordered
  BY DEF Init, Idle, Ordered, NewestFirst, OrderOf
<1>2. TypeInv /\ Ordered /\ [Next]_vars => Ordered'
  BY OrderedStep
<1>3. Ordered => NewestFirst
  BY DEF Ordered
<1>4. Spec => []TypeInv
  BY TypeInvariant
<1> QED
  BY <1>1, <1>2, <1>3, <1>4, PTL DEF Spec

-----------------------------------------------------------------------------
(* The history is bounded.                                                 *)

LEMMA TimesMonotone ==
    ASSUME NEW m \in Nat, NEW k \in Nat, NEW n \in Nat, k <= n
    PROVE  k * m <= n * m /\ k * m \in Nat
<1>1. n * m = k * m + (n - k) * m
  OBVIOUS
<1>2. (n - k) * m \in Nat /\ k * m \in Nat
  OBVIOUS
<1> QED
  BY <1>1, <1>2

LEMMA OneMoreTime ==
    ASSUME NEW m \in Nat, NEW k \in Nat, k > 0
    PROVE  k * m = (k - 1) * m + m /\ (k - 1) * m \in Nat
OBVIOUS

LEMMA ModuloOfSmall ==
    ASSUME NEW n \in Nat, NEW m \in Nat, n < m
    PROVE  n % m = n
OBVIOUS

LEMMA UncountedIsNat ==
    ASSUME FeedsAssumption, TypeInv
    PROVE  Uncounted \in Nat
<1>1. feed \in Nat /\ NFeeds \in Nat /\ (InDocument => feed > 0)
  BY DEF TypeInv, TypeOK, Control, FeedsAssumption
<1> QED
  BY <1>1 DEF Uncounted

LEMMA UncountedStaysNat ==
    ASSUME FeedsAssumption, TypeInv'
    PROVE  Uncounted' \in Nat
<1>1. feed' \in Nat /\ NFeeds \in Nat /\ (InDocument' => feed' > 0)
  BY DEF TypeInv, TypeOK, Control, FeedsAssumption
<1>2. Uncounted' \in {NFeeds, feed', 0} \/ (InDocument' /\ Uncounted' = feed' - 1)
  BY Zenon DEF Uncounted
<1> QED
  BY <1>1, <1>2

\* No document is counted here, and no feed becomes uncounted.
LEMMA NothingCounted ==
    ASSUME FeedsAssumption, SizeAssumption, TypeInv, TypeInv', Counted,
           UNCHANGED <<max_bucket_items, xmlfile>>,
           first_run' /\ ~xmlfile => first_run /\ Uncounted' <= Uncounted
    PROVE  /\ max_bucket_items' >= DefaultMax /\ max_bucket_items' <= Bound
           /\ first_run' /\ ~xmlfile' => max_bucket_items' + Uncounted' * MaxCount <= Bound
<1>1. Uncounted \in Nat /\ Uncounted' \in Nat /\ MaxCount \in Nat
  BY UncountedIsNat, UncountedStaysNat DEF FeedsAssumption
<1>2. ASSUME first_run', ~xmlfile
      PROVE  max_bucket_items + Uncounted' * MaxCount <= Bound
  <2> DEFINE a == Uncounted' * MaxCount
             b == Uncounted * MaxCount
  <2>1. a <= b /\ a \in Nat
    BY <1>1, <1>2, TimesMonotone
  <2>2. b \in Nat
    BY <1>1
  <2>3. max_bucket_items + b <= Bound
    BY <1>2 DEF Counted
  <2>4. max_bucket_items \in Nat /\ Bound \in Nat
    BY BoundFits DEF TypeInv, TypeOK
  <2> HIDE DEF a, b
  <2>5. max_bucket_items + a <= Bound
    BY <2>1, <2>2, <2>3, <2>4
  <2> QED
    BY <2>5 DEF a
<1> QED
  BY <1>2 DEF Counted

LEMMA CountedStep ==
    ASSUME NamesAssumption, FeedsAssumption, SizeAssumption,
           TypeInv, TypeInv', Counted, [Next]_vars
    PROVE  Counted'
<1> DEFINE SameXml ==
        /\ pc' \in {"down", "check"} => max_bucket_items' = DefaultMax
        /\ pc' = "feed" => feed' = 0
        /\ pc' = "feed" \/ InDocument' => once'
        /\ InDocument' => feed' = 1
<1>0. /\ Bound \in Nat /\ Bound < CountModulus /\ DefaultMax \in Nat /\ DefaultMax <= Bound
      /\ CountModulus \in Nat /\ NFeeds \in Nat /\ NFeeds > 0 /\ MaxCount \in Nat
      /\ max_bucket_items \in Nat /\ feed \in 0..NFeeds
      /\ xmlfile \in BOOLEAN /\ first_run \in BOOLEAN
  BY BoundFits DEF TypeInv, TypeOK, FeedsAssumption, SizeAssumption
<1>1. ASSUME UNCHANGED <<max_bucket_items, xmlfile>>,
             first_run' /\ ~xmlfile => first_run /\ Uncounted' <= Uncounted,
             xmlfile => SameXml,
             pc' = "sleep" => ~xmlfile /\ ~first_run'
      PROVE  Counted'
  BY <1>1, NothingCounted DEF Counted
<1>2. ASSUME Vanish
      PROVE  Counted'
  <2> DEFINE items == NFeeds * MaxCount
  <2>1. items \in Nat /\ Bound = DefaultMax + items
    BY <1>0 DEF Bound
  <2>2. Uncounted' * MaxCount = items
    BY <1>2 DEF Vanish, Uncounted
  <2> HIDE DEF items
  <2> QED
    BY <1>0, <1>2, <2>1, <2>2 DEF Vanish, Counted
<1> USE DEF Uncounted, InDocument, Fetching, Saving
<1>3. CASE Start
  <2>1. max_bucket_items = DefaultMax /\ Uncounted' = Uncounted /\ first_run' = first_run
    BY <1>3 DEF Start, TypeInv, Control, Idle
  <2>2. Counted'
    <3> DEFINE items == NFeeds * MaxCount
    <3>1. items \in Nat /\ Bound = DefaultMax + items
      BY <1>0 DEF Bound
    <3>2. Uncounted' * MaxCount = items
      BY <1>3 DEF Start
    <3>3. pc' = "check" /\ max_bucket_items' = DefaultMax
      BY <1>3, <2>1 DEF Start
    <3> HIDE DEF items, Uncounted
    <3> QED
      BY <1>0, <3>1, <3>2, <3>3 DEF Counted
  <2> QED
    BY <2>2
<1>4. CASE BeginPass \/ LeaveLoop \/ EndPass \/ WakeUp \/ FileUnreadable
  <2>1. CASE BeginPass
    BY <1>0, <1>1, <2>1 DEF BeginPass, history, Counted
  <2>2. CASE LeaveLoop
    <3>1. queue = <<>> /\ pc' \in {"save", "exit"} /\ UNCHANGED <<queue, first_run, xmlfile, max_bucket_items>>
      BY <2>2 DEF LeaveLoop, ShutdownPc, volatile, TypeInv, Control
    <3>2. Uncounted' = 0 /\ ~InDocument'
      BY <3>1
    <3>3. Uncounted = NFeeds
      BY <2>2 DEF LeaveLoop
    <3>4. Uncounted' <= Uncounted /\ pc' # "sleep"
      <4> HIDE DEF Uncounted, InDocument
      <4> QED
        BY <1>0, <3>1, <3>2, <3>3
    <3>6. xmlfile => SameXml
      BY <3>1, <3>2
    <3>5. first_run' = first_run /\ UNCHANGED <<max_bucket_items, xmlfile>>
      BY <3>1
    <3> QED
      BY <1>1, <3>4, <3>5, <3>6, Zenon
  <2>3. CASE EndPass
    <3>1. /\ queue' = <<>> /\ first_run' = (first_run /\ xmlfile)
          /\ pc' \in {"save", "exit", "sleep"} /\ (pc' = "sleep" => ~once)
          /\ UNCHANGED <<max_bucket_items, xmlfile>>
      BY <2>3 DEF EndPass, ShutdownPc, TypeInv, Control
    <3>2. xmlfile => once
      BY <2>3 DEF EndPass, Counted
    <3>3. Uncounted = 0 /\ Uncounted' = 0 /\ ~InDocument'
      BY <2>3, <3>1 DEF EndPass
    <3>4. ~(first_run' /\ ~xmlfile)
      BY <3>1, Zenon
    <3>5. xmlfile => SameXml
      BY <3>1, <3>2, <3>3
    <3>6. pc' = "sleep" => ~xmlfile /\ ~first_run'
      BY <3>1, <3>2, Zenon
    <3>7. UNCHANGED <<max_bucket_items, xmlfile>>
      BY <3>1
    <3>8. first_run' /\ ~xmlfile => first_run /\ Uncounted' <= Uncounted
      BY <3>4, Zenon
    <3> QED
      BY <1>1, <3>5, <3>6, <3>7, <3>8, Zenon
  <2>4. CASE WakeUp
    <3>1. ~xmlfile /\ ~first_run
      BY <2>4 DEF WakeUp, Counted
    <3> QED
      BY <1>0, <1>1, <2>4, <3>1 DEF WakeUp, volatile
  <2>5. CASE FileUnreadable
    BY <1>0, <1>1, <2>5 DEF FileUnreadable, history, TypeInv, Control, Counted
  <2> QED
    BY <1>4, <2>1, <2>2, <2>3, <2>4, <2>5
<1>5. ASSUME NEW doc \in Listings[1], ReadFile(doc)
      PROVE  Counted'
  <2>1. doc.count \in 0..MaxCount
    BY <1>0 DEF FeedsAssumption
  <2>2. max_bucket_items = DefaultMax
    BY <1>5 DEF ReadFile, Counted
  <2>3. DefaultMax + MaxCount <= Bound
    <3>1. NFeeds * MaxCount = (NFeeds - 1) * MaxCount + MaxCount /\ (NFeeds - 1) * MaxCount \in Nat
      BY <1>0, OneMoreTime
    <3> QED
      BY <1>0, <3>1 DEF Bound
  <2>4. max_bucket_items' = DefaultMax + doc.count
    <3> PICK n : n = DefaultMax + doc.count
      OBVIOUS
    <3>1. n \in Nat /\ n < CountModulus
      BY <1>0, <2>1, <2>3
    <3>2. n % CountModulus = n
      BY <1>0, <3>1, ModuloOfSmall
    <3> QED
      BY <1>5, <2>2, <3>2 DEF ReadFile
  <2>5. pc' = "url" /\ once' /\ xmlfile' /\ feed' = 1
    BY <1>5 DEF ReadFile
  <2>6. max_bucket_items' >= DefaultMax /\ max_bucket_items' <= Bound
    BY <1>0, <2>1, <2>3, <2>4
  <2> QED
    BY <2>5, <2>6 DEF Counted
<1>6. CASE FeedUnavailable
  BY <1>0, <1>1, <1>6 DEF FeedUnavailable, history, Counted
<1>7. ASSUME NEW f \in Feeds, feed = f, NEW doc \in Listings[f], FeedReceived(doc)
      PROVE  Counted'
  <2>1. doc.count \in 0..MaxCount
    BY FeedsAssumption
  <2>2. ~xmlfile
    BY <1>7 DEF FeedReceived, Counted
  <2>3. CASE ~first_run
    BY <1>0, <1>7, <2>2, <2>3 DEF FeedReceived, Counted
  <2>4. CASE first_run
    <3> DEFINE rest == (feed - 1) * MaxCount
    <3>1. feed * MaxCount = rest + MaxCount /\ rest \in Nat
      BY <1>0, <1>7, OneMoreTime DEF FeedReceived
    <3>2. max_bucket_items + feed * MaxCount <= Bound
      BY <1>7, <2>2, <2>4 DEF FeedReceived, Counted
    <3>3. pc' = "url" /\ feed' = feed /\ ~xmlfile'
      BY <1>7, <2>2 DEF FeedReceived
    <3>4. Uncounted' * MaxCount = rest
      BY <3>3
    <3> HIDE DEF rest, Uncounted
    <3>5. max_bucket_items + doc.count + rest <= Bound /\ max_bucket_items + doc.count < CountModulus
      BY <1>0, <2>1, <3>1, <3>2
    <3>6. max_bucket_items' = max_bucket_items + doc.count
      <4> DEFINE n == max_bucket_items + doc.count
      <4>1. n \in Nat /\ n < CountModulus
        BY <1>0, <2>1, <3>5
      <4>2. max_bucket_items' = n % CountModulus
        BY <1>7, <2>4 DEF FeedReceived
      <4> HIDE DEF n
      <4>3. max_bucket_items' = n
        BY <1>0, <4>1, <4>2, ModuloOfSmall
      <4> QED
        BY <4>3 DEF n
    <3> QED
      BY <1>0, <2>1, <3>1, <3>3, <3>4, <3>5, <3>6 DEF Counted
  <2> QED
    BY <1>0, <2>3, <2>4
<1>8. CASE FeedDone
  <2>1. feed > 0 /\ pc' = "feed" /\ feed' = feed - 1
    BY <1>8 DEF FeedDone, TypeInv, Control
  <2>2. xmlfile => once
    BY <1>8 DEF FeedDone, Counted
  <2> QED
    <3>1. UNCHANGED <<max_bucket_items, xmlfile, first_run, once>> /\ pc = "url"
      BY <1>8 DEF FeedDone
    <3>2. Uncounted' = Uncounted /\ ~InDocument'
      BY <2>1, <3>1
    <3>3. xmlfile => feed = 1
      BY <3>1 DEF Counted
    <3> QED
      BY <1>0, <1>1, <2>1, <2>2, <3>1, <3>2, <3>3
<1>17. CASE SkipUnmatched \/ SkipKnown \/ FoundNew
  BY <1>0, <1>1, <1>17 DEF SkipUnmatched, SkipKnown, FoundNew, NextUrl,
       volatile, history, Counted
<1>9. CASE OpenFile \/ OpenFails \/ TransferFailed \/ HttpError \/ TransferComplete \/ Announce
  BY <1>0, <1>1, <1>9 DEF OpenFile, OpenFails, TransferFailed, HttpError, TransferComplete,
       Announce, NextUrl, volatile, history, Counted
<1>10. CASE ReportMatch
  <2>1. CASE Vanish
    BY <1>2, <2>1
  <2>2. CASE ~Vanish
    <3>1. /\ pc = "url" /\ pc' = "url"
          /\ UNCHANGED <<max_bucket_items, first_run, once, xmlfile, feed>>
      BY <1>10, <2>2 DEF ReportMatch, NextUrl
    <3> QED
      BY <1>0, <1>1, <3>1 DEF Counted
  <2> QED
    BY <2>1, <2>2
<1>11. CASE Record
  BY <1>0, <1>1, <1>11 DEF Record, Counted, TypeInv, Control
<1>12. CASE SaveOpen
  BY <1>0, <1>1, <1>12 DEF SaveOpen, volatile, Counted
<1>13. CASE SaveOpenFails \/ SaveClose \/ SaveFails
  BY <1>0, <1>1, <1>13 DEF SaveOpenFails, SaveClose, SaveFails, Saved, Counted
<1>14. CASE Exit \/ Crash
  BY <1>2, <1>14 DEF Exit, Crash
<1>15. CASE Signal \/ \E p \in Paths : Collect(p)
  BY <1>0, <1>1, <1>15 DEF Signal, Collect, volatile, Counted
<1>16. CASE UNCHANGED vars
  BY <1>0, <1>1, <1>16 DEF vars, volatile, Counted
<1> QED
  BY <1>3, <1>4, <1>5, <1>6, <1>7, <1>8, <1>9, <1>10, <1>11, <1>12, <1>13, <1>14, <1>15, <1>16, <1>17
     DEF Next, MainStep, Environment, ProcessFeed, ProcessDocument, SaveState

LEMMA LimitedStep ==
    ASSUME NamesAssumption, FeedsAssumption, SizeAssumption,
           TypeInv, Counted, Limited, [Next]_vars
    PROVE  Limited'
<1> USE DEF Limited
<1> HIDE DEF Entries, Lines
<1>0. /\ downloads \in Seq(Entries) /\ statefile \in Seq(Lines) /\ Bound \in Nat
      /\ max_bucket_items \in Nat /\ max_bucket_items > 0 /\ max_bucket_items <= Bound
  BY BoundFits DEF TypeInv, TypeOK, Counted, SizeAssumption
<1>1. CASE UNCHANGED <<downloads, statefile>>
  BY <1>1
<1>2. CASE Vanish /\ UNCHANGED statefile
  BY <1>0, <1>2 DEF Vanish
<1>3. CASE Start
  <2>1. downloads' \in Seq(Entries) /\ (RestoredFrom(downloads', statefile) \/ downloads' = <<>>)
    BY <1>0, <1>3, StartLoads
  <2>2. Len(downloads') <= Len(statefile) /\ Len(downloads') \in Nat
    BY <1>0, <2>1 DEF RestoredFrom
  <2> QED
    BY <1>0, <1>3, <2>2 DEF Start
<1>4. CASE Record
  <2>1. url \in Entries
    <3>1. queue \in Seq(Urls) /\ queue # <<>>
      BY <1>4 DEF Record, TypeInv, TypeOK, Control, Fetching
    <3> QED
      BY <3>1, HeadAndTail DEF url, Entries
  <2> DEFINE new == addToBucket(url, downloads, max_bucket_items)
  <2>2. /\ Len(new) \in {Len(downloads), Len(downloads) + 1}
        /\ Len(new) > Len(downloads) => Len(new) <= max_bucket_items
    BY <1>0, <2>1, AddToBucket
  <2>3. downloads' = new /\ UNCHANGED statefile
    BY <1>4 DEF Record
  <2> HIDE DEF new
  <2> QED
    BY <1>0, <2>2, <2>3
<1>5. CASE SaveOpen
  BY <1>0, <1>5 DEF SaveOpen, volatile
<1>6. CASE SaveClose
  BY <1>6 DEF SaveClose
<1>7. ASSUME statefile' \in PartialWrites(downloads)
      PROVE  Len(statefile') <= Bound
  <2>1. statefile' \in Seq(Lines) /\ Len(statefile') <= Len(downloads)
    BY <1>0, <1>7, PartialLines
  <2> QED
    BY <1>0, <2>1
<1>8. CASE SaveFails
  BY <1>7, <1>8 DEF SaveFails
<1>9. CASE Crash
  BY <1>0, <1>7, <1>9 DEF Crash, Vanish
<1> QED
  BY <1>1, <1>2, <1>3, <1>4, <1>5, <1>6, <1>8, <1>9, WhoWritesLists

\* The bucket never outgrows the default size plus the items of one document of
\* every feed (HistoryBounded), over any number of polls, restarts and crashes.
THEOREM BoundedHistory ==
    ASSUME NamesAssumption, FlagsAssumption, FeedsAssumption, SizeAssumption
    PROVE  Spec => []HistoryBounded
<1>1. Init => Counted /\ Limited
  <2> DEFINE items == NFeeds * MaxCount
  <2>1. items \in Nat /\ Bound = DefaultMax + items /\ DefaultMax \in Nat
    BY DEF Bound, FeedsAssumption, SizeAssumption
  <2>2. Init => Uncounted * MaxCount = items
    BY DEF Init, Idle, Uncounted
  <2> HIDE DEF items
  <2> QED
    BY <2>1, <2>2 DEF Init, Idle, Counted, Limited
<1>2. TypeInv /\ Counted /\ Limited /\ [Next]_vars => Counted' /\ Limited'
  <2> SUFFICES ASSUME TypeInv, Counted, Limited, [Next]_vars
               PROVE  Counted' /\ Limited'
    OBVIOUS
  <2>1. TypeInv'
    BY TypeStep
  <2> QED
    BY <2>1, CountedStep, LimitedStep
<1>3. Limited => HistoryBounded
  BY DEF Limited, HistoryBounded, Bound
<1>4. Spec => []TypeInv
  BY TypeInvariant
<1> QED
  BY <1>1, <1>2, <1>3, <1>4, PTL DEF Spec

-----------------------------------------------------------------------------
(* Completed files.                                                        *)

\* The path of the URL in hand is free until its file is opened.
PathFree ==
    /\ pc = "open" => folder[PathOf[url]] = "absent"
    /\ pc = "transfer" => folder[PathOf[url]] \in {"absent", "partial"}

LEMMA FolderStep ==
    ASSUME NamesAssumption, TypeInv, PathFree, [Next]_vars
    PROVE  /\ PathFree'
           /\ \A p \in Paths : folder[p] = "complete" => folder'[p] \in {"complete", "absent"}
<1> USE DEF PathFree, url
<1>0. /\ folder \in [Paths -> FileStates]
      /\ pc \in Fetching => url \in Urls /\ PathOf[url] \in Paths
  <2>1. pc \in Fetching => url \in Urls
    BY HeadAndTail DEF TypeInv, TypeOK, Control
  <2> QED
    BY <2>1 DEF TypeInv, TypeOK, Paths
<1>1. CASE Start \/ BeginPass \/ LeaveLoop \/ EndPass \/ WakeUp \/ Exit \/ FileUnreadable \/ Crash
  BY <1>1 DEF Start, BeginPass, LeaveLoop, EndPass, WakeUp, Exit, FileUnreadable, Crash,
       ShutdownPc, Vanish
<1>2. CASE (\E doc \in Listings[1] : ReadFile(doc)) \/ ProcessFeed
  BY <1>2 DEF ReadFile, ProcessFeed, FeedUnavailable, FeedReceived
<1>3. CASE FeedDone \/ SkipUnmatched \/ ReportMatch \/ SkipKnown
  BY <1>3 DEF FeedDone, SkipUnmatched, ReportMatch, SkipKnown, NextUrl, Vanish
<1>4. CASE FoundNew
  BY <1>4 DEF FoundNew, volatile
<1>5. CASE OpenFile
  BY <1>0, <1>5 DEF OpenFile, volatile, Fetching
<1>6. CASE OpenFails \/ HttpError \/ TransferFailed
  BY <1>0, <1>6 DEF OpenFails, HttpError, TransferFailed, NextUrl, Fetching
<1>7. CASE TransferComplete
  BY <1>0, <1>7 DEF TransferComplete, Fetching
<1>8. CASE Announce \/ Record \/ SaveState
  BY <1>8 DEF Announce, Record, SaveState, SaveOpen, SaveOpenFails, SaveClose, SaveFails, Saved
<1>9. CASE Signal
  BY <1>9 DEF Signal, volatile
<1>10. ASSUME NEW p \in Paths, Collect(p)
       PROVE  /\ PathFree'
              /\ \A q \in Paths : folder[q] = "complete" => folder'[q] \in {"complete", "absent"}
  BY <1>0, <1>10 DEF Collect, volatile, Fetching
<1>11. CASE UNCHANGED vars
  BY <1>11 DEF vars, volatile
<1> QED
  BY <1>1, <1>2, <1>3, <1>4, <1>5, <1>6, <1>7, <1>8, <1>9, <1>10, <1>11
     DEF Next, MainStep, Environment, ProcessDocument

\* The daemon never overwrites a completed file (NeverClobber), for every
\* assignment of paths to URLs.
THEOREM CompletedFilesStay ==
    ASSUME NamesAssumption, FlagsAssumption, FeedsAssumption, SizeAssumption
    PROVE  Spec => NeverClobber
<1>1. Init => PathFree
  BY DEF Init, PathFree
<1>2. TypeInv /\ PathFree /\ [Next]_vars => PathFree'
  BY FolderStep
<1>3. TypeInv /\ PathFree /\ [Next]_vars =>
        [\A p \in Paths : folder[p] = "complete" => folder'[p] \in {"complete", "absent"}]_vars
  BY FolderStep
<1>4. Spec => []TypeInv
  BY TypeInvariant
<1> QED
  BY <1>1, <1>2, <1>3, <1>4, PTL DEF Spec, NeverClobber

(***************************************************************************)
(* The daemon implements DownloadOnce, for every number of feeds, every set *)
(* of URLs and every document: each step of Trailermatic is a step of the   *)
(* promise or is not seen in it. What is known is the bucket.              *)
(***************************************************************************)

\* A step that leaves the lists alone and what is in hand is not seen.
LEMMA NotSeen ==
    ASSUME UNCHANGED <<downloads, statefile>>, pc # "down", pc' # "down", InHand' = InHand
    PROVE  UNCHANGED Promise!vars
BY SameKnown DEF Promise!vars, InHand, Fetching

\* What is in hand is a URL that the bucket does not have.
LEMMA HandHolds ==
    ASSUME NamesAssumption, TypeInv, pc \in Fetching
    PROVE  url \in Urls /\ url # Torn /\ url \notin Known /\ queue # <<>>
<1>1. queue \in Seq(Urls) /\ queue # <<>> /\ ~has_been_downloaded(downloads, url)
  BY DEF TypeInv, TypeOK, Control
<1>2. url \in Urls
  BY <1>1, HeadAndTail DEF url
<1> QED
  BY <1>1, <1>2 DEF NamesAssumption, Known

\* No process: nothing is known and nothing is in hand.
LEMMA EndKnowsNothing ==
    ASSUME Vanish
    PROVE  Known' = {} /\ InHand' = Torn
BY DEF Vanish, Known, InHand, has_been_downloaded, bucket_hasURL

\* The process ends without touching the state file.
LEMMA EndIsStop ==
    ASSUME pc # "down", Vanish, UNCHANGED statefile
    PROVE  Promise!Stop
BY SameKnown, EndKnowsNothing DEF Vanish, Promise!Stop

\* A download that ends without a record.
LEMMA EndsIsAbandon ==
    ASSUME NamesAssumption, TypeInv, pc \in Fetching, pc' = "url",
           UNCHANGED <<downloads, statefile>>
    PROVE  Promise!Abandon
BY HandHolds, SameKnown DEF Promise!Abandon, InHand, Fetching

\* Any part of the bucket, written out, is part of what is known.
LEMMA WrittenIsKnown ==
    ASSUME NamesAssumption, TypeInv, statefile' \in PartialWrites(downloads) \cup {downloads}
    PROVE  OnDisk' \subseteq Known
<1> HIDE DEF Entries, Lines
<1>1. downloads \in Seq(Entries)
  BY DEF TypeInv, TypeOK
<1>2. \A i \in DOMAIN statefile' :
        statefile'[i] \in Urls => i \in DOMAIN downloads /\ statefile'[i] = downloads[i]
  <2>1. CASE statefile' = downloads
    BY <2>1
  <2>2. CASE statefile' \in PartialWrites(downloads)
    <3>1. /\ statefile' \in Seq(Lines) /\ Len(statefile') <= Len(downloads)
          /\ \A i \in DOMAIN statefile' : statefile'[i] = downloads[i] \/ statefile'[i] = Torn
      BY <1>1, <2>2, PartialLines
    <3> QED
      BY <1>1, <3>1 DEF NamesAssumption
  <2> QED
    BY <2>1, <2>2
<1> QED
  BY <1>2 DEF OnDisk, Known, has_been_downloaded, bucket_hasURL

\* addToBucket() makes the URL known and pushes at most one other out.
LEMMA RecordIsFinish ==
    ASSUME NamesAssumption, TypeInv, Record
    PROVE  Promise!Finish
<1> HIDE DEF Entries, Lines
<1>1. url \in Urls /\ url # Torn /\ url \notin Known
  BY HandHolds DEF Record, Fetching
<1>2. downloads \in Seq(Entries) /\ max_bucket_items \in Nat
  BY DEF TypeInv, TypeOK
<1>3. /\ downloads' \in Seq(Entries) /\ Len(downloads') \in {Len(downloads), Len(downloads) + 1}
      /\ Len(downloads') > 0 /\ downloads'[1] = url
      /\ \A i \in 2..Len(downloads') : downloads'[i] = downloads[i - 1]
  <2>1. downloads' = addToBucket(url, downloads, max_bucket_items) /\ url \in Entries
    BY <1>1 DEF Record, Entries
  <2> QED
    BY <1>2, <2>1, AddToBucket
<1> DEFINE old == Known \ Known'
<1>4. Known' = (Known \ old) \cup {url}
  <2>1. url \in Known'
    BY <1>1, <1>3 DEF Known, has_been_downloaded, bucket_hasURL
  <2>2. ASSUME NEW u \in Known', u # url PROVE u \in Known
    <3>1. PICK i \in DOMAIN downloads' : downloads'[i] = u
      BY <2>2 DEF Known, has_been_downloaded, bucket_hasURL
    <3>2. i \in 2..Len(downloads')
      BY <1>3, <2>2, <3>1
    <3>3. i - 1 \in DOMAIN downloads /\ downloads[i - 1] = u
      BY <1>2, <1>3, <3>1, <3>2
    <3> QED
      BY <2>2, <3>3 DEF Known, has_been_downloaded, bucket_hasURL
  <2> QED
    BY <2>1, <2>2
<1>5. \E v : old \subseteq {v}
  <2>1. ASSUME NEW u \in old PROVE Len(downloads) > 0 /\ u = downloads[Len(downloads)]
    <3>1. PICK i \in DOMAIN downloads : downloads[i] = u
      BY <2>1 DEF Known, has_been_downloaded, bucket_hasURL
    <3>2. ~(i + 1 \in DOMAIN downloads')
      <4>1. ASSUME i + 1 \in DOMAIN downloads' PROVE FALSE
        <5>1. downloads'[i + 1] = u
          BY <1>2, <1>3, <3>1, <4>1
        <5> QED
          BY <2>1, <4>1, <5>1 DEF Known, has_been_downloaded, bucket_hasURL
      <4> QED
        BY <4>1
    <3>3. i = Len(downloads)
      BY <1>2, <1>3, <3>1, <3>2
    <3> QED
      BY <1>2, <3>1, <3>3
  <2> QED
    BY <2>1
<1>6. \/ Known' = Known \cup {url}
      \/ \E v \in Known : Known' = (Known \ {v}) \cup {url}
  <2>1. old = {} \/ \E v \in Known : old = {v}
    BY <1>5
  <2> HIDE DEF old
  <2> QED
    BY <1>4, <2>1
<1>7. pc = "record" /\ pc' = "save" /\ UNCHANGED statefile
  BY DEF Record
<1>8. OnDisk' = OnDisk
  BY <1>7, SameKnown
<1> HIDE DEF old
<1> QED
  BY <1>1, <1>6, <1>7, <1>8 DEF Promise!Finish, InHand

LEMMA StepKeepsPromise ==
    ASSUME NamesAssumption, TypeInv, [Next]_vars
    PROVE  [Promise!Next]_(Promise!vars)
<1> USE DEF InHand, Fetching
<1> HIDE DEF Entries, Lines
<1>1. CASE Start
  <2>1. OnDisk' = OnDisk /\ pc = "down" /\ pc' = "check"
    BY <1>1, SameKnown DEF Start
  <2>2. Known' = OnDisk \ Unrestorable \/ (IOFaults /\ Known' = {})
    BY <1>1, StartRestores DEF TypeInv, TypeOK, LoadFails
  <2>3. Promise!Start
    BY <2>1, <2>2 DEF Promise!Start
  <2> QED
    BY <2>3 DEF Promise!Next
<1>2. CASE BeginPass \/ LeaveLoop \/ EndPass \/ WakeUp \/ FileUnreadable
  BY <1>2, NotSeen DEF BeginPass, LeaveLoop, EndPass, WakeUp, FileUnreadable, ShutdownPc, volatile
<1>3. CASE (\E doc \in Listings[1] : ReadFile(doc)) \/ ProcessFeed
  BY <1>3, NotSeen DEF ReadFile, ProcessFeed, FeedUnavailable, FeedReceived
<1>4. CASE FeedDone \/ SkipUnmatched \/ SkipKnown
  BY <1>4, NotSeen DEF FeedDone, SkipUnmatched, SkipKnown, NextUrl
<1>5. CASE ReportMatch
  <2>1. CASE Vanish
    <3>1. UNCHANGED statefile /\ pc = "url"
      BY <1>5 DEF ReportMatch
    <3> QED
      BY <2>1, <3>1, EndIsStop DEF Promise!Next
  <2>2. CASE ~Vanish
    BY <1>5, <2>2, NotSeen DEF ReportMatch, NextUrl
  <2> QED
    BY <2>1, <2>2
<1>6. CASE FoundNew
  <2>1. url \in Urls
    <3>1. queue \in Seq(Urls) /\ queue # <<>>
      BY <1>6 DEF FoundNew, TypeInv, TypeOK
    <3> QED
      BY <3>1, HeadAndTail DEF url
  <2>2. url \notin Known /\ Known' = Known /\ OnDisk' = OnDisk /\ url' = url
    BY <1>6, SameKnown DEF FoundNew, Known, volatile, url
  <2>3. pc = "url" /\ pc' = "open"
    BY <1>6 DEF FoundNew
  <2>4. Promise!Begin(url)
    BY <2>2, <2>3 DEF Promise!Begin
  <2> QED
    BY <2>1, <2>4 DEF Promise!Next
<1>7. CASE OpenFile \/ TransferComplete \/ Announce
  BY <1>7, NotSeen DEF OpenFile, TransferComplete, Announce, volatile, history, url
<1>8. CASE OpenFails \/ TransferFailed \/ HttpError
  <2>1. pc \in Fetching /\ pc' = "url" /\ UNCHANGED <<downloads, statefile>>
    BY <1>8 DEF OpenFails, TransferFailed, HttpError, NextUrl
  <2> QED
    BY <2>1, EndsIsAbandon DEF Promise!Next
<1>9. CASE Record
  BY <1>9, RecordIsFinish DEF Promise!Next
<1>10. CASE SaveOpenFails
  BY <1>10, NotSeen DEF SaveOpenFails, Saved
<1>11. CASE SaveOpen \/ SaveClose \/ SaveFails
  <2>1. pc \in {"save", "write"} /\ pc' \in {"write", "exit", "url"} /\ UNCHANGED downloads
    BY <1>11 DEF SaveOpen, SaveClose, SaveFails, Saved, volatile
  <2>2. OnDisk' \subseteq Known
    <3>1. CASE SaveOpen
      BY <3>1 DEF SaveOpen, OnDisk, bucket_hasURL
    <3>2. CASE SaveClose \/ SaveFails
      BY <3>2, WrittenIsKnown DEF SaveClose, SaveFails
    <3> QED
      BY <1>11, <3>1, <3>2
  <2>3. Known' = Known
    BY <2>1, SameKnown
  <2>4. Promise!Save
    BY <2>1, <2>2, <2>3 DEF Promise!Save
  <2> QED
    BY <2>4 DEF Promise!Next
<1>12. CASE Exit
  <2>1. pc # "down" /\ Vanish /\ UNCHANGED statefile
    BY <1>12 DEF Exit
  <2> QED
    BY <2>1, EndIsStop DEF Promise!Next
<1>13. CASE Crash
  <2>1. CASE pc = "write"
    <3>1. pc' = "down" /\ OnDisk' \subseteq Known
      BY <1>13, <2>1, WrittenIsKnown DEF Crash, Vanish
    <3>2. Known' = {} /\ InHand' = Torn
      BY <1>13, EndKnowsNothing DEF Crash
    <3>3. Promise!Stop
      BY <2>1, <3>1, <3>2 DEF Promise!Stop
    <3> QED
      BY <3>3 DEF Promise!Next
  <2>2. CASE pc # "write"
    <3>1. pc # "down" /\ Vanish /\ UNCHANGED statefile
      BY <1>13, <2>2 DEF Crash
    <3> QED
      BY <3>1, EndIsStop DEF Promise!Next
  <2> QED
    BY <2>1, <2>2
<1>14. CASE Signal
  BY <1>14, NotSeen DEF Signal, volatile, url
<1>15. CASE (\E p \in Paths : Collect(p)) \/ UNCHANGED vars
  <2>1. UNCHANGED <<pc, downloads, statefile, queue>>
    BY <1>15 DEF Collect, vars, volatile
  <2>2. Known' = Known /\ OnDisk' = OnDisk
    BY <2>1, SameKnown
  <2> QED
    BY <2>1, <2>2 DEF Promise!vars, url
<1> QED
  BY <1>1, <1>2, <1>3, <1>4, <1>5, <1>6, <1>7, <1>8, <1>9, <1>10, <1>11, <1>12, <1>13, <1>14, <1>15
     DEF Next, MainStep, Environment, ProcessDocument, SaveState

\* The daemon implements DownloadOnce (KeepsPromise), over kills at every point, failing file
\* operations and documents that change: an item is fetched only while it is not known, a finished
\* fetch pushes at most one older item out, and a restart goes on with what is on disk and can be
\* restored, or with nothing when the state file cannot be opened.
THEOREM ImplementsDownloadOnce ==
    ASSUME NamesAssumption, FlagsAssumption, FeedsAssumption, SizeAssumption
    PROVE  Spec => KeepsPromise
<1>1. Init => Promise!Init
  <2> SUFFICES ASSUME Init PROVE Promise!Init
    OBVIOUS
  <2>1. pc = "down" /\ statefile = <<>> /\ downloads = <<>>
    BY DEF Init, Idle
  <2>2. OnDisk = {} /\ Known = {}
    BY <2>1 DEF OnDisk, Known, has_been_downloaded, bucket_hasURL
  <2> QED
    BY <2>1, <2>2 DEF Promise!Init, InHand
<1>2. TypeInv /\ [Next]_vars => [Promise!Next]_(Promise!vars)
  BY StepKeepsPromise
<1>3. Spec => []TypeInv
  BY TypeInvariant
<1> QED
  BY <1>1, <1>2, <1>3, PTL DEF Spec, KeepsPromise, Promise!Spec

=============================================================================
