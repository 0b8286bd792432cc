----------------------------- MODULE ConfigFile -----------------------------
(***************************************************************************)
(* config_parser.c: parse_config_file() reads the whole file into one block *)
(* and walks through it, setting each option as soon as its parameter has   *)
(* been read. The text is a sequence of characters; a word like "interval" *)
(* counts as one of them, so lengths are lengths in words. The block has    *)
(* one byte more than the file, which nobody writes: garbage.               *)
(***************************************************************************)
EXTENDS SequencesExt, Integers

CONSTANTS
    Files,              \* the files: [lines |-> sequence of lines, rest |-> text after the last newline]
    Garbage,            \* what the byte behind the text may be
    Digits,             \* the words that are digits, with their values (a function)
    HomeFolder,
    DefaultFolder, DefaultStatefile, AM_DEFAULT_INTERVAL,
    MAX_OPT_LEN, MAX_PARAM_LEN, MAXPATHLEN,
    IntervalWidth       \* the values of uint8_t check_interval

ASSUME ConfigAssumption ==
    /\ MAX_OPT_LEN \in Nat \ {0} /\ MAX_PARAM_LEN \in Nat \ {0} /\ MAXPATHLEN \in Nat
    /\ IntervalWidth \in Nat \ {0} /\ AM_DEFAULT_INTERVAL \in 1 .. IntervalWidth - 1
    /\ \A d \in DOMAIN Digits : Digits[d] \in 0 .. 9
    /\ \A f \in Files : /\ [i \in DOMAIN f.lines |-> f.lines[i].text] \in Seq(Seq(STRING))
                        /\ f.rest \in Seq(STRING)

VARIABLES
    pc,             \* line, comment, option, equals, value, set, parts; returned; crashed: the code
                    \* has done something undefined, and anything may follow
    file, text, garbage,
    line_pos,       \* as in the code, from 0
    opt, param,
    parse_error,
    parts,          \* the parts of the parameter that set_option() has not seen yet
    entry,          \* the feed or the filter these parts describe: its value and its extra
    session         \* the fields of auto_handle that the file sets

input == <<file, text, garbage>>
reader == <<line_pos, opt, param, parse_error>>
setting == <<parts, entry, session>>
vars == <<pc, input, reader, setting>>

NULL == <<"NULL">>

session_init ==
    [feeds |-> <<>>, filters |-> <<>>, check_interval |-> AM_DEFAULT_INTERVAL,
     download_folder |-> DefaultFolder, statefile |-> DefaultStatefile,
     prowl_key |-> NULL, download_done_script |-> NULL]

Contents(f) == FlattenSeq([i \in DOMAIN f.lines |-> f.lines[i].text]) \o f.rest

\* An empty file is an error like a missing one: fread() of a block of 0 bytes returns 0.
Init == /\ pc = "line" /\ file \in Files /\ text = Contents(file) /\ garbage \in Garbage
        /\ line_pos = 0 /\ opt = <<>> /\ param = <<>>
        /\ parse_error = (text = <<>>) /\ parts = <<>> /\ entry = NULL /\ session = session_init

-----------------------------------------------------------------------------
(* Characters.                                                             *)

Space == " "
Newline == "\n"
Control == "^A"        \* any character that isprint() and isspace() refuse, the end of a string, too
Quotes == {"\"", "'"}
AM_DELIMITER == "|"     \* a character that no file contains

isspace(c) == c \in {Space, Newline}
isprint(c) == c \notin {Newline, Control}

Size == Len(text)
At(p) == IF p < Size THEN text[p + 1] ELSE garbage

\* The first of the positions that stop a loop, limit if there is none.
FirstOf(stops, limit) == IF stops = {} THEN limit ELSE Min(stops)

Between(p, q) == [i \in 1 .. q - p |-> At(p + i - 1)]

\* Where a run of white space ends. Blanks up to the end of the text end the parse wherever
\* the garbage behind it leads to.
Skipped(p) ==
    CHOOSE q \in p .. Max({p, Size}) :
        (q >= Size \/ ~isspace(At(q))) /\ \A r \in p .. q - 1 : isspace(At(r))

-----------------------------------------------------------------------------
(* Parameters of several parts.                                            *)

\* What a loop over seq makes of base. A step gets the value so far as @, which TLC evaluates once.
Folded(Step(_, _), base, seq) ==
    LET folded[n \in 0 .. Len(seq)] == IF n = 0 THEN base
                                    ELSE [<< folded[n - 1] >> EXCEPT ![1] = Step(@, seq[n])][1]
    IN  folded[Len(seq)]

\* shorten(): the parts of a parameter, quoted or up to the end of their line, one delimiter
\* between two parts. mode is the place in the loop: blank, plain or the quote that is open.
ShortenedBy(acc, c) ==
    LET begun == IF acc.str = <<>> THEN <<>> ELSE Append(acc.str, AM_DELIMITER)
    IN CASE acc.mode = "blank" /\ isspace(c) -> acc
         [] acc.mode = "blank" /\ c \in Quotes -> [str |-> begun, mode |-> c]
         [] acc.mode = "blank" /\ ~isspace(c) /\ c \notin Quotes -> [str |-> Append(begun, c), mode |-> "plain"]
         [] acc.mode # "blank" /\ c \in {Newline, acc.mode} -> [acc EXCEPT !.mode = "blank"]
         [] OTHER -> [acc EXCEPT !.str = Append(@, c)]

shorten(str) == Folded(ShortenedBy, [str |-> <<>>, mode |-> "blank"], str).str

\* strtok() by AM_DELIMITER: the parts that are not empty.
SplitBy(tokens, c) == IF c = AM_DELIMITER THEN Append(tokens, <<>>)
                                          ELSE Append(Front(tokens), Append(Last(tokens), c))

Tokens(str) ==
    LET all == Folded(SplitBy, << <<>> >>, str)
    IN  FlattenSeq([i \in DOMAIN all |-> IF all[i] = <<>> THEN <<>> ELSE << all[i] >>])

\* am_strdup() of an empty string is NULL.
OrNull(str) == IF str = <<>> THEN NULL ELSE str

\* parseSubOption(): the place of the first "=>", 0 if there is none; the text before it without its
\* last character, for the code counts on a space there; the text after it.
Arrow(line) ==
    LET arrows == {i \in 1 .. Len(line) - 1 : line[i] = "=" /\ line[i + 1] = ">"}
    IN  IF arrows = {} THEN 0 ELSE Min(arrows)
SubOption(line) == SubSeq(line, 1, Arrow(line) - 2)
SubParam(line) == SubSeq(line, Arrow(line) + 2, Len(line))

IsSubOption(line, name) ==
    /\ Arrow(line) # 0 /\ SubParam(line) # <<>>
    /\ SubOption(line) # <<>> /\ SubOption(line)[1] = name

-----------------------------------------------------------------------------
(* set_option().                                                           *)

\* getRegExMatch(":COOKIE:(.+)").
CookiesInURL(url) ==
    LET i == SelectInSeq(url, LAMBDA c : c = ":COOKIE:")
    IN  IF i = 0 THEN NULL ELSE OrNull(SubSeq(url, i + 1, Len(url)))

\* feed_add(): in front, numbered by the feeds that are there.
WithFeed(feeds, url, cookies) ==
    << [id |-> Len(feeds), url |-> url,
        cookies |-> IF cookies = NULL THEN CookiesInURL(url) ELSE cookies] >> \o feeds

\* Mutant: filters at the end of the list.
WithFilterLast(filters, pattern, agent) == Append(filters, [pattern |-> pattern, agent |-> agent])

\* filter_add().
WithFilter(filters, pattern, agent) == << [pattern |-> pattern, agent |-> agent] >> \o filters

\* set_path(), resolve_path(): paths of one or two characters are not taken, nor those that are too
\* long themselves.
IsPath(path) == Len(path) \in 3 .. MAXPATHLEN - 1
Path(old, path) ==
    CASE ~IsPath(path) -> old
      [] IsPath(path) /\ path[1] = "~" /\ path[2] = "/" -> HomeFolder \o Tail(path)
      [] OTHER -> path

\* parseUInt(): -1 for all but positive decimal numbers.
parseUInt(str) ==
    LET number[n \in 0 .. Len(str)] == IF n = 0 THEN 0 ELSE 10 * number[n - 1] + Digits[str[n]]
        value == number[Len(str)]
    IN  IF ToSet(str) \subseteq DOMAIN Digits /\ str # <<>> THEN (IF value > 0 THEN value ELSE -1) ELSE -1

\* Mutant: the interval is not cut to its byte.
IntervalWide(old, str) == IF parseUInt(str) > 0 THEN parseUInt(str) ELSE old

\* 0 counts as no number, so the interval stays; what is stored is a byte.
Interval(old, str) == IF parseUInt(str) > 0 THEN parseUInt(str) % IntervalWidth ELSE old

\* The options of one value.
set_option(s) ==
    CASE opt = <<"interval">> -> [s EXCEPT !.check_interval = Interval(@, param)]
      [] opt = <<"download-folder">> -> [s EXCEPT !.download_folder = Path(@, param)]
      [] opt = <<"statefile">> -> [s EXCEPT !.statefile = Path(@, param)]
      [] opt = <<"prowl-apikey">> -> [s EXCEPT !.prowl_key = OrNull(param)]
      [] opt = <<"download-done-script">> -> [s EXCEPT !.download_done_script = OrNull(param)]
      [] OTHER -> s

Lists == {<<"url">>, <<"patterns">>}
Entries == {<<"feed">>, <<"filter">>}

Folders == {<<"download-folder">>, <<"statefile">>}

SetParameter ==
    IF opt \in Lists \cup Entries
    THEN /\ \E str \in {shorten(param)} : parts' = Tokens(str)
         /\ pc' = "parts" /\ UNCHANGED session
    ELSE session' = set_option(session) /\ pc' = "line" /\ UNCHANGED parts

\* What the code leaves undefined: strtok() of a list without parts, which am_strdup() made NULL,
\* with nothing or the list before to go on with; a path that is too long for the buffer of
\* resolve_path() once the home folder stands for its "~".
Undefined(name, str) ==
    \/ name \in Lists \cup Entries /\ shorten(str) = <<>>
    \/ name \in Folders /\ Len(Path(<<>>, str)) >= MAXPATHLEN

\* The parts have to be shorter than the buffer they are collected in, which an assertion checks.
SetOption ==
    /\ pc = "set"
    /\ \/ SetParameter
       \/ /\ \/ Undefined(opt, param)
             \/ opt \in Lists \cup Entries /\ Len(shorten(param)) >= MAX_PARAM_LEN
          /\ pc' = "crashed" /\ UNCHANGED <<parts, session>>
    /\ UNCHANGED <<input, reader, entry>>
\* getFeeds(), addPatterns_old(): every part is a feed or a filter.
ListPart ==
    /\ pc = "parts" /\ parts # <<>> /\ opt \in Lists
    /\ session' = IF opt = <<"url">> THEN [session EXCEPT !.feeds = WithFeed(@, Head(parts), NULL)]
                                     ELSE [session EXCEPT !.filters = WithFilter(@, Head(parts), NULL)]
    /\ parts' = Tail(parts)
    /\ UNCHANGED <<pc, input, reader, entry>>

newEntry == [value |-> NULL, extra |-> NULL]
FieldNames == IF opt = <<"feed">> THEN [value |-> "url", extra |-> "cookies"]
                                  ELSE [value |-> "pattern", extra |-> "useragent"]

\* parseFeed(), parseFilter(): every part is a suboption, and one that is not is left out. The
\* name of a part that begins with "=>" has -1 characters, which am_strndup() cannot copy.
EntryPart ==
    /\ pc = "parts" /\ parts # <<>> /\ opt \in Entries
    /\ LET line == Head(parts)
           filled == IF entry = NULL THEN newEntry ELSE entry
       IN  IF Arrow(line) = 1
           THEN pc' = "crashed" /\ UNCHANGED entry
           ELSE /\ entry' = [f \in DOMAIN filled |->
                                IF IsSubOption(line, FieldNames[f]) THEN OrNull(shorten(SubParam(line)))
                                                                    ELSE filled[f]]
                /\ UNCHANGED pc
    /\ parts' = Tail(parts)
    /\ UNCHANGED <<input, reader, session>>

\* A feed without a url and a filter without a pattern are dropped.
EndParts ==
    /\ pc = "parts" /\ parts = <<>> /\ pc' = "line"
    /\ session' =
         CASE entry = NULL \/ entry.value = NULL -> session
           [] opt = <<"feed">> /\ entry # NULL /\ entry.value # NULL
                -> [session EXCEPT !.feeds = WithFeed(@, entry.value, entry.extra)]
           [] OTHER -> [session EXCEPT !.filters = WithFilter(@, entry.value, entry.extra)]
    /\ entry' = NULL
    /\ UNCHANGED <<input, reader, parts>>

-----------------------------------------------------------------------------
(* parse_config_file().                                                    *)

Return == pc' = "returned" /\ UNCHANGED reader
Fail == pc' = "returned" /\ parse_error' = TRUE /\ UNCHANGED <<line_pos, opt, param>>
Goto(step, p) == pc' = step /\ line_pos' = p

\* White space, and the end of the text wherever it is found.
BeginLine ==
    /\ pc = "line"
    /\ LET p == Skipped(line_pos) IN
         IF p >= Size
         THEN Return
         ELSE Goto(IF At(p) = "#" THEN "comment" ELSE "option", p) /\ UNCHANGED <<opt, param, parse_error>>
    /\ UNCHANGED <<input, setting>>

\* Mutant: the newline is left for the next line.
SkipCommentStuck ==
    /\ pc = "comment" /\ Goto("line", line_pos)
    /\ UNCHANGED <<opt, param, parse_error, input, setting>>

\* A comment without a newline is searched for one beyond the block: the parse ends when one is
\* found there, and nobody knows whether one is.
SkipComment ==
    /\ pc = "comment"
    /\ LET p == FirstOf({q \in line_pos .. Size : At(q) = Newline}, Size + 1) IN
         \/ Goto("line", p + 1)
         \/ p > Size /\ Goto("crashed", p)
    /\ UNCHANGED <<opt, param, parse_error, input, setting>>

\* A name is copied to its end, and the byte behind the text with it; if it is too long the parse
\* fails afterwards. One that is two longer than that has been copied beyond opt.
ReadOption ==
    /\ pc = "option"
    /\ LET p == FirstOf({q \in line_pos .. Size : ~isprint(At(q)) \/ At(q) \in {Space, "#", "="}}, Size + 1)
           len == p - line_pos
       IN  /\ opt' = Between(line_pos, p)
           /\ IF len = 0 \/ len >= MAX_OPT_LEN
              THEN /\ parse_error' = TRUE /\ UNCHANGED line_pos
                   /\ pc' = "returned" \/ (len > MAX_OPT_LEN + 1 /\ pc' = "crashed")
              ELSE Goto("equals", p) /\ UNCHANGED parse_error
    /\ UNCHANGED <<param, input, setting>>

\* A name at the end of the text is no error.
ReadEquals ==
    /\ pc = "equals"
    /\ LET p == Skipped(line_pos) IN
         CASE p >= Size -> Return
           [] p < Size /\ At(p) # "=" -> Fail
           [] OTHER -> Goto("value", p + 1) /\ UNCHANGED <<opt, param, parse_error>>
    /\ UNCHANGED <<input, setting>>

\* A parameter from p up to the character that closes it; at a character in breaks, at the end of
\* the text or of the buffer it is an error.
Closed(p, closing, breaks) ==
    LET limit == Min({p + MAX_PARAM_LEN, Size})
        q == FirstOf({r \in p .. limit - 1 : At(r) \in {closing} \cup breaks}, limit)
    IN  IF At(q) = closing
        THEN Goto("set", q + 1) /\ param' = Between(p, q) /\ UNCHANGED <<opt, parse_error>>
        ELSE Fail

ReadQuoted(p) == At(p) \in Quotes /\ Closed(p + 1, At(p), {Newline})

ReadBraced(p) == At(p) = "{" /\ Closed(p + 1, "}", {})

\* A word; at the end of the text the garbage behind it may become its last character.
ReadPlain(p) ==
    LET q == FirstOf({r \in p .. Size : ~isprint(At(r)) \/ At(r) \in {Space, "#"}}, Size + 1)
    IN  /\ At(p) \notin Quotes \cup {"{"}
        /\ IF q - p >= MAX_PARAM_LEN
           THEN Fail
           ELSE Goto("set", q) /\ param' = Between(p, q) /\ UNCHANGED <<opt, parse_error>>

ReadParam ==
    /\ pc = "value"
    /\ LET p == Skipped(line_pos) IN
         IF p >= Size THEN Return ELSE ReadQuoted(p) \/ ReadBraced(p) \/ ReadPlain(p)
    /\ UNCHANGED <<input, setting>>

Next == \/ BeginLine \/ SkipComment \/ ReadOption \/ ReadEquals \/ ReadParam
        \/ SetOption \/ ListPart \/ EntryPart \/ EndParts

Spec == Init /\ [][Next]_vars /\ WF_vars(Next)

-----------------------------------------------------------------------------
(* The lines of a file: what each of them is written for, and that this can *)
(* be told from the line alone.                                            *)

Blanks(s, a, b) == \A k \in a .. b : isspace(s[k])
FirstWord(s, a, b) == b \in a .. Len(s) /\ ~isspace(s[b]) /\ Blanks(s, a, b - 1)
InWord(c) == isprint(c) /\ c \notin {Space, "#"}
InName(c) == InWord(c) /\ c # "="

\* White space from place a on, and a comment up to the end of the line.
EndsAt(s, a) ==
    \/ Blanks(s, a, Len(s))
    \/ /\ s[Len(s)] = Newline
       /\ \E b \in a .. Len(s) : FirstWord(s, a, b) /\ s[b] = "#" /\ \A k \in b .. Len(s) - 1 : s[k] # Newline

\* The last of the suboptions of a name.
Given(subs, name) ==
    LET i == SelectLastInSeq(subs, LAMBDA sub : IsSubOption(sub, name))
    IN  IF i = 0 THEN NULL ELSE OrNull(shorten(SubParam(subs[i])))

FeedOf(url, cookies) == [url |-> url, cookies |-> IF cookies = NULL THEN CookiesInURL(url) ELSE cookies]
FilterOf(pattern, agent) == [pattern |-> pattern, agent |-> agent]

FeedsOf(name, subs) ==
    CASE name = <<"url">> -> [i \in DOMAIN subs |-> FeedOf(subs[i], NULL)]
      [] name = <<"feed">> /\ Given(subs, "url") # NULL -> << FeedOf(Given(subs, "url"), Given(subs, "cookies")) >>
      [] OTHER -> <<>>

FiltersOf(name, subs) ==
    CASE name = <<"patterns">> -> [i \in DOMAIN subs |-> FilterOf(subs[i], NULL)]
      [] name = <<"filter">> /\ Given(subs, "pattern") # NULL
           -> << FilterOf(Given(subs, "pattern"), Given(subs, "useragent")) >>
      [] OTHER -> <<>>

SetsOf(name, str) ==
    CASE name = <<"interval">> /\ parseUInt(str) > 0 -> [f \in {"check_interval"} |-> parseUInt(str) % IntervalWidth]
      [] name = <<"download-folder">> /\ IsPath(str) -> [f \in {"download_folder"} |-> Path(<<>>, str)]
      [] name = <<"statefile">> /\ IsPath(str) -> [f \in {"statefile"} |-> Path(<<>>, str)]
      [] name = <<"prowl-apikey">> -> [f \in {"prowl_key"} |-> OrNull(str)]
      [] name = <<"download-done-script">> -> [f \in {"download_done_script"} |-> OrNull(str)]
      [] OTHER -> <<>>

\* l is written for the option name with parameter str, and ends at place a. It is sound if the code
\* defines what becomes of the parameter.
Carries(l, name, str, a) ==
    /\ l.readable /\ EndsAt(l.text, a)
    /\ l.feeds = FeedsOf(name, Tokens(shorten(str))) /\ l.filters = FiltersOf(name, Tokens(shorten(str)))
    /\ l.sets = SetsOf(name, str) /\ l.sound = ~Undefined(name, str)

\* A parameter from place v on: up to the character that closes it, or one word. l cannot be read
\* if the parameter is not closed in time or too long.
ClosedAt(l, name, v, closing, breaks) ==
    \E w \in v .. Len(l.text) :
      /\ w - v <= MAX_PARAM_LEN /\ \A k \in v .. w - 1 : l.text[k] \notin {closing} \cup breaks
      /\ IF l.text[w] = closing
         THEN Carries(l, name, SubSeq(l.text, v, w - 1), w + 1)
         ELSE ~l.readable /\ (l.text[w] \in breaks \/ w - v = MAX_PARAM_LEN)

WordAt(l, name, v) ==
    \E w \in v .. Len(l.text) :
      /\ w - v <= MAX_PARAM_LEN /\ \A k \in v .. w - 1 : InWord(l.text[k])
      /\ IF w - v = MAX_PARAM_LEN
         THEN ~l.readable
         ELSE ~InWord(l.text[w]) /\ Carries(l, name, SubSeq(l.text, v, w - 1), w)

ParamAt(l, name, a) ==
    \E v \in a .. Len(l.text) :
      /\ FirstWord(l.text, a, v)
      /\ CASE l.text[v] \in Quotes -> ClosedAt(l, name, v + 1, l.text[v], {Newline})
           [] l.text[v] = "{" -> ClosedAt(l, name, v + 1, "}", {})
           [] OTHER -> WordAt(l, name, v)

EqualsAt(l, name, a) ==
    \E e \in a .. Len(l.text) :
      /\ FirstWord(l.text, a, e)
      /\ IF l.text[e] = "=" THEN ParamAt(l, name, e + 1) ELSE ~l.readable

OptionAt(l, a) ==
    \E b \in a .. Len(l.text) :
      /\ b - a <= MAX_OPT_LEN /\ \A k \in a .. b - 1 : InName(l.text[k])
      /\ IF b - a = MAX_OPT_LEN
         THEN ~l.readable
         ELSE ~InName(l.text[b]) /\ IF b = a THEN ~l.readable ELSE EqualsAt(l, SubSeq(l.text, a, b - 1), b)

WithoutOption(l) == /\ l.readable /\ l.sound /\ EndsAt(l.text, 1)
                    /\ l.feeds = <<>> /\ l.filters = <<>> /\ l.sets = <<>>

LineIs(l) == \/ WithoutOption(l)
             \/ \E a \in 1 .. Len(l.text) : FirstWord(l.text, 1, a) /\ l.text[a] # "#" /\ OptionAt(l, a)

ASSUME LinesAssumption ==
    \A f \in Files : f.lines \in Seq(ToSet(f.lines)) /\ \A l \in ToSet(f.lines) : LineIs(l)

-----------------------------------------------------------------------------
(* Properties.                                                             *)

\* The parameter stays within its buffer. A name need not, but nothing is set from one that does not
\* fit: it ends the parse, and what it may have overwritten is left open. The interval fits its field,
\* feeds are numbered from the list's end, and a parse that failed goes no further.
TypeOK ==
    /\ pc \in {"line", "comment", "option", "equals", "value", "set", "parts", "returned", "crashed"}
    /\ line_pos \in 0 .. Size + 2 /\ garbage \in Garbage
    /\ Len(param) <= MAX_PARAM_LEN /\ (Len(opt) >= MAX_OPT_LEN => pc \in {"returned", "crashed"})
    /\ parse_error \in BOOLEAN /\ (parse_error /\ text # <<>> => pc \in {"returned", "crashed"})
    /\ session.check_interval \in 0 .. IntervalWidth - 1
    /\ \A i \in DOMAIN session.feeds : session.feeds[i].id = Len(session.feeds) - i

\* The lines parse_config_file() gets to see: all, or those up to the first one it cannot read.
Readable(lines) ==
    LET k == SelectInSeq(lines, LAMBDA l : ~l.readable)
    IN  IF k = 0 THEN lines ELSE SubSeq(lines, 1, k - 1)

Collected(lines, Part(_)) == Reverse(FlattenSeq([i \in DOMAIN lines |-> Part(lines[i])]))

Written(lines, name) ==
    LET i == SelectLastInSeq(lines, LAMBDA l : name \in DOMAIN l.sets)
    IN  IF i = 0 THEN session_init[name] ELSE lines[i].sets[name]

Meaning(lines) ==
    LET feeds == Collected(lines, LAMBDA l : l.feeds) IN
    [name \in DOMAIN session_init |->
       CASE name = "feeds" -> [i \in DOMAIN feeds |->
                                [id |-> Len(feeds) - i, url |-> feeds[i].url, cookies |-> feeds[i].cookies]]
         [] name = "filters" -> Collected(lines, LAMBDA l : l.filters)
         [] OTHER -> Written(lines, name)]

\* A file of whole lines is read for what is written in it, whatever byte is behind it in
\* memory: the last value of each option, all feeds and filters, last one first, feeds numbered in
\* their order, all of it up to the first line that cannot be read; the parse fails exactly if there
\* is such a line. No line changes what another one means. Of a file with a line that is not sound
\* nothing is said.
ReadAsWritten ==
    /\ pc = "returned" /\ text # <<>> /\ file.rest = <<>>
    /\ \A l \in ToSet(Readable(file.lines)) : l.sound
    =>
      /\ session = Meaning(Readable(file.lines))
      /\ parse_error = (Readable(file.lines) # file.lines)

\* parse_config_file() ends on every file: its loop runs while line_pos differs from the file's
\* size, and line_pos may have gone beyond it.
ReaderEnds == <>(pc \in {"returned", "crashed"})
=============================================================================
