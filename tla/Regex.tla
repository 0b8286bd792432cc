-------------------------------- MODULE Regex --------------------------------
(***************************************************************************)
(* regex.c and its callers' view of it: isMatch() of feed_item.c asks one   *)
(* filter after the other, getRegExMatch() takes one captured group out of  *)
(* a match. PCRE is external: a pattern is whether it compiles and how many *)
(* groups it has, a match is the texts of the whole and of the groups up to *)
(* the last one that took part. blocks are the heap blocks held.            *)
(***************************************************************************)
EXTENDS SequencesExt, Integers

CONSTANTS
    Patterns,       \* [valid : BOOLEAN, groups : Nat]
    Texts,          \* what a group may capture, as sequences of characters
    MaxWhich,       \* the groups callers ask for
    Fallback,       \* the groups assumed when pcre_fullinfo() fails, 9
    MaxFilters,     \* bound on session->filters
    NULL

RegexAssumption ==
    /\ \A p \in Patterns : p.valid \in BOOLEAN /\ p.groups \in Nat
    /\ NULL \notin Patterns /\ NULL \notin Seq(STRING) /\ Texts \subseteq Seq(STRING)
    /\ MaxWhich \in Nat /\ MaxFilters \in Nat /\ Fallback \in Nat \ {0}

VARIABLES
    pc,             \* ready, filter; compile, exec, list, free, take; returned, crashed
    todo,           \* isMatch(): the filters not tried yet
    verdicts,       \* isMatch(): what the filters tried so far said
    out_filter,     \* isMatch(): the place of the filter it returns, 0 for none
    pattern, which_result,
    vector,         \* pairs of offsets ovec has room for, 0 for no ovec
    found,          \* PCRE: the whole match and its groups, empty for no match
    count, result,
    blocks,         \* the blocks held: code, ovec, list, result
    short           \* history: memory for the list was missing

filtering == <<todo, verdicts, out_filter>>
asked == <<pattern, which_result>>
vars == <<pc, filtering, asked, vector, found, count, result, blocks, short>>

Init == /\ pc = "ready" /\ todo = <<>> /\ verdicts = <<>> /\ out_filter = 0
        /\ pattern = NULL /\ which_result = 0 /\ vector = 0 /\ found = <<>> /\ count = -1
        /\ result = NULL /\ blocks = {} /\ short = FALSE

-----------------------------------------------------------------------------
(* Strings.                                                                *)

isspace(c) == c = " "

\* am_strdup(): an empty string is not copied.
am_strdup(str) == IF str = <<>> THEN NULL ELSE str

\* strstrip(): from the first to the last character that is not white space.
strstrip(str) ==
    IF str = NULL THEN NULL
    ELSE LET len == SelectLastInSeq(str, LAMBDA c : ~isspace(c))
             pos == SelectInSeq(str, LAMBDA c : ~isspace(c))
         IN  IF len = 0 THEN <<>> ELSE SubSeq(str, pos, len)

-----------------------------------------------------------------------------
(* isMatch(), and isRegExMatch() below it.                                 *)

\* init_regex(): no pattern, or one PCRE refuses.
Compiles(p) == p # NULL /\ p.valid

isMatch(filters) ==
    /\ pc = "ready"
    /\ pc' = "filter" /\ todo' = filters
    /\ UNCHANGED <<verdicts, out_filter, asked, vector, found, count, result, blocks, short>>

\* Mutant: a filter that does not compile ends the search.
TryGivingUp ==
    /\ pc = "filter" /\ todo # <<>>
    /\ \E matched \in BOOLEAN :
         /\ matched => Compiles(Head(todo))
         /\ verdicts' = Append(verdicts, matched)
         /\ out_filter' = IF matched THEN Len(verdicts) + 1 ELSE out_filter
         /\ pc' = IF matched \/ ~Compiles(Head(todo)) THEN "returned" ELSE pc
    /\ todo' = Tail(todo)
    /\ UNCHANGED <<asked, vector, found, count, result, blocks, short>>

\* The next filter: pcre_exec() without an ovec answers 0 for a match and less for everything
\* else. An empty string matches no filter, like one PCRE fails on.
Try ==
    /\ pc = "filter" /\ todo # <<>>
    /\ \E matched \in BOOLEAN :
         /\ matched => Compiles(Head(todo))
         /\ verdicts' = Append(verdicts, matched)
         /\ out_filter' = IF matched THEN Len(verdicts) + 1 ELSE out_filter
         /\ pc' = IF matched THEN "returned" ELSE pc
    /\ todo' = Tail(todo)
    /\ UNCHANGED <<asked, vector, found, count, result, blocks, short>>

NoFilterLeft ==
    /\ pc = "filter" /\ todo = <<>>
    /\ pc' = "returned"
    /\ UNCHANGED <<filtering, asked, vector, found, count, result, blocks, short>>

-----------------------------------------------------------------------------
(* getRegExMatch(), and getRegExCaptureGroups() below it.                  *)

getRegExMatch(p, which) ==
    /\ pc = "ready"
    /\ pc' = "compile" /\ pattern' = p /\ which_result' = which
    /\ UNCHANGED <<filtering, vector, found, count, result, blocks, short>>

\* Room for every group and the whole match; none at all for a pattern without groups.
Pairs(groups) == IF groups > 0 THEN groups + 1 ELSE 0

Compile ==
    /\ pc = "compile" /\ Compiles(pattern)
    /\ \E groups \in {pattern.groups, Fallback} : vector' = Pairs(groups)
    /\ blocks' = {"code"} \cup (IF vector' > 0 THEN {"ovec"} ELSE {})
    /\ pc' = "exec"
    /\ UNCHANGED <<filtering, asked, found, count, result, short>>

\* An empty string, a pattern that does not compile (-1), or no memory for ovec (0): nothing is
\* held and there is no result.
NotTried ==
    /\ pc = "compile"
    /\ count' = IF Compiles(pattern) THEN 0 ELSE -1
    /\ pc' = "returned"
    /\ UNCHANGED <<filtering, asked, vector, found, result, blocks, short>>

\* No match, or an error.
ExecFails ==
    /\ pc = "exec"
    /\ count' = -1 /\ pc' = "free"
    /\ UNCHANGED <<filtering, asked, vector, found, result, blocks, short>>

\* A match whose last group that took part is the last of these texts; pcre_exec() answers 0 when
\* the vector has no room for it.
Exec(texts) ==
    /\ pc = "exec" /\ Len(texts) \in 1 .. pattern.groups + 1
    /\ found' = texts
    /\ count' = IF Len(texts) <= vector THEN Len(texts) ELSE 0
    /\ pc' = IF count' > 1 THEN "list" ELSE "free"
    /\ UNCHANGED <<filtering, asked, vector, result, blocks, short>>

\* pcre_get_substring_list(), which may lack memory.
GetList ==
    /\ pc = "list"
    /\ pc' = "free"
    /\ \/ blocks' = blocks \cup {"list"} /\ UNCHANGED short
       \/ short' = TRUE /\ UNCHANGED blocks
    /\ UNCHANGED <<filtering, asked, vector, found, count, result>>

Free ==
    /\ pc = "free"
    /\ pc' = "take" /\ blocks' = blocks \ {"ovec", "code"}
    /\ UNCHANGED <<filtering, asked, vector, found, count, result, short>>

\* The group asked for is copied and the list freed.
TakeGroup ==
    /\ pc = "take" /\ count > which_result /\ "list" \in blocks
    /\ result' = strstrip(am_strdup(found[which_result + 1]))
    /\ blocks' = (blocks \ {"list"}) \cup (IF result' = NULL THEN {} ELSE {"result"})
    /\ pc' = "returned"
    /\ UNCHANGED <<filtering, asked, vector, found, count, short>>

\* No match, or fewer groups than asked for: NULL, and a list that was made stays.
NoSuchGroup ==
    /\ pc = "take" /\ count <= which_result
    /\ pc' = "returned"
    /\ UNCHANGED <<filtering, asked, vector, found, count, result, blocks, short>>

\* There is a group and no list: a null pointer is followed.
NoList ==
    /\ pc = "take" /\ count > which_result /\ "list" \notin blocks
    /\ pc' = "crashed"
    /\ UNCHANGED <<filtering, asked, vector, found, count, result, blocks, short>>

-----------------------------------------------------------------------------

\* The caller frees the result; or the process is started again.
Release ==
    /\ pc \in {"returned", "crashed"}
    /\ pc' = "ready" /\ todo' = <<>> /\ verdicts' = <<>> /\ out_filter' = 0
    /\ pattern' = NULL /\ which_result' = 0 /\ vector' = 0 /\ found' = <<>> /\ count' = -1
    /\ result' = NULL /\ blocks' = {} /\ short' = FALSE

Calls == \/ \E filters \in BoundedSeq(Patterns \cup {NULL}, MaxFilters) : isMatch(filters)
         \/ \E p \in Patterns \cup {NULL}, which \in 0 .. MaxWhich : getRegExMatch(p, which)

Running == \/ Try \/ NoFilterLeft \/ Compile \/ NotTried \/ ExecFails \/ GetList \/ Free
           \/ \E n \in 1 .. MaxWhich + 1 : \E texts \in [1 .. n -> Texts] : Exec(texts)
           \/ TakeGroup \/ NoSuchGroup \/ NoList

Next == Calls \/ Running \/ Release

Spec == Init /\ [][Next]_vars

-----------------------------------------------------------------------------
(* Properties.                                                             *)

Steps == {"ready", "filter", "compile", "exec", "list", "free", "take", "returned", "crashed"}

\* The variables have their types, and ovec has room for at most the groups there are or are
\* assumed and the whole match.
TypeOK ==
    /\ pc \in Steps
    /\ pattern \in Patterns \cup {NULL} /\ which_result \in 0 .. MaxWhich
    /\ todo \in Seq(Patterns \cup {NULL}) /\ verdicts \in Seq(BOOLEAN) /\ out_filter \in Nat
    /\ vector \in Nat /\ vector # 1 /\ found \in Seq(Texts) /\ count \in Nat \cup {-1}
    /\ blocks \subseteq {"code", "ovec", "list", "result"} /\ short \in BOOLEAN

\* isMatch() returns the first filter of the list that matches, whose user agent the download then
\* uses. It passes over filters that do not compile or that PCRE fails on: without a match it has been
\* through the whole list.
FirstFilterWins ==
    pc = "returned" =>
        /\ out_filter = SelectInSeq(verdicts, LAMBDA v : v)
        /\ out_filter = 0 => todo = <<>>

\* A text without the white space around it.
IsTrimmed(text, whole) ==
    \E i, j \in 0 .. Len(whole) :
        /\ i <= j /\ text = SubSeq(whole, i + 1, j)
        /\ \A k \in 1 .. Len(whole) : (k <= i \/ k > j) => isspace(whole[k])
        /\ text # <<>> => ~isspace(Head(text)) /\ ~isspace(Last(text))

\* getRegExMatch() returns the group it was asked for: the Content-Length, the cookies of a feed
\* URL. A group that matched nothing, like a text that did not match, is NULL.
GroupReturned ==
    pc = "returned" /\ which_result > 0 /\ ~short =>
        IF which_result >= Len(found) THEN result = NULL
        ELSE LET text == found[which_result + 1]
             IN  pattern.groups <= Fallback =>
                    IF text = <<>> THEN result = NULL
                    ELSE result # NULL /\ IsTrimmed(result, text)

\* Every block goes on every path: patterns that do not compile, failed allocations and matches,
\* errors of PCRE. Only a request for a group beyond those that took part loses the list of them.
OnlyMissingGroupsLeak ==
    pc = "returned" =>
        /\ blocks \subseteq {"list", "result"}
        /\ "result" \in blocks <=> result # NULL
        /\ "list" \in blocks <=> (count > 1 /\ which_result >= count /\ ~short)

\* The list of groups exists whenever one of them is read: a call for a group, which is what all
\* callers make, follows a null pointer only when memory for the list was missing.
ListExists == pc = "crashed" => which_result = 0 \/ short

=============================================================================
