---------------------------- MODULE MCConfigFile ----------------------------
(***************************************************************************)
(* Lines of a configuration file with what they are written for, and the    *)
(* files TLC reads: up to two of all lines, three of the plain ones, and    *)
(* every rest behind one line or none.                                     *)
(***************************************************************************)
EXTENDS ConfigFile

sp == Space
nl == Newline
q == "\""

NoSets == [s \in {} |-> NULL]
Line(chars, feeds, filters, sets) ==
    [text |-> Append(chars, nl), readable |-> TRUE, sound |-> TRUE, feeds |-> feeds, filters |-> filters, sets |-> sets]
Nothing(chars) == Line(chars, <<>>, <<>>, NoSets)
Sets(chars, name, value) == Line(chars, <<>>, <<>>, name :> value)
Feeds(chars, feeds) == Line(chars, feeds, <<>>, NoSets)
Filters(chars, filters) == Line(chars, <<>>, filters, NoSets)
Unreadable(chars) == [Nothing(chars) EXCEPT !.readable = FALSE]

Unsound(line) == [line EXCEPT !.sound = FALSE]

Feed(url, cookies) == [url |-> url, cookies |-> cookies]
Filter(pattern, agent) == [pattern |-> pattern, agent |-> agent]

PlainLines == {
    Nothing(<<>>),
    Nothing(<<"#", "a", q, "{">>),
    Sets(<<"interval", "=", "5">>, "check_interval", 5),
    Sets(<<sp, "interval", nl, "=", sp, "2", "5", "#", "a">>, "check_interval", 25),
    Feeds(<<"url", "=", q, "a", q>>, <<Feed(<<"a">>, NULL)>>),
    Feeds(<<"feed", "=", "{", sp, "url", sp, "=", ">", q, "b", q, nl, "cookies", sp, "=", ">", "k", "}">>,
          <<Feed(<<"b">>, <<"k">>)>>),
    Filters(<<"filter", sp, "=", "{", "pattern", sp, "=", ">", sp, q, "a", sp, "#", q, nl,
              "useragent", sp, sp, "=", ">", "b", nl, "}">>,
            <<Filter(<<"a", sp, "#">>, <<"b">>)>>) }

Lines == PlainLines \cup {
    Sets(<<"interval", "=", q, "2", "5", "0", q>>, "check_interval", 250),
    Sets(<<"interval", "=", "5", "0", "0">>, "check_interval", 500 % IntervalWidth),
    Nothing(<<"interval", "=", "0">>),
    Nothing(<<"interval", "=", "5", "a">>),
    Nothing(<<"interval", "=", "#">>),
    Nothing(<<"unknown", "=", "{", q, "}">>),
    Sets(<<"statefile", "=", q, "a", sp, "b", q>>, "statefile", <<"a", sp, "b">>),
    Sets(<<"download-folder", "=", "~", "/", "a">>, "download_folder", HomeFolder \o <<"/", "a">>),
    Nothing(<<"statefile", "=", "a">>),
    Nothing(<<"statefile", "=", "a", "b", "a", "b", "a">>),
    Unsound(Sets(<<"statefile", "=", "~", "/", "a", "b">>, "statefile", HomeFolder \o <<"/", "a", "b">>)),
    Unsound(Nothing(<<"url", "=", q, q>>)),
    Unsound(Nothing(<<"filter", "=", "{", nl, sp, "}">>)),
    Sets(<<"prowl-apikey", "=", "'", q, "'">>, "prowl_key", <<q>>),
    Sets(<<"prowl-apikey", "=", q, q>>, "prowl_key", NULL),
    Sets(<<"download-done-script", "=", "a", "b">>, "download_done_script", <<"a", "b">>),
    Feeds(<<"url", "=", "{", nl, q, "a", q, q, "b", ":COOKIE:", "k", q, q, q, nl, "b", "}">>,
          <<Feed(<<"a">>, NULL), Feed(<<"b", ":COOKIE:", "k">>, <<"k">>), Feed(<<"b">>, NULL)>>),
    Nothing(<<"feed", "=", "{", "cookies", sp, "=", ">", "k", "}">>),
    Nothing(<<"filter", "=", "{", "pattern", "=", ">", "a", "}">>),
    Filters(<<"filter", "=", "{", "pattern", sp, "=", ">", "a", nl, "useragent", nl,
              "pattern", sp, "=", ">", "b", nl, "b", sp, "=", ">", "}">>,
            <<Filter(<<"b">>, NULL)>>),
    Filters(<<"patterns", "=", "{", q, "a", nl, sp, "'", "b", "'", sp, "}">>,
            <<Filter(<<"a">>, NULL), Filter(<<"b">>, NULL)>>),
    Unreadable(<<"interval", sp, "#">>),
    Unreadable(<<"=", "5">>),
    Unreadable(<<"interval", "=", q, "5">>),
    Unreadable(<<"interval", "a", "b", "=", "5">>),
    Unreadable(<<"url", "=">> \o [i \in 1 .. MAX_PARAM_LEN |-> "a"]),
    Unreadable(<<"url", "=", q>> \o [i \in 1 .. MAX_PARAM_LEN + 1 |-> "a"] \o <<q>>) }

Rests == {
    <<"#", "a">>, <<"interval">>, <<"interval", "=">>, <<"interval", "=", "5">>,
    <<"url", "=", q, "a">>, <<"url", "=", "{", "a", nl>>, <<"a", "a", "a", "a", "a", "a", "=", "a">>,
    <<"feed", "=", "{", "=", ">", "a", "}">> }

MCFiles ==
    [lines : {<<l, m>> : l, m \in Lines} \cup {<<k, l, m>> : k, l, m \in PlainLines}, rest : {<<>>}]
    \cup [lines : {<<>>} \cup {<<l>> : l \in Lines}, rest : Rests \cup {<<>>}]

MCGarbage == {Control, Newline, Space, "5", q, "}"}
MCDigits == ("0" :> 0) @@ ("2" :> 2) @@ ("5" :> 5)
MCHome == <<"/", "h">>
MCFolder == <<"/", "t", "m">>
MCStatefile == <<"/", "h", "/", "s">>
=============================================================================
