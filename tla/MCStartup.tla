----------------------------- MODULE MCStartup -----------------------------
(***************************************************************************)
(* Starts with all standard descriptors and without any, with no option,    *)
(* with one, and with the pairs of options that act on each other.           *)
(***************************************************************************)
EXTENDS Startup

MCStdSets == { 0 .. 2, {} }

MCCommandLines ==
    { <<>> } \cup { <<o>> : o \in Options } \cup
    { <<"logfile", "nodaemon">>, <<"logfile", "syslog">>, <<"syslog", "once">>,
      <<"nodaemon", "match-only">> }
=============================================================================
