------------------------------- MODULE Inputs -------------------------------
(***************************************************************************)
(* Everything the daemon reads: its configuration, a feed, the text of its   *)
(* state file and the file of -x. The readers share no state, so a behaviour *)
(* is one of one of them, chosen at the start, and the others rest.         *)
(***************************************************************************)
EXTENDS ConfigFile

CONSTANTS       \* of each reader, as its module explains them
    Documents, FeedTexts, VideoTypes,
    Urls, Length, MAX_LINE_LEN, Threshold, MaxEntries, MaxKills,
    Bytes, Zero, Unwritten, MaxLength,
    None                        \* NULL of a feed

VARIABLES
    input_kind,                 \* config, feed, state, xml
    parser_pc, ndebug, doc, todo, child, attr, item, name_set, enclosure,
    rss_items, item_count, blocks,
    running, downloads, statefile, kills,
    reader_pc, disk, fileLen, buffer, measured

feedVars == <<parser_pc, ndebug, doc, todo, child, attr, item, name_set, enclosure,
              rss_items, item_count, blocks>>
stateVars == <<running, downloads, statefile, kills>>
xmlVars == <<reader_pc, disk, fileLen, buffer, measured>>

Parser == INSTANCE FeedParser WITH Texts <- FeedTexts, NULL <- None, pc <- parser_pc

History == INSTANCE StateFile

Xml == INSTANCE FileIO WITH NUL <- Zero, pc <- reader_pc

ASSUME ParserAssumption == Parser!DocumentsAssumption
ASSUME HistoryAssumption == History!StateFileAssumption
ASSUME XmlAssumption == Xml!FileAssumption

-----------------------------------------------------------------------------

ConfigRests == /\ pc = "returned" /\ file = CHOOSE f \in Files : TRUE
               /\ text = <<>> /\ garbage = Control /\ line_pos = 0 /\ opt = <<>> /\ param = <<>>
               /\ parse_error = FALSE /\ parts = <<>> /\ entry = NULL /\ session = session_init

FeedRests == /\ parser_pc = "done" /\ ndebug = TRUE /\ doc = None
             /\ todo = <<>> /\ child = <<>> /\ attr = <<>>
             /\ item = None /\ name_set = FALSE /\ enclosure = None
             /\ rss_items = <<>> /\ item_count = 0 /\ blocks = 0

StateRests == History!Init

XmlRests == reader_pc = "idle" /\ disk = <<>> /\ fileLen = 0 /\ buffer = <<>> /\ measured = <<>>

InputsInit ==
    \/ input_kind = "config" /\ Init /\ FeedRests /\ StateRests /\ XmlRests
    \/ input_kind = "feed" /\ ConfigRests /\ Parser!Init /\ StateRests /\ XmlRests
    \/ input_kind = "state" /\ ConfigRests /\ FeedRests /\ History!Init /\ XmlRests
    \/ input_kind = "xml" /\ ConfigRests /\ FeedRests /\ StateRests /\ Xml!Init

ConfigStep == /\ input_kind = "config" /\ Next
              /\ UNCHANGED <<input_kind, feedVars, stateVars, xmlVars>>
FeedStep == /\ input_kind = "feed" /\ Parser!Next
            /\ UNCHANGED <<input_kind, vars, stateVars, xmlVars>>
StateStep == /\ input_kind = "state" /\ History!Next
             /\ UNCHANGED <<input_kind, vars, feedVars, xmlVars>>
XmlStep == /\ input_kind = "xml" /\ Xml!Next
           /\ UNCHANGED <<input_kind, vars, feedVars, stateVars>>

InputsNext == ConfigStep \/ FeedStep \/ StateStep \/ XmlStep

allVars == <<input_kind, vars, feedVars, stateVars, xmlVars>>

\* parse_config_file() is executed, as in ConfigFile.
InputsSpec == InputsInit /\ [][InputsNext]_allVars /\ WF_allVars(ConfigStep)

-----------------------------------------------------------------------------
(* Properties, of the reader that runs.                                     *)

\* The variables of every reader have their types.
TypesOK ==
    CASE input_kind = "config" -> TypeOK
      [] input_kind = "feed" -> Parser!TypeOK
      [] input_kind = "state" -> History!TypeOK
      [] input_kind = "xml" -> Xml!TypeOK

\* FeedParser's ItemsAsListed: a feed gives the items its document lists, in their order.
ItemsAsListed == input_kind = "feed" => Parser!ItemsAsListed

\* FeedParser's NothingLeaks: parse_xmldata() leaves no block behind that its list does not own.
NothingLeaks == input_kind = "feed" => Parser!NothingLeaks

\* StateFile's FittingSurvive and SettledAfterRestart: entries that fit survive every restart in
\* their order, and what one restart made of any file the next ones leave alone.
RestartSettles == input_kind = "state" => History!FittingSurvive /\ History!SettledAfterRestart

\* StateFile's OneSpoiltPerKill: a kill in the middle of a save spoils one fitting URL at most.
OneSpoiltPerKill == input_kind = "state" => History!OneSpoiltPerKill

\* FileIO's ReadWhole: the block of the file of -x is closed, and holds what was measured unless
\* the file became shorter meanwhile.
XmlReadWhole == input_kind = "xml" => Xml!ReadWhole
=============================================================================
