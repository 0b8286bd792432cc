------------------------------ MODULE Helpers ------------------------------
(***************************************************************************)
(* The functions the daemon's parts call: regular expressions, lists,        *)
(* base64 and URL encodings, paths and the text of a notification. They      *)
(* share no state, so a behaviour is one of one of them, chosen at the       *)
(* start, and the others rest.                                             *)
(***************************************************************************)
EXTENDS Base64

CONSTANTS       \* of each helper, as its module explains them
    Patterns, Captures, MaxWhich, Fallback, MaxFilters,
    Nodes, Elements, MaxLost,
    Strings,
    Values, Temp, Statefile, Settings, Urls, Garbage, PathMax,
    Keys, Names, DescSize, UrlSize,
    None                    \* NULL

VARIABLES
    helper,                 \* base64, regex, list, url, paths, prowl
    regex_pc, todo, verdicts, out_filter, pattern, which_result, vector, found, count, group,
    blocks, short,
    list_pc, head, next, data, nodes, elements, current, result, newnode, lost,
    url_pc, str, code, room, plain,
    path_pc, env, download_folder, statefile, configured, url, path,
    prowl_pc, key, asked, event, desc, total_size, data_size, responseCode, told

regexVars == <<regex_pc, todo, verdicts, out_filter, pattern, which_result, vector, found, count,
               group, blocks, short>>
listVars == <<list_pc, head, next, data, nodes, elements, current, result, newnode, lost>>
urlVars == <<url_pc, str, code, room, plain>>
pathVars == <<path_pc, env, download_folder, statefile, configured, url, path>>
prowlVars == <<prowl_pc, key, asked, event, desc, total_size, data_size, responseCode, told>>

Matching == INSTANCE Regex WITH Texts <- Captures, NULL <- None, pc <- regex_pc, result <- group

List == INSTANCE LinkedList WITH NULL <- None, pc <- list_pc

Url == INSTANCE UrlCode WITH pc <- url_pc, out <- code, size <- room, original <- plain

Path == INSTANCE Paths WITH NULL <- None, pc <- path_pc

Prowl == INSTANCE Notification WITH NULL <- None, pc <- prowl_pc, result <- told

ASSUME MatchingAssumption == Matching!RegexAssumption
ASSUME ListAssumption == List!HeapAssumption
ASSUME UrlAssumption == Url!UrlCodeAssumption
ASSUME PathAssumption == Path!PathsAssumption
ASSUME ProwlAssumption == Prowl!NotificationAssumption

-----------------------------------------------------------------------------

PathRests == /\ env = [v \in Path!Variables |-> None] /\ path_pc = "start"
             /\ download_folder = None /\ statefile = None
             /\ configured = [download_folder |-> None, statefile |-> None]
             /\ url = <<>> /\ path = <<>>

ProwlRests == /\ prowl_pc = "start" /\ key = 1 /\ asked = 0 /\ event = 0 /\ desc = 0
              /\ total_size = 0 /\ data_size = 0 /\ responseCode = None /\ told = 0

HelpersInit ==
    /\ Init /\ Matching!Init /\ List!Init /\ Url!Init
    /\ \/ helper \in {"base64", "regex", "list", "url"} /\ PathRests /\ ProwlRests
       \/ helper = "paths" /\ Path!Init /\ ProwlRests
       \/ helper = "prowl" /\ PathRests /\ Prowl!Init

Base64Step == /\ helper = "base64" /\ Next
              /\ UNCHANGED <<helper, regexVars, listVars, urlVars, pathVars, prowlVars>>
RegexStep == /\ helper = "regex" /\ Matching!Next
             /\ UNCHANGED <<helper, vars, listVars, urlVars, pathVars, prowlVars>>
ListStep == /\ helper = "list" /\ List!Next
            /\ UNCHANGED <<helper, vars, regexVars, urlVars, pathVars, prowlVars>>
ListRuns == /\ helper = "list" /\ List!Running
            /\ UNCHANGED <<helper, vars, regexVars, urlVars, pathVars, prowlVars>>
UrlStep == /\ helper = "url" /\ Url!Next
           /\ UNCHANGED <<helper, vars, regexVars, listVars, pathVars, prowlVars>>
PathStep == /\ helper = "paths" /\ Path!Next
            /\ UNCHANGED <<helper, vars, regexVars, listVars, urlVars, prowlVars>>
ProwlStep == /\ helper = "prowl" /\ Prowl!Next
             /\ UNCHANGED <<helper, vars, regexVars, listVars, urlVars, pathVars>>

HelpersNext == \/ Base64Step \/ RegexStep \/ ListStep \/ UrlStep \/ PathStep \/ ProwlStep

helpersVars == <<helper, vars, regexVars, listVars, urlVars, pathVars, prowlVars>>

\* A list function that was called is executed, as in LinkedList.
HelpersSpec == HelpersInit /\ [][HelpersNext]_helpersVars /\ WF_helpersVars(ListRuns)

-----------------------------------------------------------------------------
(* Properties, of the functions that run.                                   *)

\* The variables of every helper have their types.
TypesOK ==
    CASE helper = "base64" -> TypeOK
      [] helper = "regex" -> Matching!TypeOK
      [] helper = "list" -> List!TypeOK
      [] helper = "url" -> Url!TypeOK
      [] helper = "paths" -> Path!TypeOK
      [] helper = "prowl" -> Prowl!TypeOK

\* Base64's EncodedRight, DecodedRight and RoundTrip, UrlCode's RoundTrip, RequestClean and
\* WritesFit, Regex's FirstFilterWins and GroupReturned, Paths' SavedInFolder and SameStatefile,
\* Notification's MessageWhole: every helper hands back what its caller means.
TextsRight ==
    CASE helper = "base64" -> EncodedRight /\ DecodedRight /\ RoundTrip
      [] helper = "url" -> Url!RoundTrip /\ Url!RequestClean /\ Url!WritesFit
      [] helper = "regex" -> Matching!FirstFilterWins /\ Matching!GroupReturned
      [] helper = "paths" -> Path!SavedInFolder /\ Path!SameStatefile
      [] helper = "prowl" -> Prowl!MessageWhole
      [] helper = "list" -> TRUE

\* LinkedList's ListOwnsHeap and NoDangling, Regex's OnlyMissingGroupsLeak and ListExists: every
\* block has an owner and no freed or missing one is used, but where the code is known to.
NothingLost ==
    /\ helper = "list" => List!ListOwnsHeap /\ List!NoDangling
    /\ helper = "regex" => Matching!OnlyMissingGroupsLeak /\ Matching!ListExists

\* LinkedList's IsASequence and CallsReturn: the pointer code of the lists implements a sequence,
\* and every loop ends.
ListsKeepPromise == List!IsASequence /\ List!CallsReturn

=============================================================================
