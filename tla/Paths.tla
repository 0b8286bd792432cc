------------------------------- MODULE Paths -------------------------------
(***************************************************************************)
(* The folders of utils.c, as session_init() and the options of the          *)
(* configuration set them from the environment, and the path get_filename()  *)
(* of file.c makes for a download. Strings are sequences of characters.      *)
(***************************************************************************)
EXTENDS SequencesExt, Integers

CONSTANTS
    Char,           \* the characters, "(null)" counting as one
    Values,         \* what a variable of the environment may hold
    Settings,       \* paths given for download-folder and statefile
    Urls,
    Garbage,        \* what a string on the stack may hold before it is written
    Statefile,      \* ".trailermatic.state"
    Temp,           \* "/tmp"
    PathMax,        \* PATH_MAX, MAXPATHLEN
    NULL

PathsAssumption ==
    /\ {"~", "/", "(null)"} \subseteq Char
    /\ Values \cup Settings \cup Urls \cup Garbage \subseteq Seq(Char) /\ NULL \notin Seq(Char)
    /\ {Statefile, Temp} \subseteq Seq(Char) \ {<<>>}
    /\ PathMax \in Nat \ {0, 1} /\ Len(Statefile) + 2 < PathMax
    /\ \A url \in Urls : Len(url) < PathMax

VARIABLES
    env,                        \* HOME, TEMPDIR, TMPDIR, and the folder in the password file
    pc,                         \* start, ready, named; crashed: a buffer was overrun, and anything
                                \* may follow
    download_folder, statefile, \* of the session
    configured,                 \* history: the settings that were read
    url, path                   \* of a download

session == <<download_folder, statefile, configured>>
vars == <<env, pc, session, url, path>>

Variables == {"HOME", "TEMPDIR", "TMPDIR", "passwd"}

Init == /\ env \in [Variables -> Values \cup {NULL}]
        /\ pc = "start" /\ download_folder = NULL /\ statefile = NULL
        /\ configured = [download_folder |-> NULL, statefile |-> NULL]
        /\ url = <<>> /\ path = <<>>

-----------------------------------------------------------------------------
(* Folders.                                                                *)

\* What "%s" prints of a string.
Printed(str) == IF str = NULL THEN <<"(null)">> ELSE str

\* am_strdup(): an empty string is not copied.
am_strdup(str) == IF str = <<>> THEN NULL ELSE str

\* A variable that is set and empty is not asked a second time.
get_home_folder == am_strdup(IF env["HOME"] # NULL THEN env["HOME"] ELSE env["passwd"])

get_temp_folder ==
    am_strdup(CASE env["TEMPDIR"] # NULL -> env["TEMPDIR"]
                [] env["TEMPDIR"] = NULL /\ env["TMPDIR"] # NULL -> env["TMPDIR"]
                [] OTHER -> Temp)

\* Paths of one or two characters are not taken; without a home folder "~/" stays.
resolve_path(p) ==
    CASE Len(p) <= 2 -> NULL
      [] Len(p) > 2 /\ IsPrefix(<<"~", "/">>, p) /\ get_home_folder # NULL ->
            get_home_folder \o Tail(p)
      [] OTHER -> p

HomeStatefile == Printed(get_home_folder) \o <<"/">> \o Statefile

session_init ==
    /\ pc = "start" /\ pc' = "ready"
    /\ download_folder' = get_temp_folder
    /\ statefile' = HomeStatefile
    /\ UNCHANGED <<env, configured, url, path>>

\* set_path() for an option of the file, which takes no path that is too long.
Resolved(old, p) == IF Len(p) >= PathMax \/ resolve_path(p) = NULL THEN old ELSE resolve_path(p)

SetFolder(p) == /\ pc = "ready" /\ configured.download_folder = NULL
                /\ download_folder' = Resolved(download_folder, p)
                /\ configured' = [configured EXCEPT !.download_folder = p]
                /\ UNCHANGED <<env, pc, statefile, url, path>>

SetStatefile(p) == /\ pc = "ready" /\ configured.statefile = NULL
                   /\ statefile' = Resolved(statefile, p)
                   /\ configured' = [configured EXCEPT !.statefile = p]
                   /\ UNCHANGED <<env, pc, download_folder, url, path>>

\* sprintf(), strcpy() and strcat() write past a path that a long home folder makes too long.
Overrun ==
    /\ \/ pc = "start" /\ Len(HomeStatefile) >= PathMax
       \/ pc = "ready" /\ \E p \in Settings : Len(p) < PathMax /\ Len(Resolved(<<>>, p)) >= PathMax
    /\ pc' = "crashed" /\ UNCHANGED <<env, session, url, path>>

\* The program is started again.
Restart ==
    /\ pc = "crashed" /\ pc' = "start" /\ download_folder' = NULL /\ statefile' = NULL
    /\ configured' = [download_folder |-> NULL, statefile |-> NULL]
    /\ UNCHANGED <<env, url, path>>

-----------------------------------------------------------------------------
(* The path of a download.                                                 *)

\* The pieces strtok() finds: what is between slashes and not empty.
Pieces(s) == {p \in (1 .. Len(s)) \X (1 .. Len(s)) :
                /\ p[1] <= p[2] /\ "/" \notin ToSet(SubSeq(s, p[1], p[2]))
                /\ p[1] = 1 \/ s[p[1] - 1] = "/"
                /\ p[2] = Len(s) \/ s[p[2] + 1] = "/"}

\* Mutant: the first piece.
LastPieceFirst(s, buf) ==
    IF Pieces(s) = {} THEN buf
    ELSE LET p == CHOOSE p \in Pieces(s) : \A q \in Pieces(s) : p[1] <= q[1]
         IN  SubSeq(s, p[1], p[2])

\* Every piece overwrites the one before; without any, buf stays as it was on the stack.
LastPiece(s, buf) ==
    IF Pieces(s) = {} THEN buf
    ELSE LET p == CHOOSE p \in Pieces(s) : \A q \in Pieces(s) : q[1] <= p[1]
         IN  SubSeq(s, p[1], p[2])

\* snprintf(path, PATH_MAX - 1, "%s/%s").
get_filename(u) ==
    /\ pc = "ready" /\ pc' = "named" /\ url' = u
    /\ \E buf \in Garbage :
         LET whole == Printed(download_folder) \o <<"/">> \o LastPiece(u, buf)
         IN  path' = IF Len(whole) > PathMax - 2 THEN SubSeq(whole, 1, PathMax - 2) ELSE whole
    /\ UNCHANGED <<env, session>>

\* The download is done with the path.
Forget == /\ pc = "named" /\ pc' = "ready" /\ url' = <<>> /\ path' = <<>>
          /\ UNCHANGED <<env, session>>

Next == \/ session_init
        \/ \E p \in Settings : SetFolder(p) \/ SetStatefile(p)
        \/ \E u \in Urls : get_filename(u)
        \/ Forget \/ Overrun \/ Restart

Spec == Init /\ [][Next]_vars

-----------------------------------------------------------------------------
(* Properties.                                                             *)

\* The variables have their types.
TypeOK == /\ pc \in {"start", "ready", "named", "crashed"} /\ env \in [Variables -> Values \cup {NULL}]
          /\ download_folder # <<>> /\ statefile # <<>> /\ Len(path) <= PathMax
          /\ url \in Urls \cup {<<>>}

\* The path of a download is a name directly in the download folder, the last piece of its URL,
\* unless the two are too long together: no other part of the URL gets into it, with however many
\* slashes. Only a URL of nothing but slashes gives a name nobody chose.
SavedInFolder ==
    pc = "named" /\ ToSet(url) # {"/"} /\ url # <<>> =>
        LET folder == Append(Printed(download_folder), "/")
            name == SubSeq(path, Len(folder) + 1, Len(path))
            last == SelectLastInSeq(url, LAMBDA c : c # "/")
        IN  \/ Len(path) = PathMax - 2
            \/ /\ IsPrefix(folder, path)
               /\ name # <<>> /\ "/" \notin ToSet(name)
               /\ IsSuffix(name, SubSeq(url, 1, last))
               /\ last > Len(name) => url[last - Len(name)] = "/"

\* The state file a configuration names in the home folder, as "~/.trailermatic.state", is the one
\* the daemon uses without that line: the downloads recorded before the line was written are known
\* after it. Without a home folder they are two files.
SameStatefile ==
    configured.statefile = <<"~", "/">> \o Statefile =>
        statefile = IF get_home_folder = NULL THEN configured.statefile
                    ELSE get_home_folder \o <<"/">> \o Statefile

=============================================================================
