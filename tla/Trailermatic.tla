---------------------------- MODULE Trailermatic ----------------------------
(***************************************************************************)
(* The daemon of trailermatic.c together with downloads.c, state.c and     *)
(* downloadFile() of web.c: the main loop walks the feeds, downloads every *)
(* listed URL that a filter matches and that the history bucket and the    *)
(* download folder do not have yet, records it in the bucket and rewrites  *)
(* the state file.  One value of pc per point at which a signal, a crash   *)
(* or another program's access to the files can make a difference.         *)
(*                                                                         *)
(* The environment stops the daemon with a signal, kills it (when Kills),  *)
(* collects files from the download folder (as the download-done script    *)
(* or the user does) and, when IOFaults, makes file operations fail.       *)
(***************************************************************************)
EXTENDS Bucket, FiniteSets

CONSTANTS
    Urls,           \* the media URLs the feeds may list
    Match,          \* those that isMatch() accepts
    PathOf,         \* get_filename(): the local path of each URL
    NFeeds,         \* length of session->feeds
    Listings,       \* Listings[f]: the documents feed f may serve
    DefaultMax,     \* AM_DEFAULT_MAXBUCKET
    MaxCount,       \* bound on the items of one document
    CountModulus,   \* max_bucket_items is a uint16_t: 2^16
    OnceFlags,      \* the values of -o/--once tried at each start
    MatchOnlyFlags, \* the values of --match-only tried at each start
    XmlFlags,       \* whether a start is given an XML file to process
    IOFaults,       \* whether file operations may fail
    Kills,          \* whether the process may be killed
    TooShort,       \* URLs below 20 characters: load_state() drops their lines
    TooLong,        \* URLs of 299: fgets() splits their lines (a longer one
                    \* does not fit save_state()'s buffer, see StateFile.tla)
    Torn,           \* the last, cut-off line of a half-written state file
    Mangled         \* what load_state() makes of a line it has a part of

Feeds == 1..NFeeds
Paths == { PathOf[u] : u \in Urls }
Entries == Urls \cup {Mangled}
Lines == Urls \cup {Mangled, Torn}
Unrestorable == TooShort \cup TooLong

ASSUME FeedsAssumption ==
    /\ NFeeds \in Nat \ {0}
    /\ MaxCount \in Nat
    /\ \A f \in Feeds : \A doc \in Listings[f] :
            doc.urls \in Seq(Urls) /\ doc.count \in 0..MaxCount

ASSUME NamesAssumption ==
    /\ Torn \notin Urls /\ Mangled \notin Urls /\ Torn # Mangled
    /\ Match \subseteq Urls /\ Unrestorable \subseteq Urls
    /\ TooShort \cap TooLong = {}
    /\ DOMAIN PathOf = Urls

\* The feeds are small enough for the 16-bit bucket size not to wrap.
ASSUME SizeAssumption ==
    /\ DefaultMax \in Nat \ {0}
    /\ CountModulus \in Nat
    /\ DefaultMax + NFeeds * MaxCount < CountModulus

ASSUME FlagsAssumption ==
    /\ OnceFlags \subseteq BOOLEAN /\ MatchOnlyFlags \subseteq BOOLEAN
    /\ XmlFlags \subseteq BOOLEAN /\ IOFaults \in BOOLEAN /\ Kills \in BOOLEAN

VARIABLES
    pc,               \* where main() is
    downloads,        \* session->downloads, the bucket
    max_bucket_items, \* session->max_bucket_items
    bucket_changed,   \* session->bucket_changed
    first_run,        \* main()'s first_run
    closing,          \* set by signal_handler()
    once,             \* main()'s once
    match_only,       \* session->match_only
    xmlfile,          \* main()'s xmlfile is given
    feed,             \* feeds left in this pass; the current one is feed->id = feed - 1
    queue,            \* matched-against URLs left of the current document
    folder,           \* the download folder: what stands at each path
    statefile,        \* the lines of the state file
    got,              \* history: URLs that answered 200 and were saved
    forgotten,        \* history: of those, the ones the daemon may forget
    dirty,            \* history: the last save_state() failed, or load_state() did
    newer             \* history: <<u, v>>: u was last recorded after v

volatile == <<downloads, max_bucket_items, bucket_changed, first_run, once,
              match_only, xmlfile, feed, queue>>
history  == <<got, forgotten, dirty, newer>>
vars     == <<pc, volatile, closing, folder, statefile, history>>

-----------------------------------------------------------------------------
(* Where control goes, and what a restart finds.                           *)

Idle == /\ downloads = <<>> /\ max_bucket_items = DefaultMax
        /\ bucket_changed = FALSE /\ first_run = TRUE
        /\ once = FALSE /\ match_only = FALSE /\ xmlfile = FALSE
        /\ feed = 0 /\ queue = <<>>

\* session_free(), exit() and process death: nothing of the session is left.
Vanish == /\ pc' = "down" /\ closing' = FALSE
          /\ downloads' = <<>> /\ max_bucket_items' = DefaultMax
          /\ bucket_changed' = FALSE /\ first_run' = TRUE
          /\ once' = FALSE /\ match_only' = FALSE /\ xmlfile' = FALSE
          /\ feed' = 0 /\ queue' = <<>>

\* Mutants of load_state(): it keeps a cut-off line, restores nothing, misses the
\* last line, prepends instead of appending.
RestoredVerbatim(lines, keepTorn) == lines
RestoredNothing(lines, keepTorn) == <<>>
RestoredAllButLast(lines, keepTorn) == IF lines = <<>> THEN lines ELSE Front(lines)
RestoredReversed(lines, keepTorn) == SelectSeq(Reverse(lines), LAMBDA l : l # Torn)

\* What load_state() makes of one line. Its threshold drops the line of a short
\* URL and a short cut-off one; of a line without its newline, cut off or split
\* by fgets(), it takes the last character for the newline.
EntryOf(line, keepTorn) ==
    IF line \in TooShort \/ (line = Torn /\ ~keepTorn) THEN <<>>
    ELSE IF line \in TooLong \cup {Torn} THEN <<Mangled>> ELSE <<line>>

Restored(lines, keepTorn) ==
    FlattenSeq([i \in DOMAIN lines |-> EntryOf(lines[i], keepTorn)])

\* What fwrite() and a buffered stdio stream can leave of a list that was not
\* written out to its end: some whole lines, perhaps a piece of the next one.
PartialWrites(list) ==
    { IF cut THEN Append(SubSeq(list, 1, n), Torn) ELSE SubSeq(list, 1, n) :
        n \in 0..(Len(list) - 1), cut \in BOOLEAN }

url == Head(queue)

Known == { u \in Urls : has_been_downloaded(downloads, u) }
OnDisk == { u \in Urls : bucket_hasURL(u, statefile) }

\* The URL that is being downloaded, Torn for none.
InHand == IF pc \in {"open", "transfer", "announce", "record"} THEN url ELSE Torn

\* A URL whose file is complete but that the bucket does not have yet.
InFlight == IF pc \in {"announce", "record"} THEN {url} ELSE {}

\* shutdown_daemon() saves the bucket only when it has changed.
ShutdownPc == IF bucket_changed THEN "save" ELSE "exit"

\* Inside processRSSList() save_state() returns to the URL loop, inside
\* shutdown_daemon() (no URL is left then) to the exit.
Saved == IF queue = <<>> THEN pc' = "exit" /\ queue' = queue
                         ELSE pc' = "url" /\ queue' = Tail(queue)

\* The pairs of URLs of which a list has the first before the second.
OrderOf(list) ==
    { p \in Urls \X Urls : \E i, j \in DOMAIN list : i < j /\ list[i] = p[1] /\ list[j] = p[2] }

\* The history after the process ended: what an unwritten or half-written state
\* file has lost may be fetched again, and so may a URL that was in flight.
EndHistory(unsaved) ==
    /\ forgotten' = IF unsaved THEN got \ OnDisk' ELSE forgotten \cup (InFlight \cap got)
    /\ newer' = IF unsaved THEN OrderOf(statefile') ELSE newer

NextUrl == pc' = "url" /\ queue' = Tail(queue)

Init == /\ pc = "down" /\ Idle /\ closing = FALSE
        /\ folder = [p \in Paths |-> "absent"]
        /\ statefile = <<>>
        /\ got = {} /\ forgotten = {} /\ dirty = FALSE /\ newer = {}

-----------------------------------------------------------------------------
(* main()                                                                  *)

\* load_state() could not open the state file: main() goes on with an empty bucket.
LoadFails == /\ IOFaults
             /\ downloads' = <<>> /\ dirty' = TRUE
             /\ forgotten' = forgotten \cup OnDisk

\* It appends to the bucket line by line.
Load == /\ \E keepTorn \in BOOLEAN : downloads' = Restored(statefile, keepTorn)
        /\ dirty' = FALSE
        /\ forgotten' = forgotten \cup (OnDisk \cap Unrestorable)

\* readargs(), session_init() and load_state(), whose result main() ignores.
Start == /\ pc = "down"
         /\ pc' = "check"
         /\ Load \/ LoadFails
         /\ once' \in OnceFlags /\ match_only' \in MatchOnlyFlags
         /\ xmlfile' \in XmlFlags
         /\ UNCHANGED <<max_bucket_items, bucket_changed, first_run, closing,
                        feed, queue, folder, statefile, got, newer>>

\* Mutant: closing is not looked at before a pass.
BeginPassRegardless ==
    /\ pc = "check" /\ ~xmlfile
    /\ pc' = "feed" /\ feed' = NFeeds
    /\ UNCHANGED <<downloads, max_bucket_items, bucket_changed, first_run, closing, once,
                   match_only, xmlfile, queue, folder, statefile, history>>

\* while(!closing): a pass over all feeds begins, the last configured first.
BeginPass == /\ pc = "check" /\ ~closing /\ ~xmlfile
             /\ pc' = "feed" /\ feed' = NFeeds
             /\ UNCHANGED <<downloads, max_bucket_items, bucket_changed, first_run,
                            closing, once, match_only, xmlfile, queue, folder,
                            statefile, history>>

\* processFile() could read the file: its items always enlarge the bucket.
ReadFile(doc) ==
    /\ pc = "check" /\ ~closing /\ xmlfile
    /\ pc' = "url" /\ feed' = 1 /\ once' = TRUE
    /\ max_bucket_items' = (max_bucket_items + doc.count) % CountModulus
    /\ queue' = doc.urls
    /\ UNCHANGED <<downloads, bucket_changed, first_run, closing, match_only,
                   xmlfile, folder, statefile, history>>

FileUnreadable ==
    /\ pc = "check" /\ ~closing /\ xmlfile
    /\ pc' = "feed" /\ once' = TRUE
    /\ UNCHANGED <<downloads, max_bucket_items, bucket_changed, first_run, closing,
                   match_only, xmlfile, feed, queue, folder, statefile, history>>

\* The loop's condition after a signal.
LeaveLoop == /\ pc = "check" /\ closing
             /\ pc' = ShutdownPc
             /\ UNCHANGED <<volatile, closing, folder, statefile, history>>

\* Mutant: the option --once is not looked at.
EndPassSleeping ==
    /\ pc = "feed" /\ feed = 0
    /\ first_run' = (first_run /\ xmlfile) /\ pc' = "sleep"
    /\ UNCHANGED <<downloads, max_bucket_items, bucket_changed, closing, once,
                   match_only, xmlfile, feed, queue, folder, statefile, history>>

EndPass == /\ pc = "feed" /\ feed = 0
           /\ first_run' = (first_run /\ xmlfile)
           /\ pc' = IF once THEN ShutdownPc ELSE "sleep"
           /\ UNCHANGED <<downloads, max_bucket_items, bucket_changed, closing, once,
                          match_only, xmlfile, feed, queue, folder, statefile, history>>

\* sleep() ends by itself or because of a signal.
WakeUp == /\ pc = "sleep"
          /\ pc' = "check"
          /\ UNCHANGED <<volatile, closing, folder, statefile, history>>

\* The rest of shutdown_daemon().
Exit == /\ pc = "exit"
        /\ Vanish
        /\ UNCHANGED <<folder, statefile, got, dirty>>
        /\ EndHistory(dirty)

-----------------------------------------------------------------------------
(* processFeed()                                                           *)

\* No response, a code other than 200, or no data: nothing happens.
FeedUnavailable == /\ pc = "feed" /\ feed > 0
                   /\ feed' = feed - 1
                   /\ UNCHANGED <<pc, downloads, max_bucket_items, bucket_changed,
                                  first_run, closing, once, match_only, xmlfile,
                                  queue, folder, statefile, history>>

FeedReceived(doc) ==
    /\ pc = "feed" /\ feed > 0
    /\ pc' = "url"
    /\ queue' = doc.urls
    /\ max_bucket_items' = IF first_run THEN (max_bucket_items + doc.count) % CountModulus
                                        ELSE max_bucket_items
    /\ UNCHANGED <<downloads, bucket_changed, first_run, closing, once, match_only,
                   xmlfile, feed, folder, statefile, history>>

-----------------------------------------------------------------------------
(* processRSSList()                                                        *)

FeedDone == /\ pc = "url" /\ queue = <<>>
            /\ pc' = "feed" /\ feed' = feed - 1
            /\ UNCHANGED <<downloads, max_bucket_items, bucket_changed, first_run, closing,
                           once, match_only, xmlfile, queue, folder, statefile, history>>

SkipUnmatched == /\ pc = "url" /\ queue # <<>> /\ url \notin Match
                 /\ NextUrl
                 /\ UNCHANGED <<downloads, max_bucket_items, bucket_changed, first_run,
                                closing, once, match_only, xmlfile, feed, folder,
                                statefile, history>>

\* --match-only prints the 16-bit feed id with a %s conversion: for the feed
\* with id 0 a null pointer, which the C library prints; for every other feed
\* a wild pointer, which ends the program or prints what happens to be there.
ReportMatch ==
    /\ pc = "url" /\ queue # <<>> /\ url \in Match /\ match_only
    /\ UNCHANGED <<folder, statefile, got, dirty>>
    /\ \/ /\ NextUrl
          /\ UNCHANGED <<downloads, max_bucket_items, bucket_changed, first_run, closing,
                         once, match_only, xmlfile, feed, forgotten, newer>>
       \/ feed > 1 /\ Vanish /\ EndHistory(dirty)

Wanted == url \in Match /\ ~match_only

SkipKnown ==
    /\ pc = "url" /\ queue # <<>> /\ Wanted
    /\ has_been_downloaded(downloads, url) \/ folder[PathOf[url]] # "absent"
    /\ NextUrl
    /\ UNCHANGED <<downloads, max_bucket_items, bucket_changed, first_run, closing,
                   once, match_only, xmlfile, feed, folder, statefile, history>>

\* Mutant: the folder is not looked at.
FoundNewFile ==
    /\ pc = "url" /\ queue # <<>> /\ Wanted
    /\ ~has_been_downloaded(downloads, url)
    /\ pc' = "open"
    /\ UNCHANGED <<volatile, closing, folder, statefile, history>>

FoundNew ==
    /\ pc = "url" /\ queue # <<>> /\ Wanted
    /\ ~has_been_downloaded(downloads, url) /\ folder[PathOf[url]] = "absent"
    /\ pc' = "open"
    /\ UNCHANGED <<volatile, closing, folder, statefile, history>>

-----------------------------------------------------------------------------
(* downloadFile()                                                          *)

\* fopen(filename, "wb") creates or truncates the file.
OpenFile == /\ pc = "open"
            /\ pc' = "transfer"
            /\ folder' = [folder EXCEPT ![PathOf[url]] = "partial"]
            /\ UNCHANGED <<volatile, closing, statefile, history>>

\* fopen() failed, or there is no curl handle (the file was created then):
\* downloadFile() returns NULL.
OpenFails == /\ pc = "open" /\ IOFaults
             /\ NextUrl
             /\ \/ UNCHANGED folder
                \/ folder' = [folder EXCEPT ![PathOf[url]] = "partial"]
             /\ UNCHANGED <<downloads, max_bucket_items, bucket_changed, first_run,
                            closing, once, match_only, xmlfile, feed, statefile, history>>

\* curl_easy_perform() failed: what arrived stays in the file.
TransferFailed ==
    /\ pc = "transfer"
    /\ NextUrl
    /\ UNCHANGED <<downloads, max_bucket_items, bucket_changed, first_run, closing, once,
                   match_only, xmlfile, feed, folder, statefile, history>>

\* An answer other than 200: its body is in the file.
HttpError ==
    /\ pc = "transfer"
    /\ NextUrl
    /\ folder' = [folder EXCEPT ![PathOf[url]] = "error"]
    /\ UNCHANGED <<downloads, max_bucket_items, bucket_changed, first_run, closing, once,
                   match_only, xmlfile, feed, statefile, history>>

\* 200; the result of fclose(), which writes out the last block, is ignored.
TransferComplete ==
    /\ pc = "transfer"
    /\ pc' = "announce"
    /\ \/ folder' = [folder EXCEPT ![PathOf[url]] = "complete"]
       \/ IOFaults /\ UNCHANGED folder
    /\ got' = got \cup {url}
    /\ UNCHANGED <<volatile, closing, statefile, forgotten, dirty, newer>>

-----------------------------------------------------------------------------
(* After a download: notification and script, bucket, state file.          *)

\* prowl_sendNotification() and callDownloadDoneScript(); neither result
\* matters to the daemon.
Announce == /\ pc = "announce"
            /\ pc' = "record"
            /\ UNCHANGED <<volatile, closing, folder, statefile, history>>

Record ==
    /\ pc = "record"
    /\ pc' = "save"
    /\ downloads' = addToBucket(url, downloads, max_bucket_items)
    /\ bucket_changed' = TRUE
    /\ forgotten' = (forgotten \cup { u \in Known : ~bucket_hasURL(u, downloads') }) \ {url}
    /\ newer' = { p \in newer : p[2] # url } \cup { <<url, v>> : v \in Urls \ {url} }
    /\ UNCHANGED <<max_bucket_items, first_run, closing, once, match_only, xmlfile,
                   feed, queue, folder, statefile, got, dirty>>

\* fopen(state_file, "wb") empties the file ...
SaveOpen == /\ pc = "save"
            /\ pc' = "write"
            /\ statefile' = <<>>
            /\ UNCHANGED <<volatile, closing, folder, history>>

\* ... or fails; processRSSList() and shutdown_daemon() ignore the result.
SaveOpenFails ==
    /\ pc = "save" /\ IOFaults
    /\ Saved
    /\ dirty' = TRUE
    /\ UNCHANGED <<downloads, max_bucket_items, bucket_changed, first_run, closing, once,
                   match_only, xmlfile, feed, folder, statefile, got, forgotten, newer>>

SaveClose ==
    /\ pc = "write"
    /\ Saved
    /\ statefile' = downloads
    /\ dirty' = FALSE
    /\ UNCHANGED <<downloads, max_bucket_items, bucket_changed, first_run, closing, once,
                   match_only, xmlfile, feed, folder, got, forgotten, newer>>

\* fwrite() failed, or the unchecked fclose() did.
SaveFails ==
    /\ pc = "write" /\ IOFaults
    /\ Saved
    /\ statefile' \in PartialWrites(downloads)
    /\ dirty' = TRUE
    /\ UNCHANGED <<downloads, max_bucket_items, bucket_changed, first_run, closing, once,
                   match_only, xmlfile, feed, folder, got, forgotten, newer>>

-----------------------------------------------------------------------------
(* The environment.                                                        *)

\* SIGTERM or SIGINT: signal_handler() sets closing.
Signal == /\ pc # "down" /\ ~closing
          /\ closing' = TRUE
          /\ UNCHANGED <<pc, volatile, folder, statefile, history>>

\* kill -9, power loss: a state file that is being written is left cut off.
Crash ==
    /\ Kills /\ pc # "down"
    /\ Vanish
    /\ statefile' \in IF pc = "write" THEN PartialWrites(downloads) \cup {downloads}
                                      ELSE {statefile}
    /\ UNCHANGED <<folder, got, dirty>>
    /\ EndHistory(dirty \/ pc \in {"save", "write"})

\* The user or the download-done script takes a file out of the folder.
Collect(p) ==
    /\ folder[p] # "absent"
    /\ ~(pc = "transfer" /\ PathOf[url] = p)
    /\ folder' = [folder EXCEPT ![p] = "absent"]
    /\ UNCHANGED <<pc, volatile, closing, statefile, history>>

-----------------------------------------------------------------------------

ProcessDocument ==
    \/ FeedDone \/ SkipUnmatched \/ ReportMatch \/ SkipKnown \/ FoundNew
    \/ OpenFile \/ OpenFails \/ TransferFailed \/ HttpError \/ TransferComplete
    \/ Announce \/ Record

SaveState == SaveOpen \/ SaveOpenFails \/ SaveClose \/ SaveFails

ProcessFeed ==
    \/ FeedUnavailable
    \/ \E f \in Feeds : feed = f /\ \E doc \in Listings[f] : FeedReceived(doc)

MainStep ==
    \/ BeginPass \/ LeaveLoop \/ EndPass \/ WakeUp \/ Exit
    \/ FileUnreadable \/ \E doc \in Listings[1] : ReadFile(doc)
    \/ ProcessFeed \/ ProcessDocument \/ SaveState

Environment == Start \/ Signal \/ Crash \/ \E p \in Paths : Collect(p)

Next == MainStep \/ Environment

\* A running process is scheduled; nobody has to start it, stop it or kill it.
Spec == Init /\ [][Next]_vars /\ WF_vars(MainStep)

-----------------------------------------------------------------------------
(* Properties.                                                             *)

PCs == {"down", "check", "feed", "url", "open", "transfer", "announce",
        "record", "save", "write", "sleep", "exit"}
FileStates == {"absent", "partial", "error", "complete"}

\* Every variable has its type.
TypeOK ==
    /\ pc \in PCs
    /\ downloads \in Seq(Entries) /\ statefile \in Seq(Lines)
    /\ max_bucket_items \in 0..(CountModulus - 1)
    /\ bucket_changed \in BOOLEAN /\ first_run \in BOOLEAN /\ closing \in BOOLEAN
    /\ once \in BOOLEAN /\ match_only \in BOOLEAN /\ xmlfile \in BOOLEAN
    /\ feed \in 0..NFeeds /\ queue \in Seq(Urls)
    /\ folder \in [Paths -> FileStates]
    /\ got \subseteq Urls /\ forgotten \subseteq Urls /\ dirty \in BOOLEAN
    /\ newer \subseteq Urls \X Urls

OnceEach(list) ==
    \A i, j \in DOMAIN list : list[i] \in Urls /\ list[i] = list[j] => i = j

\* No URL is recorded twice, neither in the bucket nor in the state file, over
\* any number of restarts and failed saves: processRSSList() asks
\* has_been_downloaded() long before addToBucket() prepends the URL.
NoDuplicateEntries == OnceEach(downloads) /\ OnceEach(statefile)

\* A URL that was fetched is fetched again only if the daemon had a reason to
\* forget it: the bucket pushed it out, a crash or a failed save came between the
\* answer and a finished state file, or a start could not open that file or could
\* not restore a URL of its length.
NoNeedlessDownload ==
    pc \in {"open", "transfer"} /\ url \in got => url \in forgotten

\* Outside save_state(), and unless the last save or the load at the start failed,
\* the state file names every URL of the bucket, and no other but one that
\* load_state() could not restore: a restart at any such point goes on with what
\* the daemon knew.
StateFileCurrent ==
    ~dirty /\ pc \notin {"down", "save", "write"} =>
        Known \subseteq OnDisk /\ OnDisk \ Unrestorable \subseteq Known

\* The history stays bounded over any number of restarts, although load_state()
\* ignores the bucket size and addToBucket() removes at most one entry.
HistoryBounded == Len(downloads) <= DefaultMax + NFeeds * MaxCount

\* The bucket is ordered from the newest to the oldest record, also after it was
\* written line by line and read back line by line: the entry that addToBucket()
\* removes is the oldest.
NewestFirst == OrderOf(downloads) \subseteq newer

\* The daemon never overwrites a completed file, not even for another URL with
\* the same basename: only somebody else takes it away.
NeverClobber ==
    [][\A p \in Paths : folder[p] = "complete" => folder'[p] \in {"complete", "absent"}]_vars

\* A signal ends the daemon, wherever it is.
SignalStops == closing ~> pc = "down"

\* --once (and an XML file) ends the daemon after one pass.
OnceStops == once ~> pc = "down"

-----------------------------------------------------------------------------
(* The promise.                                                            *)

Promise == INSTANCE DownloadOnce WITH
    Items        <- Urls,
    Fragile      <- Unrestorable,
    StoreFaults  <- IOFaults,
    None         <- Torn,
    running      <- pc # "down",
    known        <- Known,
    durable      <- OnDisk,
    fetching     <- InHand

\* The daemon implements DownloadOnce: every start of a download is of an item it
\* does not know, every other step is a step of the promise or invisible in it.
KeepsPromise == Promise!Spec

-----------------------------------------------------------------------------
(* What the repository says and the code does not do.                      *)

\* The log says "File downloaded previously" of every wanted URL it skips: it would
\* not say so of one whose path holds the page of an answer other than 200.
SkippedWasDownloaded ==
    pc = "url" /\ queue # <<>> /\ Wanted /\ folder[PathOf[url]] = "error" => url \in Known

\* The state file is saved after each download to survive a kill -9: whatever
\* else the bucket had is still on disk after the process died in a save.
SurvivesKill ==
    [][pc = "write" /\ pc' = "down" =>
         \A u \in Known : (queue = <<>> \/ u # url) => bucket_hasURL(u, statefile')]_vars

=============================================================================
