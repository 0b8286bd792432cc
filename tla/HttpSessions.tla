---------------------------- MODULE HttpSessions ----------------------------
(***************************************************************************)
(* The CURL handles, streams and responses of web.c across a run of the      *)
(* daemon: verifyProwlAPIKey() at the start, then for every feed a poll       *)
(* whose handle stays open while the items are processed, and below it        *)
(* downloadFile() and sendHTTPData(), each with a handle of its own.          *)
(* libcurl and the servers are external: curl_easy_init() may have nothing    *)
(* to give, a request ends with a status or with an error.                    *)
(***************************************************************************)
EXTENDS Integers

CONSTANTS
    Handles,    \* the handles curl_easy_init() can give out
    None,       \* NULL
    MaxTries    \* requests of one notification, 2 in sendHTTPData()

ASSUME HandlesAssumption == None \notin Handles /\ MaxTries \in Nat \ {0}

VARIABLES
    pc,              \* start, verifying, idle, polling, items, downloading, posting
    open,            \* handles not yet cleaned up
    session,         \* curl_session of processFeed() or verifyProwlAPIKey()
    handle,          \* curl_handle of downloadFile() or sendHTTPData()
    tries,           \* sendHTTPData(): requests left
    stream,          \* downloadFile(): the file is open
    answer, response,\* the responses processFeed() and processRSSList() hold
    prowl_key_valid,
    leaked           \* history: sessions of polls that got no response

responses == <<answer, response>>
vars == <<pc, open, session, handle, tries, stream, responses, prowl_key_valid, leaked>>

Init == /\ pc = "start"
        /\ open = {} /\ session = None /\ handle = None /\ tries = 0
        /\ stream = FALSE /\ answer = FALSE /\ response = FALSE
        /\ prowl_key_valid = FALSE /\ leaked = {}

\* am_curl_init(): a new handle, or NULL.
am_curl_init == {None} \cup (Handles \ open)

\* closeCURLSession() of a handle or NULL.
Closed(curl_handle) == open' = open \ {curl_handle}

-----------------------------------------------------------------------------
(* The Prowl key.                                                          *)

NoKey == /\ pc = "start"
         /\ pc' = "idle"
         /\ UNCHANGED <<open, session, handle, tries, stream, responses, prowl_key_valid, leaked>>

\* verifyProwlAPIKey() asks the server, if there is a handle.
VerifyBegin ==
    /\ pc = "start"
    /\ pc' = "verifying"
    /\ session' \in am_curl_init
    /\ open' = open \cup ({session'} \ {None})
    /\ UNCHANGED <<handle, tries, stream, responses, prowl_key_valid, leaked>>

\* Its result is 1, minus the status, or -1 without a response: main() takes
\* everything but 0 for a valid key.
Verified ==
    /\ pc = "verifying"
    /\ pc' = "idle"
    /\ prowl_key_valid' = TRUE
    /\ Closed(session) /\ session' = None
    /\ UNCHANGED <<handle, tries, stream, responses, leaked>>

-----------------------------------------------------------------------------
(* processFeed().                                                          *)

PollBegin ==
    /\ pc = "idle"
    /\ session' \in am_curl_init
    /\ open' = open \cup ({session'} \ {None})
    /\ pc' = IF session' = None THEN "idle" ELSE "polling"
    /\ UNCHANGED <<handle, tries, stream, responses, prowl_key_valid, leaked>>

\* No response: the session getHTTPData() stored is not closed.
PollFails ==
    /\ pc = "polling"
    /\ pc' = "idle"
    /\ session' = None
    /\ leaked' = leaked \cup {session}
    /\ UNCHANGED <<open, handle, tries, stream, responses, prowl_key_valid>>

\* 200 with a body: the items are processed while the session stays open.
PollAnswered ==
    /\ pc = "polling"
    /\ pc' = "items" /\ answer' = TRUE
    /\ UNCHANGED <<open, session, handle, tries, stream, response, prowl_key_valid, leaked>>

\* Another status or no body.
PollRefused ==
    /\ pc = "polling"
    /\ pc' = "idle"
    /\ Closed(session) /\ session' = None
    /\ UNCHANGED <<handle, tries, stream, responses, prowl_key_valid, leaked>>

\* The list is through: the response and the session are given up.
FeedDone ==
    /\ pc = "items"
    /\ pc' = "idle"
    /\ answer' = FALSE
    /\ Closed(session) /\ session' = None
    /\ UNCHANGED <<handle, tries, stream, response, prowl_key_valid, leaked>>

-----------------------------------------------------------------------------
(* downloadFile().                                                         *)

\* am_curl_init() and fopen(), either of which may fail.
DownloadBegin ==
    /\ pc = "items"
    /\ pc' = "downloading"
    /\ handle' \in am_curl_init
    /\ open' = open \cup ({handle'} \ {None})
    /\ stream' \in BOOLEAN
    /\ UNCHANGED <<session, tries, responses, prowl_key_valid, leaked>>

\* Mutant: without a file the function returns at once.
DownloadImpossibleEarly ==
    /\ pc = "downloading" /\ (handle = None \/ ~stream)
    /\ pc' = "items"
    /\ IF stream THEN Closed(handle) ELSE UNCHANGED open
    /\ handle' = None /\ stream' = FALSE
    /\ UNCHANGED <<session, tries, responses, prowl_key_valid, leaked>>

\* The handle or the file is missing: the other one is closed and the caller gets
\* NULL.
DownloadImpossible ==
    /\ pc = "downloading" /\ (handle = None \/ ~stream)
    /\ pc' = "items"
    /\ Closed(handle) /\ handle' = None /\ stream' = FALSE
    /\ UNCHANGED <<session, tries, responses, prowl_key_valid, leaked>>

\* Status or error, there is a response (with status 0 after an error).
DownloadEnds ==
    /\ pc = "downloading" /\ handle # None /\ stream
    /\ response' = TRUE
    /\ Closed(handle) /\ handle' = None /\ stream' = FALSE
    /\ pc' = "downloaded"
    /\ UNCHANGED <<session, tries, answer, prowl_key_valid, leaked>>

\* processRSSList(): without a key nobody is told; otherwise success and failure
\* are both posted.
Unannounced ==
    /\ pc = "downloaded" /\ ~prowl_key_valid
    /\ pc' = "items" /\ response' = FALSE
    /\ UNCHANGED <<open, session, handle, tries, stream, answer, prowl_key_valid, leaked>>

Announced ==
    /\ pc = "downloaded" /\ prowl_key_valid
    /\ pc' = "posting" /\ tries' = MaxTries
    /\ UNCHANGED <<open, session, handle, stream, responses, prowl_key_valid, leaked>>

-----------------------------------------------------------------------------
(* sendHTTPData(), of a notification.                                      *)

\* Mutant: the attempts are not counted.
AttemptUncounted ==
    /\ pc = "posting" /\ tries > 0
    /\ pc' = "sent"
    /\ handle' \in am_curl_init
    /\ open' = open \cup ({handle'} \ {None})
    /\ UNCHANGED <<session, tries, stream, responses, prowl_key_valid, leaked>>

\* Mutant: one attempt too many.
AttemptOneMore ==
    /\ pc = "posting"
    /\ pc' = "sent" /\ tries' = tries - 1
    /\ handle' \in am_curl_init
    /\ open' = open \cup ({handle'} \ {None})
    /\ UNCHANGED <<session, stream, responses, prowl_key_valid, leaked>>

\* The next attempt, with a handle of its own.
Attempt ==
    /\ pc = "posting" /\ tries > 0
    /\ pc' = "sent" /\ tries' = tries - 1
    /\ handle' \in am_curl_init
    /\ open' = open \cup ({handle'} \ {None})
    /\ UNCHANGED <<session, stream, responses, prowl_key_valid, leaked>>

\* Mutant: the handle closed after a 409 is not set to NULL.
RefusedStale ==
    /\ pc = "sent" /\ handle # None
    /\ pc' = "posting"
    /\ Closed(handle)
    /\ UNCHANGED <<session, handle, tries, stream, responses, prowl_key_valid, leaked>>

\* 409.
Refused ==
    /\ pc = "sent" /\ handle # None
    /\ pc' = "posting"
    /\ Closed(handle) /\ handle' = None
    /\ UNCHANGED <<session, tries, stream, responses, prowl_key_valid, leaked>>

\* Another status or an error, or there was no handle, or no attempt is left: the
\* handle is closed, the response of the server and of the download are freed.
PostEnds ==
    /\ pc = "sent" \/ (pc = "posting" /\ tries = 0)
    /\ pc' = "items" /\ response' = FALSE
    /\ Closed(handle) /\ handle' = None
    /\ UNCHANGED <<session, tries, stream, answer, prowl_key_valid, leaked>>

-----------------------------------------------------------------------------

Post == Attempt \/ Refused \/ PostEnds

Next == \/ NoKey \/ VerifyBegin \/ Verified
        \/ PollBegin \/ PollFails \/ PollAnswered \/ PollRefused \/ FeedDone
        \/ DownloadBegin \/ DownloadImpossible \/ DownloadEnds \/ Unannounced \/ Announced
        \/ Post

\* A request ends, by its answer or by CURLOPT_TIMEOUT.
Spec == Init /\ [][Next]_vars /\ WF_vars(Post)

-----------------------------------------------------------------------------
(* Properties.                                                             *)

Flags == /\ stream \in BOOLEAN /\ answer \in BOOLEAN /\ response \in BOOLEAN
         /\ prowl_key_valid \in BOOLEAN

Ranges == /\ pc \in {"start", "verifying", "idle", "polling", "items", "downloading",
                     "downloaded", "posting", "sent"}
          /\ open \subseteq Handles /\ leaked \subseteq Handles
          /\ session \in Handles \cup {None} /\ handle \in Handles \cup {None}
          /\ tries \in 0 .. MaxTries

TypeOK == Flags /\ Ranges

\* A handle is used and cleaned up only while it is open: never after a 409, an
\* aborted download or a refused poll has closed it, and never twice.
NoStaleHandle == {session, handle} \subseteq open \cup {None}

\* Only a poll without a response loses a handle. Every other path gives back what it
\* took: NULL handles, files that cannot be opened, every status, both attempts of a
\* notification.
OnlyFailedPollsLeak ==
    /\ open \subseteq leaked \cup {session, handle}
    /\ pc = "idle" => session = None /\ handle = None /\ ~stream /\ ~answer /\ ~response

\* A server that answers 409 for ever gets two requests and the daemon goes on.
NotificationEnds == pc = "posting" ~> pc = "items"

=============================================================================
