---------------------------- MODULE CurlTransfer ----------------------------
(***************************************************************************)
(* One HTTP transfer into memory: write_header_callback() and              *)
(* write_data_callback() of web.c as libcurl calls them, between            *)
(* WebData_new() and WebData_free() in getHTTPData() and sendHTTPData().    *)
(* Bytes are counted, not kept; the block behind response->data is null,   *)
(* live with the size it was allocated with, or freed but still pointed to.*)
(*                                                                         *)
(* libcurl (external) hands over the header lines of every response of a    *)
(* redirect chain, drops the bodies of the redirects it follows, and hands *)
(* over the body of the last response in pieces.                           *)
(***************************************************************************)
EXTENDS Integers

CONSTANTS
    DATA_BUFFER_SIZE, \* the fallback size
    Lengths,          \* the Content-Length values servers send
    Pieces,           \* the sizes of the pieces of a body
    MaxRedirs,        \* CURLOPT_MAXREDIRS
    MaxBody,          \* bound on the bytes of one body
    AllocMayFail      \* malloc() and realloc() may return NULL

ASSUME SizesAssumption ==
    /\ DATA_BUFFER_SIZE \in Nat \ {0}
    /\ Lengths \subseteq Nat /\ Pieces \subseteq Nat \ {0}
    /\ MaxRedirs \in Nat /\ MaxBody \in Nat /\ AllocMayFail \in BOOLEAN

VARIABLES
    phase,        \* idle, header, body, write (in write_data_callback), done, crashed
    data,         \* response->data: "null", "live" or "freed"
    allocated,    \* the size of the live block
    buffer_size, buffer_pos,
    isMoveHeader, \* static: it survives the transfer
    tries,        \* sendHTTPData(): attempts left; 0 for getHTTPData()
    seen,         \* header fields of this response so far
    redirect,     \* this response will be followed to its Location
    hops,         \* redirects followed
    pending,      \* write_data_callback(): line_len
    answer,       \* size of the HTTPResponse, -1 for NULL
    received,     \* history: body bytes libcurl has handed over
    lost          \* history: a piece could not be stored

buffer == <<data, allocated, buffer_size, buffer_pos>>
server == <<seen, redirect, hops>>
vars == <<phase, buffer, isMoveHeader, tries, server, pending, answer, received, lost>>

Init == /\ phase = "idle"
        /\ data = "null" /\ allocated = 0 /\ buffer_size = 0 /\ buffer_pos = 0
        /\ isMoveHeader = FALSE
        /\ tries = 0 /\ seen = {} /\ redirect = FALSE /\ hops = 0
        /\ pending = 0 /\ answer = -1 /\ received = 0 /\ lost = FALSE

-----------------------------------------------------------------------------
(* Blocks.                                                                 *)

\* Mutant: WebData_clear() forgets buffer_pos.
ClearedHalf == data' = "null" /\ allocated' = 0 /\ buffer_size' = 0 /\ UNCHANGED buffer_pos

\* WebData_new(), WebData_clear(), HTTPData_new().
Cleared == data' = "null" /\ allocated' = 0 /\ buffer_size' = 0 /\ buffer_pos' = 0

\* am_malloc()/am_realloc() to the given size.
Resized(size) ==
    \/ data' = "live" /\ allocated' = size
    \/ AllocMayFail /\ data' = "null" /\ allocated' = 0

\* Freed memory was freed, resized, read or written: the build's choice.
Undefined == /\ phase' = "crashed"
             /\ UNCHANGED <<buffer, isMoveHeader, tries, server, pending, answer,
                            received, lost>>

-----------------------------------------------------------------------------
(* The transfer.                                                           *)

NewResponse == seen' = {} /\ redirect' \in BOOLEAN

\* getHTTPData() or the first attempt of sendHTTPData().
Begin == /\ phase = "idle"
         /\ phase' = "header"
         /\ tries' \in {0, 1}
         /\ Cleared /\ NewResponse
         /\ hops' = 0 /\ pending' = 0 /\ answer' = -1 /\ received' = 0 /\ lost' = FALSE
         /\ UNCHANGED isMoveHeader

\* The Location line frees what a Content-Length line has allocated; the pointer
\* keeps its value.
Location ==
    /\ phase = "header" /\ "location" \notin seen
    /\ isMoveHeader' = TRUE
    /\ seen' = seen \cup {"location"}
    /\ IF data = "null" THEN UNCHANGED buffer
       ELSE data' = "freed" /\ allocated' = 0 /\ UNCHANGED <<buffer_size, buffer_pos>>
    /\ data # "freed"
    /\ UNCHANGED <<phase, tries, redirect, hops, pending, answer, received, lost>>

\* The Content-Length line sizes the buffer, unless a Location line came before
\* it in the same response.
ContentLength(length) ==
    /\ phase = "header" /\ "length" \notin seen
    /\ seen' = seen \cup {"length"}
    /\ IF length > 0 /\ ~isMoveHeader
       THEN /\ data # "freed"
            /\ buffer_size' = length + 1
            /\ Resized(length + 1)
            /\ UNCHANGED buffer_pos
       ELSE UNCHANGED buffer
    /\ UNCHANGED <<phase, isMoveHeader, tries, redirect, hops, pending, answer, received, lost>>

\* The empty line: libcurl follows the redirect, gives up after too many, or
\* goes on to the body.
HeaderEnd ==
    /\ phase = "header" /\ (redirect => "location" \in seen)
    /\ isMoveHeader' = FALSE
    /\ IF redirect
       THEN /\ hops < MaxRedirs
            /\ hops' = hops + 1 /\ NewResponse
            /\ UNCHANGED phase
       ELSE phase' = "body" /\ UNCHANGED server
    /\ UNCHANGED <<buffer, tries, pending, answer, received, lost>>

\* Mutant: the size of the fallback buffer is not noted.
PieceUnsized(length) ==
    /\ phase = "body" /\ data # "freed" /\ received + length <= MaxBody
    /\ phase' = "write" /\ pending' = length /\ received' = received + length
    /\ IF data = "null" THEN Resized(DATA_BUFFER_SIZE) /\ UNCHANGED <<buffer_size, buffer_pos>>
       ELSE UNCHANGED buffer
    /\ UNCHANGED <<isMoveHeader, tries, server, answer, lost>>

\* write_data_callback() is called; without a buffer it makes the fallback one.
Piece(length) ==
    /\ phase = "body" /\ data # "freed" /\ received + length <= MaxBody
    /\ phase' = "write" /\ pending' = length /\ received' = received + length
    /\ IF data = "null"
       THEN buffer_size' = DATA_BUFFER_SIZE /\ Resized(DATA_BUFFER_SIZE) /\ UNCHANGED buffer_pos
       ELSE UNCHANGED buffer
    /\ UNCHANGED <<isMoveHeader, tries, server, answer, lost>>

\* Mutant: the terminating zero is forgotten.
NeededTight == buffer_pos + pending

\* What the piece and the terminating zero need.
Needed == buffer_pos + pending + 1

\* One round of the doubling loop.
Double == /\ phase = "write" /\ Needed > buffer_size
          /\ buffer_size' = 2 * buffer_size
          /\ UNCHANGED <<phase, data, allocated, buffer_pos, isMoveHeader, tries, server,
                         pending, answer, received, lost>>

\* The size was doubled: data is live with a smaller block, or the fallback block
\* could not be had.
LoopRan == buffer_size # IF data = "live" THEN allocated ELSE DATA_BUFFER_SIZE

Enlarged == IF LoopRan THEN Resized(buffer_size) ELSE UNCHANGED <<data, allocated>>

\* The block gets the doubled size and the piece is copied; without memory the
\* piece is dropped, with what came before it, and libcurl is told it was taken.
Store == /\ phase = "write" /\ Needed <= buffer_size
         /\ phase' = "body" /\ pending' = 0
         /\ Enlarged
         /\ IF data' = "live" THEN buffer_pos' = buffer_pos + pending /\ UNCHANGED lost
            ELSE lost' = TRUE /\ UNCHANGED buffer_pos
         /\ UNCHANGED <<buffer_size, isMoveHeader, tries, server, answer, received>>

\* curl_easy_perform() returned 0: the response is copied out.
Complete == /\ phase = "body" /\ data # "freed"
            /\ phase' = "done"
            /\ answer' = IF data = "null" THEN 0 ELSE buffer_pos
            /\ UNCHANGED <<buffer, isMoveHeader, tries, server, pending, received, lost>>

\* Mutant: the second attempt keeps the answer of the first.
RetryKeeping == /\ phase = "body" /\ tries > 0 /\ data # "freed"
                /\ phase' = "header" /\ tries' = tries - 1
                /\ UNCHANGED buffer /\ NewResponse
                /\ hops' = 0 /\ received' = 0 /\ lost' = FALSE
                /\ UNCHANGED <<isMoveHeader, pending, answer>>

\* sendHTTPData(): 409 on the first attempt; the second starts from nothing.
Retry == /\ phase = "body" /\ tries > 0 /\ data # "freed"
         /\ phase' = "header" /\ tries' = tries - 1
         /\ Cleared /\ NewResponse
         /\ hops' = 0 /\ received' = 0 /\ lost' = FALSE
         /\ UNCHANGED <<isMoveHeader, pending, answer>>

\* curl_easy_perform() failed, at any point between two callbacks, also between
\* the lines of a header; or a second 409: no response.
Fail == /\ phase \in {"header", "body"} /\ data # "freed"
        /\ phase' = "done" /\ answer' = -1
        /\ UNCHANGED <<buffer, isMoveHeader, tries, server, pending, received, lost>>

\* WebData_free().
Release == /\ phase = "done"
           /\ phase' = "idle"
           /\ Cleared
           /\ UNCHANGED <<isMoveHeader, tries, server, pending, answer, received, lost>>

\* Every further use of a freed buffer: a later Content-Length line, a second
\* Location line, a piece of the body, and in any case the end of the transfer.
UseAfterFree == /\ phase \in {"header", "body"} /\ data = "freed"
                /\ Undefined

\* The process is started again.
Restart == /\ phase = "crashed"
           /\ phase' = "idle"
           /\ Cleared
           /\ isMoveHeader' = FALSE
           /\ UNCHANGED <<tries, server, pending, answer, received, lost>>

-----------------------------------------------------------------------------

Callback == Double \/ Store

Next == \/ Begin \/ Location \/ HeaderEnd
        \/ \E length \in Lengths : ContentLength(length)
        \/ \E length \in Pieces : Piece(length)
        \/ Callback
        \/ Complete \/ Retry \/ Fail \/ Release \/ UseAfterFree \/ Restart

\* A callback that was called runs to its end.
Spec == Init /\ [][Next]_vars /\ WF_vars(Callback)

-----------------------------------------------------------------------------
(* Properties.                                                             *)

Flags == isMoveHeader \in BOOLEAN /\ redirect \in BOOLEAN /\ lost \in BOOLEAN

Sizes ==
    /\ phase \in {"idle", "header", "body", "write", "done", "crashed"}
    /\ data \in {"null", "live", "freed"}
    /\ allocated \in Nat /\ buffer_size \in Nat /\ buffer_pos \in 0 .. MaxBody
    /\ tries \in 0 .. 1 /\ seen \subseteq {"location", "length"} /\ hops \in 0 .. MaxRedirs
    /\ pending \in {0} \cup Pieces /\ received \in 0 .. MaxBody /\ answer \in -1 .. MaxBody

TypeOK == Flags /\ Sizes

\* What write_data_callback() has written, the terminating zero included, lies
\* within the block: for every Content-Length the server claims (none, too small,
\* too large), every split of the body into pieces, redirects, a retry after 409 and
\* allocations that fail.
BufferFits == (data = "live" /\ phase # "write") => buffer_pos < allocated

\* A response holds the body of the last answer and of no other: nothing of the
\* attempt the server refused with 409, nothing of an earlier transfer.
ResponseHasBody == (phase = "done" /\ answer # -1 /\ ~lost) => answer = received

\* The doubling loop ends: the callback returns to libcurl.
CallbackReturns == phase = "write" ~> phase = "body"

=============================================================================
