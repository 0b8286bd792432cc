---------------------------- MODULE Notification ----------------------------
(***************************************************************************)
(* prowl.c: what a notification says, and whether it was delivered. A text   *)
(* is its length; NULL is printed as "(null)". The transfers below it are    *)
(* HttpSessions.                                                           *)
(***************************************************************************)
EXTENDS FiniteSetsExt, Integers

CONSTANTS
    Keys,       \* lengths of prowl_key
    Names,      \* lengths of the names of items, NULL among them
    DescSize,   \* 500, of desc
    UrlSize,    \* 128, of url
    NULL

NotificationAssumption ==
    /\ Keys \subseteq Nat \ {0} /\ Names \subseteq Nat \cup {NULL} /\ NULL \notin Nat
    /\ DescSize \in Nat \ {0} /\ UrlSize \in Nat \ 0 .. 45

VARIABLES
    pc,             \* start, verified, message, sent
    key,            \* as configured
    asked,          \* of the key, what the server was asked about
    event, desc,    \* of the message
    total_size,     \* of the block for the message, 0 for none
    data_size,      \* as snprintf() said
    responseCode,   \* NULL without a response
    result

vars == <<pc, key, asked, event, desc, total_size, data_size, responseCode, result>>

Init == /\ pc = "start" /\ key \in Keys /\ asked = 0 /\ event = 0 /\ desc = 0
        /\ total_size = 0 /\ data_size = 0 /\ responseCode = NULL /\ result = 0

-----------------------------------------------------------------------------

NewTrailer == 11        \* "New Trailer"
DownloadFailed == 23    \* "Trailer Download Failed"

Printed(text) == IF text = NULL THEN 6 ELSE text

\* snprintf() into a buffer keeps all but the NUL.
CutTo(size, length) == Min({length, size - 1})

\* The URL of the key check is 45 characters long without the key.
verifyProwlAPIKey ==
    /\ pc = "start" /\ pc' = "verified"
    /\ asked' = CutTo(UrlSize, 45 + key) - 45
    /\ UNCHANGED <<key, event, desc, total_size, data_size, responseCode, result>>

\* The names of the fields take 63 characters.
MessageLength(k, e, d) == 63 + k + Printed(e) + Printed(d)

\* createProwlMessage() adds up the lengths of what there is.
MessageRoom(k, e, d) ==
    80 + k + (IF e = NULL THEN 0 ELSE e) + (IF d = NULL THEN 0 ELSE d)

\* prowl_sendNotification(); there may be no memory for the message.
prowl_sendNotification(e, name) ==
    /\ pc = "verified"
    /\ event' = e /\ desc' = CutTo(DescSize, Printed(name))
    /\ \/ /\ total_size' = MessageRoom(key, e, desc')
          /\ data_size' = MessageLength(key, e, desc')
          /\ pc' = "message" /\ UNCHANGED result
       \/ pc' = "sent" /\ result' = -1 /\ UNCHANGED <<total_size, data_size>>
    /\ UNCHANGED <<key, asked, responseCode>>

\* sendProwlNotification(): no response, one of Prowl's errors, or 200.
Sent == /\ pc = "message" /\ pc' = "sent"
        /\ responseCode' \in {NULL, 200, 400, 401, 405, 406, 500}
        /\ result' = CASE responseCode' = NULL -> -1
                       [] responseCode' = 200 -> 1
                       [] OTHER -> -responseCode'
        /\ UNCHANGED <<key, asked, event, desc, total_size, data_size>>

Forget == /\ pc = "sent" /\ pc' = "verified"
          /\ event' = 0 /\ desc' = 0 /\ total_size' = 0 /\ data_size' = 0
          /\ responseCode' = NULL /\ result' = 0
          /\ UNCHANGED <<key, asked>>

Next == \/ verifyProwlAPIKey
        \/ \E e \in {NewTrailer, DownloadFailed}, name \in Names : prowl_sendNotification(e, name)
        \/ Sent \/ Forget

Spec == Init /\ [][Next]_vars

-----------------------------------------------------------------------------
(* Properties.                                                             *)

\* The variables have their types.
TypeOK == /\ pc \in {"start", "verified", "message", "sent"} /\ key \in Keys
          /\ {asked, event, desc, total_size, data_size} \subseteq Nat
          /\ result \in {-1, 0, 1} \cup {-code : code \in {400, 401, 405, 406, 500}}

\* What is posted ends inside the block it was printed to, with the whole key, event and name but
\* for the end of a name that desc has no room for; and the key in it is the one that was checked,
\* unless that is longer than the URL of the check.
MessageWhole ==
    pc = "message" => /\ data_size < total_size
                      /\ data_size = 63 + key + event + desc
                      /\ asked = key \/ asked + 45 = UrlSize - 1

=============================================================================
