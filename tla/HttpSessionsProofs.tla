------------------------- MODULE HttpSessionsProofs -------------------------
(***************************************************************************)
(* For every supply of handles and number of attempts: no handle is used or *)
(* cleaned up after it was closed, and only failed polls lose one.           *)
(***************************************************************************)
EXTENDS HttpSessions, TLAPS

\* The handles a poll, a call below it and the lost ones have are different.
OwnHandles == /\ leaked \subseteq open
              /\ session \notin leaked /\ handle \notin leaked
              /\ session # None => session # handle

\* Where each resource may be held.
Held == /\ pc \in {"start", "idle"} => session = None
        /\ pc = "polling" => session # None
        /\ handle # None => pc \in {"downloading", "sent"}
        /\ stream => pc = "downloading"
        /\ response => pc \in {"downloaded", "posting", "sent"}
        /\ answer => pc \in {"items", "downloading", "downloaded", "posting", "sent"}

Inv == Ranges /\ NoStaleHandle /\ OnlyFailedPollsLeak /\ OwnHandles /\ Held

LEMMA FlagsInit == Init => Flags
  BY DEF Init, Flags

LEMMA FlagsNext == Flags /\ [Next]_vars => Flags'
<1> SUFFICES ASSUME Flags, [Next]_vars PROVE Flags'
  OBVIOUS
<1> USE DEF Flags, vars, responses
<1>1. CASE NoKey \/ VerifyBegin \/ Verified
  BY <1>1 DEF NoKey, VerifyBegin, Verified
<1>2. CASE PollBegin \/ PollFails \/ PollAnswered \/ PollRefused \/ FeedDone
  BY <1>2 DEF PollBegin, PollFails, PollAnswered, PollRefused, FeedDone
<1>3. CASE DownloadBegin
  BY <1>3 DEF DownloadBegin
<1>4. CASE DownloadImpossible \/ DownloadEnds \/ Unannounced \/ Announced
  BY <1>4 DEF DownloadImpossible, DownloadEnds, Unannounced, Announced
<1>5. CASE Post
  BY <1>5 DEF Post, Attempt, Refused, PostEnds
<1>6. CASE UNCHANGED vars
  BY <1>6
<1> QED BY <1>1, <1>2, <1>3, <1>4, <1>5, <1>6 DEF Next

LEMMA InvInit == Init => Inv
  BY HandlesAssumption DEF Init, Inv, Ranges, NoStaleHandle, OnlyFailedPollsLeak, OwnHandles, Held

\* Every call and return keeps the handles apart and accounted for.
LEMMA InvNext == Inv /\ [Next]_vars => Inv'
<1> SUFFICES ASSUME Inv, [Next]_vars PROVE Inv'
  OBVIOUS
<1> USE HandlesAssumption DEF Inv, Ranges, NoStaleHandle, OnlyFailedPollsLeak, OwnHandles, Held,
                              am_curl_init, Closed, responses
<1>1. CASE NoKey
  BY <1>1 DEF NoKey
<1>2. CASE VerifyBegin
  BY <1>2 DEF VerifyBegin
<1>3. CASE Verified
  BY <1>3 DEF Verified
<1>4. CASE PollBegin
  BY <1>4 DEF PollBegin
<1>5. CASE PollFails
  BY <1>5 DEF PollFails
<1>6. CASE PollAnswered
  BY <1>6 DEF PollAnswered
<1>7. CASE PollRefused
  BY <1>7 DEF PollRefused
<1>8. CASE FeedDone
  BY <1>8 DEF FeedDone
<1>9. CASE DownloadBegin
  BY <1>9 DEF DownloadBegin
<1>10. CASE DownloadImpossible
  BY <1>10 DEF DownloadImpossible
<1>11. CASE DownloadEnds
  BY <1>11 DEF DownloadEnds
<1>12. CASE Unannounced
  BY <1>12 DEF Unannounced
<1>13. CASE Announced
  BY <1>13 DEF Announced
<1>14. CASE Attempt
  BY <1>14 DEF Attempt
<1>15. CASE Refused
  BY <1>15 DEF Refused
<1>16. CASE PostEnds
  BY <1>16 DEF PostEnds
<1>17. CASE UNCHANGED vars
  BY <1>17 DEF vars
<1> QED
  BY <1>1, <1>2, <1>3, <1>4, <1>5, <1>6, <1>7, <1>8, <1>9, <1>10, <1>11, <1>12, <1>13,
     <1>14, <1>15, <1>16, <1>17 DEF Next, Post

LEMMA Invariant == Spec => [](Inv /\ Flags)
  BY InvInit, InvNext, FlagsInit, FlagsNext, PTL DEF Spec

\* The variables keep their types.
THEOREM SessionsTypeCorrect == Spec => []TypeOK
  BY Invariant, PTL DEF Inv, TypeOK

\* No handle is used, or closed again, after closeCURLSession().
THEOREM HandlesUsedWhileOpen == Spec => []NoStaleHandle
  BY Invariant, PTL DEF Inv

\* Whatever fails, every handle but that of a poll without a response is given back.
THEOREM HandlesGivenBack == Spec => []OnlyFailedPollsLeak
  BY Invariant, PTL DEF Inv

=============================================================================
