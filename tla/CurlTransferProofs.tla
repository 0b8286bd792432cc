------------------------- MODULE CurlTransferProofs -------------------------
(***************************************************************************)
(* For every size of the fallback buffer, every Content-Length, every split *)
(* of the body and every limit: the callbacks of web.c stay within the      *)
(* block, and the response is the body of the last answer.                  *)
(***************************************************************************)
EXTENDS CurlTransfer, TLAPS

\* A transfer begins with an empty buffer, and only a callback has a piece in hand.
Begun == /\ phase = "header" => buffer_pos = 0
         /\ phase # "write" => pending = 0

\* The buffer never holds more than was received, and all of it unless a piece was
\* lost.
Accounted == /\ buffer_pos + pending <= received
             /\ (~lost /\ phase \in {"header", "body", "write", "done"})
                   => buffer_pos + pending = received
             /\ (~lost /\ data = "null") => buffer_pos = 0

Inv == Sizes /\ Begun /\ Accounted /\ BufferFits /\ ResponseHasBody

LEMMA FlagsInit == Init => Flags
  BY DEF Init, Flags

LEMMA FlagsNext == Flags /\ [Next]_vars => Flags'
<1> SUFFICES ASSUME Flags, [Next]_vars PROVE Flags'
  OBVIOUS
<1>1. isMoveHeader' \in BOOLEAN
  BY DEF Flags, vars, server, Next, Callback, Begin, Location, ContentLength, HeaderEnd, Piece,
     Double, Store, Complete, Retry, Fail, Release, UseAfterFree, Undefined, Restart
<1>2. redirect' \in BOOLEAN
  BY DEF Flags, vars, server, NewResponse, Next, Callback, Begin, Location, ContentLength,
     HeaderEnd, Piece, Double, Store, Complete, Retry, Fail, Release, UseAfterFree, Undefined,
     Restart
<1>3. lost' \in BOOLEAN
  BY DEF Flags, vars, Next, Callback, Begin, Location, ContentLength, HeaderEnd, Piece,
     Double, Store, Complete, Retry, Fail, Release, UseAfterFree, Undefined, Restart
<1> QED BY <1>1, <1>2, <1>3 DEF Flags

LEMMA InvInit == Init => Inv
  BY SizesAssumption DEF Init, Inv, Sizes, Begun, Accounted, BufferFits, ResponseHasBody

\* Every handler of libcurl's callbacks and of the two functions around them keeps
\* the invariant.
LEMMA InvNext == Inv /\ [Next]_vars => Inv'
<1> SUFFICES ASSUME Inv, [Next]_vars PROVE Inv'
  OBVIOUS
<1> USE SizesAssumption DEF Inv, Sizes, Begun, Accounted, BufferFits, ResponseHasBody,
                            buffer, server
<1>1. CASE Begin
  BY <1>1 DEF Begin, Cleared, NewResponse
<1>2. CASE Location
  <2>1. CASE data = "null"
    BY <1>2, <2>1 DEF Location
  <2>2. CASE data # "null"
    BY <1>2, <2>2 DEF Location
  <2> QED BY <2>1, <2>2
<1>3. ASSUME NEW length \in Lengths, ContentLength(length) PROVE Inv'
  <2> length \in Nat
    OBVIOUS
  <2>1. CASE length > 0 /\ ~isMoveHeader
    BY <1>3, <2>1 DEF ContentLength, Resized
  <2>2. CASE ~(length > 0 /\ ~isMoveHeader)
    BY <1>3, <2>2 DEF ContentLength
  <2> QED BY <2>1, <2>2
<1>4. CASE HeaderEnd
  <2>1. CASE redirect
    BY <1>4, <2>1 DEF HeaderEnd, NewResponse
  <2>2. CASE ~redirect
    BY <1>4, <2>2 DEF HeaderEnd
  <2> QED BY <2>1, <2>2
<1>5. ASSUME NEW length \in Pieces, Piece(length) PROVE Inv'
  <2> length \in Nat \ {0}
    OBVIOUS
  <2>1. CASE data = "null"
    BY <1>5, <2>1 DEF Piece, Resized
  <2>2. CASE data # "null"
    BY <1>5, <2>2 DEF Piece
  <2> QED BY <2>1, <2>2
<1>6. CASE Double
  BY <1>6 DEF Double, Needed
<1>7. CASE Store
  <2>1. CASE LoopRan
    BY <1>7, <2>1 DEF Store, Enlarged, Resized, Needed
  <2>2. CASE ~LoopRan
    BY <1>7, <2>2 DEF Store, Enlarged, LoopRan, Needed
  <2> QED BY <2>1, <2>2
<1>8. CASE Complete
  BY <1>8 DEF Complete
<1>9. CASE Retry
  BY <1>9 DEF Retry, Cleared, NewResponse
<1>10. CASE Fail
  BY <1>10 DEF Fail
<1>11. CASE Release
  BY <1>11 DEF Release, Cleared
<1>12. CASE UseAfterFree
  BY <1>12 DEF UseAfterFree, Undefined
<1>13. CASE Restart
  BY <1>13 DEF Restart, Cleared
<1>14. CASE UNCHANGED vars
  BY <1>14 DEF vars
<1> QED
  BY <1>1, <1>2, <1>3, <1>4, <1>5, <1>6, <1>7, <1>8, <1>9, <1>10, <1>11, <1>12,
     <1>13, <1>14 DEF Next, Callback

LEMMA Invariant == Spec => [](Inv /\ Flags)
  BY InvInit, InvNext, FlagsInit, FlagsNext, PTL DEF Spec

\* The counters of the transfer stay in their ranges.
THEOREM TransferTypeCorrect == Spec => []TypeOK
  BY Invariant, PTL DEF Inv, TypeOK

\* write_data_callback() never writes beyond the block it has.
THEOREM WritesWithinBlock == Spec => []BufferFits
  BY Invariant, PTL DEF Inv

\* The response handed to the caller has exactly the body of the last answer.
THEOREM ResponseIsBody == Spec => []ResponseHasBody
  BY Invariant, PTL DEF Inv

=============================================================================
