------------------------------- MODULE Service -------------------------------
(***************************************************************************)
(* What a start of the daemon promises, whatever forks, descriptors and      *)
(* options are behind it: it either serves or gives up, it serves once, a    *)
(* start that gives up leaves the history on disk as it was, and one that    *)
(* serves lets it only grow, unless it could not be read or a save fails     *)
(* after it has emptied the file.                                          *)
(***************************************************************************)
EXTENDS Integers

VARIABLES status,   \* starting, serving, stopped
          history,  \* downloads on record
          readable, \* the record could be read
          cut       \* the last save did not write it to its end

vars == <<status, history, readable, cut>>

Init == /\ status = "starting" /\ history \in Nat
        /\ readable = TRUE /\ cut = FALSE

Serve == /\ status = "starting" /\ status' = "serving"
         /\ readable' \in BOOLEAN
         /\ UNCHANGED <<history, cut>>

GiveUp == status = "starting" /\ status' = "stopped" /\ UNCHANGED <<history, readable, cut>>

Record == /\ status = "serving"
          /\ status' \in {"serving", "stopped"}
          /\ history' \in Nat /\ cut' \in BOOLEAN
          /\ readable /\ ~cut' => history' >= history
          /\ UNCHANGED readable

Next == Serve \/ GiveUp \/ Record

\* A start does not take for ever.
Spec == Init /\ [][Next]_vars /\ WF_vars(Serve \/ GiveUp)
=============================================================================
