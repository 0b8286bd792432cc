---------------------------- MODULE DownloadOnce ----------------------------
(***************************************************************************)
(* What the daemon promises about downloads, without feeds, files or       *)
(* buckets: an item is fetched only while it is not known, one at a time;  *)
(* a finished fetch makes it known and may push one older item out; what a *)
(* process knows ends with it, and the next one goes on with what is        *)
(* durable, but for the fragile items, or with nothing when the store       *)
(* cannot be read.  Durable is what was known at the last save, except that *)
(* a save which does not end may leave any part.                           *)
(***************************************************************************)
CONSTANTS
    Items,
    Fragile,      \* items that the store does not give back
    StoreFaults,  \* whether the store may be unreadable
    None          \* no item

VARIABLES running, known, durable, fetching

vars == <<running, known, durable, fetching>>

Init == running = FALSE /\ known = {} /\ durable = {} /\ fetching = None

Begin(item) == /\ running /\ fetching = None /\ item \notin known
               /\ fetching' = item
               /\ UNCHANGED <<running, known, durable>>

\* The fetch failed.
Abandon == /\ fetching # None
           /\ fetching' = None
           /\ UNCHANGED <<running, known, durable>>

Finish == /\ fetching # None
          /\ \/ known' = known \cup {fetching}
             \/ \E old \in known : known' = (known \ {old}) \cup {fetching}
          /\ fetching' = None
          /\ UNCHANGED <<running, durable>>

\* A save begins, ends, or leaves a part of what is known.
Save == /\ running /\ fetching = None
        /\ durable' \in SUBSET known
        /\ UNCHANGED <<running, known, fetching>>

\* A process starts from the store.
Start == /\ ~running
         /\ running' = TRUE
         /\ \/ known' = durable \ Fragile
            \/ StoreFaults /\ known' = {}
         /\ UNCHANGED <<durable, fetching>>

\* It ends, of itself or killed, perhaps in a save.
Stop == /\ running
        /\ running' = FALSE /\ known' = {} /\ fetching' = None
        /\ \/ UNCHANGED durable
           \/ fetching = None /\ durable' \in SUBSET known

Next == \/ \E item \in Items : Begin(item)
        \/ Abandon \/ Finish \/ Save \/ Start \/ Stop

Spec == Init /\ [][Next]_vars
=============================================================================
