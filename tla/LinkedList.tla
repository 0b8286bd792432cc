----------------------------- MODULE LinkedList -----------------------------
(***************************************************************************)
(* list.c on a heap of nodes: one caller's list, its head pointer, and every *)
(* step of the loops that walk or rebuild it. An element is the block behind *)
(* node->data: the list owns it from the insertion on and frees it with the  *)
(* node.                                                                    *)
(***************************************************************************)
EXTENDS SequencesExt, Integers

CONSTANTS
    Nodes,          \* what am_malloc(sizeof(NODE)) can return
    Elements,       \* the blocks callers insert
    MaxLost,        \* bound on the nodes for which there is no memory
    NULL

HeapAssumption ==
    NULL \notin Nodes \cup Elements /\ IsFiniteSet(Nodes) /\ MaxLost \in Nat

VARIABLES
    pc,      \* the function that runs: rest, append, last, unlink, reverse, free
    head,    \* the caller's list
    next, data,      \* the fields of the nodes, NULL in free nodes
    nodes, elements, \* the blocks that are allocated
    current, result, \* the local pointers of the function that runs
    newnode,
    lost     \* history: elements for which there was no node

heap == <<next, data, nodes, elements>>
locals == <<current, result, newnode>>
vars == <<pc, head, heap, locals, lost>>

Init == /\ pc = "rest" /\ head = NULL
        /\ next = [n \in Nodes |-> NULL] /\ data = [n \in Nodes |-> NULL]
        /\ nodes = {} /\ elements = {}
        /\ current = NULL /\ result = NULL /\ newnode = NULL
        /\ lost = {}

-----------------------------------------------------------------------------
(* Nodes.                                                                  *)

\* am_malloc() of a node for an element, and the two assignments after it.
Allocated(n, elem, follow) ==
    /\ n \in Nodes \ nodes /\ elem \in Elements \ elements
    /\ nodes' = nodes \cup {n} /\ elements' = elements \cup {elem}
    /\ next' = [next EXCEPT ![n] = follow] /\ data' = [data EXCEPT ![n] = elem]

\* The element and the node are freed; the rest of the heap has the links given.
Freed(n, links) ==
    /\ nodes' = nodes \ {n} /\ elements' = elements \ {data[n]}
    /\ next' = [links EXCEPT ![n] = NULL] /\ data' = [data EXCEPT ![n] = NULL]

Rested == pc' = "rest" /\ current' = NULL /\ result' = NULL /\ newnode' = NULL

-----------------------------------------------------------------------------
(* Inserting.                                                              *)

addToHead(elem) == /\ pc = "rest"
                   /\ \E n \in Nodes : Allocated(n, elem, head) /\ head' = n
                   /\ UNCHANGED <<pc, locals, lost>>

\* am_malloc() fails: the answer is -1, which addToBucket() and addItem() do not look at, and
\* nobody has the element any more.
NoNode(elem) == /\ pc = "rest" /\ elem \notin elements /\ Cardinality(lost) < MaxLost
                /\ elements' = elements \cup {elem} /\ lost' = lost \cup {elem}
                /\ UNCHANGED <<pc, head, next, data, nodes, locals>>

addToTail(elem) == /\ pc = "rest"
                   /\ \E n \in Nodes : Allocated(n, elem, NULL) /\ newnode' = n
                   /\ pc' = "append" /\ current' = head
                   /\ UNCHANGED <<head, result, lost>>

\* The loop of addNodeLast(), getLastNode() and deleteLast(), which keeps the node
\* before in result.
Walk == /\ pc \in {"append", "last", "unlink"}
        /\ current # NULL /\ next[current] # NULL
        /\ current' = next[current] /\ result' = current
        /\ UNCHANGED <<pc, head, heap, newnode, lost>>

AtEnd == IF current = NULL THEN TRUE ELSE next[current] = NULL

\* Mutant: addNodeLast() does not look at an empty list.
AppendedLost == /\ pc = "append" /\ AtEnd
                /\ next' = IF current = NULL THEN next ELSE [next EXCEPT ![current] = newnode]
                /\ Rested
                /\ UNCHANGED <<head, data, nodes, elements, lost>>

Appended == /\ pc = "append" /\ AtEnd
            /\ IF current = NULL THEN head' = newnode /\ UNCHANGED next
               ELSE next' = [next EXCEPT ![current] = newnode] /\ UNCHANGED head
            /\ Rested
            /\ UNCHANGED <<data, nodes, elements, lost>>

-----------------------------------------------------------------------------
(* Removing.                                                               *)

removeFirst == /\ pc = "rest" /\ head # NULL
               /\ Freed(head, next) /\ head' = next[head]
               /\ UNCHANGED <<pc, locals, lost>>

\* removeLast() gets the head by value and could not clear it: its caller,
\* addToBucket(), has two elements at least. It walks to the end, frees the element, ...
removeLast == /\ pc = "rest"
              /\ head # NULL => next[head] # NULL
              /\ pc' = "last" /\ current' = head
              /\ UNCHANGED <<head, heap, result, newnode, lost>>

LastElementFreed == /\ pc = "last" /\ AtEnd
                    /\ elements' = IF current = NULL THEN elements ELSE elements \ {data[current]}
                    /\ pc' = "unlink" /\ current' = head /\ result' = NULL
                    /\ UNCHANGED <<head, next, data, nodes, newnode, lost>>

\* ... and deleteLast() walks there again and frees the node.
Unlinked ==
    /\ pc = "unlink" /\ AtEnd
    /\ IF current = NULL THEN UNCHANGED heap
       ELSE Freed(current, IF result = NULL THEN next ELSE [next EXCEPT ![result] = NULL])
    /\ Rested
    /\ UNCHANGED <<head, lost>>

freeList == /\ pc = "rest"
            /\ pc' = "free"
            /\ UNCHANGED <<head, heap, locals, lost>>

FreeStep == /\ pc = "free"
            /\ IF head = NULL THEN Rested /\ UNCHANGED <<head, heap>>
               ELSE Freed(head, next) /\ head' = next[head] /\ UNCHANGED <<pc, locals>>
            /\ UNCHANGED lost

-----------------------------------------------------------------------------
(* Reversing.                                                              *)

reverseList == /\ pc = "rest"
               /\ pc' = "reverse" /\ current' = head /\ result' = NULL
               /\ UNCHANGED <<head, heap, newnode, lost>>

ReverseStep == /\ pc = "reverse" /\ current # NULL
               /\ next' = [next EXCEPT ![current] = result]
               /\ result' = current /\ current' = next[current]
               /\ UNCHANGED <<pc, head, data, nodes, elements, newnode, lost>>

\* Mutant: the caller keeps the old head.
ReversedBehind == /\ pc = "reverse" /\ current = NULL
                  /\ Rested
                  /\ UNCHANGED <<head, heap, lost>>

Reversed == /\ pc = "reverse" /\ current = NULL
            /\ head' = result
            /\ Rested
            /\ UNCHANGED <<heap, lost>>

-----------------------------------------------------------------------------

Running == Walk \/ Appended \/ LastElementFreed \/ Unlinked \/ FreeStep \/ ReverseStep \/ Reversed

Next == \/ \E elem \in Elements : addToHead(elem) \/ addToTail(elem) \/ NoNode(elem)
        \/ removeFirst \/ removeLast \/ freeList \/ reverseList
        \/ Running

\* A function that was called is executed.
Spec == Init /\ [][Next]_vars /\ WF_vars(Running)

-----------------------------------------------------------------------------
(* Properties.                                                             *)

\* The nodes from one on, in order; listCount() is the length of this.
Chain(first) ==
    LET at[k \in 0 .. Cardinality(Nodes)] ==
            IF k = 0 THEN first
            ELSE IF at[k - 1] = NULL THEN NULL ELSE next[at[k - 1]]
        length == Cardinality({k \in DOMAIN at : at[k] # NULL})
    IN [k \in 1 .. length |-> at[k - 1]]

Contents(first) == [k \in DOMAIN Chain(first) |-> data[Chain(first)[k]]]

TypeOK ==
    /\ pc \in {"rest", "append", "last", "unlink", "reverse", "free"}
    /\ next \in [Nodes -> Nodes \cup {NULL}] /\ data \in [Nodes -> Elements \cup {NULL}]
    /\ nodes \subseteq Nodes /\ elements \subseteq Elements /\ lost \subseteq elements
    /\ {head, current, result, newnode} \subseteq Nodes \cup {NULL}

\* Between calls every allocated node and element is in the list, once, but for an element for
\* which there was no node: nothing else leaks, nothing in the list is freed memory.
ListOwnsHeap ==
    pc = "rest" => /\ Range(Chain(head)) = nodes /\ Range(Contents(head)) = elements \ lost
                   /\ IsInjective(Chain(head)) /\ IsInjective(Contents(head))

\* A function never follows a pointer into a node that was freed.
NoDangling == {head, current, result} \subseteq nodes \cup {NULL}

\* Every loop ends: the links never form a cycle.
CallsReturn == pc # "rest" ~> pc = "rest"

\* The sequence the heap stands for. While reverseList() runs it is what has been turned
\* already, turned back, and the rest.
Items == IF pc = "reverse" THEN Reverse(Contents(result)) \o Contents(current)
         ELSE Contents(head)

Promise == INSTANCE ListSpec WITH items <- Items

\* The pointer code implements the sequence: an insertion, removal or reversal takes
\* effect in one step, wherever its loops are.
IsASequence == Promise!Spec

=============================================================================
