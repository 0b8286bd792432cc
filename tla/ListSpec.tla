------------------------------ MODULE ListSpec ------------------------------
(* What list.c promises its callers: a list is a sequence of elements, and every *)
(* function changes it at once or not at all.                                   *)
EXTENDS SequencesExt

CONSTANT Elements

VARIABLE items

Init == items = <<>>

Insert(elem) == items' = <<elem>> \o items \/ items' = Append(items, elem)
Drop == items # <<>> /\ (items' = Tail(items) \/ items' = Front(items))
Turn == items' = Reverse(items)

Next == (\E elem \in Elements : Insert(elem)) \/ Drop \/ Turn

Spec == Init /\ [][Next]_items

=============================================================================
