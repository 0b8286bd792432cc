------------------------------- MODULE Bucket -------------------------------
(***************************************************************************)
(* The history bucket of downloads.c: the list of the URLs that were       *)
(* downloaded, newest first, cut to a maximum length as it grows.          *)
(* A simple_list is the sequence of its nodes' data; LinkedList.tla shows   *)
(* that the pointer code of list.c behaves as these sequence operators.    *)
(***************************************************************************)
EXTENDS Naturals, Sequences, SequencesExt

\* Mutant: the walk stops before the last node.
bucket_hasURLBeforeLast(url, head) == \E i \in 1..(Len(head) - 1) : head[i] = url

\* bucket_hasURL(): strcmp against every node of the list.
bucket_hasURL(url, head) == \E i \in DOMAIN head : head[i] = url

has_been_downloaded(bucket, url) == bucket_hasURL(url, bucket)

\* removeLast() on a list of two or more nodes (the only lists on which
\* addToBucket calls it).
removeLast(head) == Front(head)

\* Mutant: one entry too many is kept.
TooLargeByOne(head, maxBucketItems) ==
    maxBucketItems > 0 /\ Len(head) > maxBucketItems + 1

\* The bucket has outgrown its maximum; a maximum of 0 means "no limit".
TooLarge(head, maxBucketItems) ==
    maxBucketItems > 0 /\ Len(head) > maxBucketItems

addToBucket(identifier, head, maxBucketItems) ==
    LET longer == Cons(identifier, head)
    IN  IF TooLarge(longer, maxBucketItems) THEN removeLast(longer) ELSE longer

=============================================================================
