----------------------------- MODULE FeedParser -----------------------------
(***************************************************************************)
(* xml_parser.c and feed_item.c: parse_xmldata() turns a document into a    *)
(* list of feed items, one child node and one attribute at a time. libxml's *)
(* tree is the input: a document is the sequence of its //item nodes, a     *)
(* node the sequence of its children. A text is NULL where it is empty,     *)
(* which is what am_strdup() makes of it.                                   *)
(***************************************************************************)
EXTENDS SequencesExt, Integers

CONSTANTS
    Documents,      \* the documents libxml can parse
    Texts,          \* the texts of their nodes
    VideoTypes,     \* the texts that begin with "video/"
    NULL

Attribute == [name : STRING, text : Texts \cup {NULL}]
Child == [name : STRING, text : Texts \cup {NULL}, attributes : Seq(Attribute)]

DocumentsAssumption ==
    /\ NULL \notin Texts /\ NULL \notin Documents /\ VideoTypes \subseteq Texts
    /\ Documents \subseteq Seq(Seq(Child))

VARIABLES
    pc,             \* data, items, children, attributes, done, aborted
    ndebug,         \* the build leaves assert() out (configure.ac does, but for --enable-debug)
    doc,            \* the parsed document, NULL if there is none
    todo,           \* the item nodes that are left, the first one being read
    child,          \* the children of that node that are left
    attr,           \* the attributes of that child that are left
    item,           \* the feed item that is filled, NULL between nodes
    name_set,
    enclosure,      \* url and type of the enclosure that is read, NULL outside one
    rss_items, item_count, \* what the caller gets
    blocks          \* how many blocks of the heap are allocated

input == <<ndebug, doc>>
output == <<rss_items, item_count>>
vars == <<pc, input, todo, child, attr, item, name_set, enclosure, output, blocks>>

newFeedItem == [name |-> NULL, urls |-> <<>>]
newNode == [url |-> NULL, type |-> NULL]

Init == /\ pc = "data" /\ ndebug \in BOOLEAN
        /\ doc = NULL /\ todo = <<>> /\ child = <<>> /\ attr = <<>>
        /\ item = NULL /\ name_set = FALSE /\ enclosure = NULL
        /\ rss_items = <<>> /\ item_count = 0 /\ blocks = 0

\* The blocks a text takes.
Block(text) == IF text = NULL THEN 0 ELSE 1

\* A list owns a node and an element per entry; an item is a block, its name and its urls.
ItemBlocks(i) == 1 + Block(i.name) + 2 * Len(i.urls)

-----------------------------------------------------------------------------
(* parse_xmldata().                                                        *)

\* No data, nothing libxml could recover, or no XPath context: no items.
Unparsable == /\ pc = "data" /\ pc' = "done"
              /\ UNCHANGED <<input, todo, child, attr, item, name_set, enclosure, output, blocks>>

\* ttl is a pointer that is never 0, so //channel/ttl is not looked at.
Parsed == /\ pc = "data" /\ pc' = "items"
          /\ doc' \in Documents /\ todo' = doc' /\ item_count' = Len(doc')
          /\ UNCHANGED <<ndebug, child, attr, item, name_set, enclosure, rss_items, blocks>>

Extracted == /\ pc = "items" /\ todo = <<>> /\ pc' = "done"
             /\ UNCHANGED <<input, todo, child, attr, item, name_set, enclosure, output, blocks>>

-----------------------------------------------------------------------------
(* extract_feed_items().                                                   *)

SkipEmptyNode ==
    /\ pc = "items" /\ todo # <<>> /\ Head(todo) = <<>>
    /\ todo' = Tail(todo)
    /\ UNCHANGED <<pc, input, child, attr, item, name_set, enclosure, output, blocks>>

OpenItem ==
    /\ pc = "items" /\ todo # <<>> /\ Head(todo) # <<>>
    /\ pc' = "children" /\ child' = Head(todo)
    /\ item' = newFeedItem /\ name_set' = FALSE /\ blocks' = blocks + 1
    /\ UNCHANGED <<input, todo, attr, enclosure, output>>

Abort == /\ pc' = "aborted"
         /\ UNCHANGED <<input, todo, child, attr, item, name_set, enclosure, output, blocks>>

\* getNodeText() asserts that its destination is unset; without assert() it overwrites it.
Refuses(dest) == ~ndebug /\ dest # NULL

AtChild(name) == pc = "children" /\ child # <<>> /\ Head(child).name = name

ReadTitle ==
    /\ AtChild("title")
    /\ IF Refuses(item.name)
       THEN Abort
       ELSE LET text == Head(child).text IN
            /\ item' = [item EXCEPT !.name = text] /\ name_set' = (text # NULL)
            /\ blocks' = blocks + Block(text) /\ child' = Tail(child)
            /\ UNCHANGED <<pc, input, todo, attr, enclosure, output>>

\* Mutant: The urls in document order.
WithUrlLast(url) == [item EXCEPT !.urls = Append(@, url)]

\* addItem() puts a url in front of the others.
WithUrl(url) == [item EXCEPT !.urls = <<url>> \o @]

ReadLink ==
    /\ AtChild("link")
    /\ LET link == Head(child).text IN
         IF link = NULL THEN UNCHANGED <<item, blocks>>
                        ELSE item' = WithUrl(link) /\ blocks' = blocks + 2
    /\ child' = Tail(child)
    /\ UNCHANGED <<pc, input, todo, attr, name_set, enclosure, output>>

OpenEnclosure ==
    /\ AtChild("enclosure")
    /\ pc' = "attributes" /\ attr' = Head(child).attributes
    /\ enclosure' = newNode /\ blocks' = blocks + 1
    /\ UNCHANGED <<input, todo, child, item, name_set, output>>

SkipChild ==
    /\ pc = "children" /\ child # <<>>
    /\ Head(child).name \notin {"title", "link", "enclosure"}
    /\ child' = Tail(child)
    /\ UNCHANGED <<pc, input, todo, attr, item, name_set, enclosure, output, blocks>>

Kept == name_set /\ item.urls # <<>>

\* An item with a name and a url goes to the front of the list, any other is freed.
CloseItem ==
    /\ pc = "children" /\ child = <<>>
    /\ IF Kept THEN rss_items' = <<item>> \o rss_items /\ blocks' = blocks + 1
               ELSE blocks' = blocks - ItemBlocks(item) /\ UNCHANGED rss_items
    /\ item' = NULL /\ todo' = Tail(todo) /\ pc' = "items"
    /\ UNCHANGED <<input, child, attr, name_set, enclosure, item_count>>

-----------------------------------------------------------------------------
(* getNodeAttributes().                                                    *)

\* "content" and "type" are two names of the same field.
FieldOf(name) == CASE name = "url" -> {"url"}
                   [] name \in {"content", "type"} -> {"type"}
                   [] OTHER -> {}

ReadAttribute ==
    /\ pc = "attributes" /\ attr # <<>>
    /\ LET field == FieldOf(Head(attr).name) IN
         IF \E f \in field : Refuses(enclosure[f])
         THEN Abort
         ELSE /\ enclosure' = [f \in DOMAIN enclosure |->
                                 IF f \in field THEN Head(attr).text ELSE enclosure[f]]
              /\ blocks' = IF field = {} THEN blocks ELSE blocks + Block(Head(attr).text)
              /\ attr' = Tail(attr)
              /\ UNCHANGED <<pc, input, todo, child, item, name_set, output>>

IsVideo == enclosure.url # NULL /\ enclosure.type \in VideoTypes

\* Mutant: freeNode() forgets the type.
NodeBlocksTypeless == 1 + Block(enclosure.url)

NodeBlocks == 1 + Block(enclosure.url) + Block(enclosure.type)

\* The url of a video is copied into the item; freeNode().
CloseEnclosure ==
    /\ pc = "attributes" /\ attr = <<>>
    /\ item' = IF IsVideo THEN WithUrl(enclosure.url) ELSE item
    /\ blocks' = blocks - NodeBlocks + (IF IsVideo THEN 2 ELSE 0)
    /\ enclosure' = NULL /\ child' = Tail(child) /\ pc' = "children"
    /\ UNCHANGED <<input, todo, attr, name_set, output>>

-----------------------------------------------------------------------------
Next == \/ Unparsable \/ Parsed \/ Extracted
        \/ SkipEmptyNode \/ OpenItem \/ CloseItem
        \/ ReadTitle \/ ReadLink \/ SkipChild
        \/ OpenEnclosure \/ ReadAttribute \/ CloseEnclosure

Spec == Init /\ [][Next]_vars

-----------------------------------------------------------------------------
(* Properties.                                                             *)

\* Every list of the parser is a rest of the document; an item that is listed has a name and a url.
TypeOK ==
    /\ pc \in {"data", "items", "children", "attributes", "done", "aborted"}
    /\ ndebug \in BOOLEAN /\ name_set \in BOOLEAN
    /\ doc # NULL => item_count = Len(doc)
    /\ doc # NULL => IsSuffix(todo, doc)
    /\ todo # <<>> => IsSuffix(child, Head(todo))
    /\ item # NULL => item.name \in Texts \cup {NULL} /\ item.urls \in Seq(Texts)
    /\ enclosure # NULL => {enclosure.url, enclosure.type} \subseteq Texts \cup {NULL}
    /\ \A i \in DOMAIN rss_items : rss_items[i].name \in Texts /\ rss_items[i].urls \in Seq(Texts) \ {<<>>}
    /\ item_count \in Nat /\ blocks \in Nat

\* The text of the last field that has one of the names.
TextOf(fields, names) ==
    LET named == {i \in DOMAIN fields : fields[i].name \in names}
    IN  IF named = {} THEN NULL ELSE fields[Max(named)].text

\* The url a child stands for, NULL if none.
UrlOf(c) == CASE c.name = "link" -> c.text
              [] c.name = "enclosure" /\ TextOf(c.attributes, {"content", "type"}) \in VideoTypes
                   -> TextOf(c.attributes, {"url"})
              [] OTHER -> NULL

UrlsOf(node) ==
    FlattenSeq([i \in DOMAIN node |-> IF UrlOf(node[i]) = NULL THEN <<>> ELSE <<UrlOf(node[i])>>])

Meaning(node) == [name |-> TextOf(node, {"title"}), urls |-> Reverse(UrlsOf(node))]

Wanted(i) == i.name # NULL /\ i.urls # <<>>

ItemsOf(document) ==
    FlattenSeq([i \in DOMAIN document |->
                  IF Wanted(Meaning(document[i])) THEN <<Meaning(document[i])>> ELSE <<>>])

\* The caller gets, last one first, every item of the document that has a title and something to
\* download, with all its urls; item_count counts the other items as well (the bucket's size is
\* computed from it). This is what extract_feed_items() is for, whatever the order of the children.
ItemsAsListed ==
    pc = "done" /\ doc # NULL =>
      /\ rss_items = Reverse(ItemsOf(doc))
      /\ item_count = Len(doc)

\* A field that has a text is set again: what the assertion of getNodeText() rules out.
Twice(fields, names) ==
    \E i, j \in DOMAIN fields : /\ i < j /\ {fields[i].name, fields[j].name} \subseteq names
                               /\ fields[i].text # NULL
SetTwice(node) == \/ Twice(node, {"title"})
                  \/ \E c \in ToSet(node) : \/ Twice(c.attributes, {"url"})
                                            \/ Twice(c.attributes, {"content", "type"})

\* What a list owns, its oldest items first.
ListBlocks(list) ==
    LET owned[n \in 0 .. Len(list)] ==
          IF n = 0 THEN 0 ELSE owned[n - 1] + 1 + ItemBlocks(list[Len(list) - n + 1])
    IN  owned[Len(list)]

\* parse_xmldata() leaves no block behind that the list it returns does not own, and frees none
\* that the list needs, on every way through extract_feed_items(): a document that sets no field
\* twice costs exactly what freeList(&items, freeFeedItem) gives back.
NothingLeaks ==
    pc = "done" => \/ blocks = ListBlocks(rss_items)
                   \/ \E node \in ToSet(doc) : SetTwice(node)

=============================================================================
