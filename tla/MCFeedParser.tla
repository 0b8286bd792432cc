---------------------------- MODULE MCFeedParser ----------------------------
(***************************************************************************)
(* Documents of FeedParser for TLC: one item node with every sequence of up *)
(* to three of the children below, or two nodes of up to two children each. *)
(***************************************************************************)
EXTENDS Integers

CONSTANT NULL

Node(name, text) == [name |-> name, text |-> text, attributes |-> <<>>]
Enclosure(attributes) == [name |-> "enclosure", text |-> NULL, attributes |-> attributes]
Attribute(name, text) == [name |-> name, text |-> text]

MCTexts == {"t", "l", "e", "video", "audio"}

MCChildren ==
    { Node("title", "t"), Node("title", NULL), Node("link", "l"), Node("link", NULL),
      Node("pubDate", NULL),
      Enclosure(<<Attribute("url", "e"), Attribute("length", NULL), Attribute("type", "video")>>),
      Enclosure(<<Attribute("content", "audio"), Attribute("url", "e")>>),
      Enclosure(<<Attribute("type", "audio"), Attribute("url", "e"), Attribute("content", "video")>>),
      Enclosure(<<Attribute("type", "video")>>) }

Nodes(n) == UNION {[1..m -> MCChildren] : m \in 0..n}

MCDocuments == {<<>>} \cup {<<n>> : n \in Nodes(3)} \cup {<<m, n>> : m, n \in Nodes(2)}
=============================================================================
