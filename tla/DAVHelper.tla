------------------------------- MODULE DAVHelper -------------------------------
(***************************************************************************)
(* DAVHelper: what the CardDAV and CalDAV helpers read from the body of a  *)
(* WebDAV answer.  A node of the XML is                                    *)
(*   [name |-> its tag, kids |-> its children, text |-> its text]          *)
(* where a text node has the tag Text.  Texts are sequences: <<>> is one of*)
(* spaces and line ends only.  A body has a root, "" when libxml2 cannot    *)
(* parse it or there is nothing, and the root's children.                  *)
(***************************************************************************)
EXTENDS Integers, Sequences, SequencesExt

Text == "#text"

Elem(name, kids) == [name |-> name, kids |-> kids, text |-> <<>>]
TextNode(text) == [name |-> Text, kids |-> <<>>, text |-> text]

\* The elements of s at the indices I, in their order.
Those(s, I) == [k \in 1..Cardinality(I) |-> s[CHOOSE i \in I : Cardinality({j \in I : j <= i}) = k]]

\* One level down the tree, with the tags passed on the way: a branch ends at a
\* node without children.
Down(branches) ==
  UNION {IF b.node.kids = <<>> THEN {b}
         ELSE {[path |-> Append(b.path, b.node.name), node |-> k] : k \in ToSet(b.node.kids)} : b \in branches}

\* The code goes down as far as the tree does.  What the storages read is an
\* element, an element in it, and a text in that at most.
Leaves(prop) == Down(Down({[path |-> <<>>, node |-> k] : k \in ToSet(prop.kids)}))

\* A property is a path of tags, and an element without children is one with
\* an empty value.  A text of spaces only is no value at all.
SubProperties(prop) ==
  {<<Append(b.path, b.node.name), <<>> >> : b \in {l \in Leaves(prop) : l.node.name # Text}} \cup
  {<<b.path, b.node.text>> : b \in {l \in Leaves(prop) : l.node.name = Text /\ l.node.text # <<>>}}

Properties(prop) ==
  LET found == SubProperties(prop)
  IN  [name \in {p[1] : p \in found} |-> (CHOOSE p \in found : p[1] = name)[2]]

\* "HTTP/1.1 200 OK": the second of at least three words.
StatusCode(line) == IF Len(line) < 3 THEN 0 ELSE line[2]

\* The children of a propstat element, in whatever order they come.
PropStat(node) ==
  [status |-> StatusCode((CHOOSE k \in ToSet(node.kids) : k.name = "status").text),
   properties |-> Properties(CHOOSE k \in ToSet(node.kids) : k.name = "prop")]

ParseResponse(node) ==
  [href |-> (CHOOSE k \in ToSet(node.kids) : k.name = "href").text,
   properties |-> LET stats == Those(node.kids, {i \in DOMAIN node.kids : node.kids[i].name = "propstat"})
                  IN  [i \in DOMAIN stats |-> PropStat(stats[i])],
   error |-> UNION {DOMAIN Properties(k) : k \in {e \in ToSet(node.kids) : e.name = "error"}}]

IsMultistatus(body) == body.root = "multistatus"

Responses(body) ==
  LET nodes == Those(body.kids, {i \in DOMAIN body.kids : body.kids[i].name = "response"})
  IN  [i \in DOMAIN nodes |-> ParseResponse(nodes[i])]

\* A body without the element leaves the caller's token as it was.
SyncToken(body, token) ==
  LET given == {k.text : k \in {n \in ToSet(body.kids) : n.name = "sync-token"}} \ {<<>>}
  IN  IF given = {} THEN token ELSE CHOOSE t \in given : TRUE

\* Only what the server reports with status 200 is there.
HasProperty(response, name) ==
  \E i \in DOMAIN response.properties :
    response.properties[i].status = 200 /\ name \in DOMAIN response.properties[i].properties

\* The responses with a property.
Having(responses, name) == Those(responses, {i \in DOMAIN responses : HasProperty(responses[i], name)})

GetProperty(response, name) ==
  IF HasProperty(response, name)
  THEN LET i == CHOOSE i \in DOMAIN response.properties :
             /\ response.properties[i].status = 200
             /\ name \in DOMAIN response.properties[i].properties
       IN  response.properties[i].properties[name]
  ELSE <<>>

HasError(response, error) == error \in response.error

================================================================================
