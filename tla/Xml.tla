-------------------------------- MODULE Xml --------------------------------
(***************************************************************************)
(* Documents written as XML by domCif.cpp and read back by Parser.cpp and  *)
(* Document.cpp: what a property set or an action goes through between two *)
(* programs of this library.                                               *)
(*                                                                         *)
(* Text is a sequence of units: a character of the mark-up, a name, a      *)
(* letter, an entity or a comment.  A document is the sequence of its      *)
(* nodes in document order, each with the place of its parent; attributes  *)
(* are kept with their element.                                            *)
(***************************************************************************)
EXTENDS Integers, Sequences, FiniteSets, SequencesExt

CONSTANTS Elements,     \* names of elements
          AttributeSets,\* sequences of attributes, each [name, value]
          Texts,        \* contents of text nodes
          MaxNodes,     \* nodes of a document below its root
          MaxRead,      \* nodes read at most: some texts are read for ever
          MaxArguments  \* of an action or a property set

XmlAssumption == MaxNodes \in Nat /\ MaxRead \in Nat /\ MaxArguments \in Nat

VARIABLES tree,      \* the document that was written
          text,      \* the text of it
          parser,    \* where getNextToken stands
          node,      \* what getNextNode returns
          attrFound, atLeastOneAttrFound, lastElem,   \* of getNextNode
          read,      \* the document read so far
          path,      \* CurrentNodePtr and its ancestors, outermost first
          pc

xmlVars == <<tree, text, parser, node, attrFound, atLeastOneAttrFound, lastElem,
             read, path, pc>>

TextNode == <<"#text">>
White == {" ", "\n"}
Comment == "<!-- -->"
Quote == "QUOT"
MarkUp == {"<", ">", "/", "=", "&", Quote, Comment} \cup White
End == "END"

Entity == ("<" :> "&lt;") @@ (">" :> "&gt;") @@ ("&" :> "&amp;") @@ ("'" :> "&apos;")
Entities == {Entity[c] : c \in DOMAIN Entity} \cup {"&quot;"}
IsName(u) == u \notin MarkUp \cup Entities \cup {End, "'"}

Node(parent, name, attrs, value) ==
    [parent |-> parent, name |-> name, attrs |-> attrs, value |-> value]
Document == <<Node(0, <<"#document">>, <<>>, <<>>)>>
Add(T, parent, name, attrs, value) == Append(T, Node(parent, name, attrs, value))

-----------------------------------------------------------------------------
(* The functions of upnptools.c that build a document. *)
Root(name, prefix) ==
    Add(Document, 1, <<name>>, <<[name |-> <<prefix>>, value |-> <<"urn">>]>>, <<>>)

Leaf(T, parent, name, value) ==
    Add(Add(T, parent, name, <<>>, <<>>), Len(T) + 1, TextNode, <<>>, value)

UpnpAddToAction(T, ArgName, ArgValue) == Leaf(T, 2, ArgName, ArgValue)

UpnpAddToPropertySet(T, ArgName, ArgValue) ==
    LET U == Add(T, 2, <<"e:property">>, <<>>, <<>>) IN Leaf(U, Len(U), ArgName, ArgValue)

(* UpnpMakeAction and UpnpCreatePropertySet take all the arguments at once. *)
Made(root, AddTo(_, _, _)) ==
    LET docs[k \in 0..MaxArguments] ==
            IF k = 0 THEN {root}
            ELSE docs[k - 1] \cup
                 {AddTo(T, name, value) : T \in docs[k - 1], name \in Elements, value \in Texts}
    IN  docs[MaxArguments]
UpnpMakeAction == Made(Root("u:Action", "xmlns:u"), UpnpAddToAction)
UpnpCreatePropertySet == Made(Root("e:propertyset", "xmlns:e"), UpnpAddToPropertySet)

-----------------------------------------------------------------------------
(* Any document with up to MaxNodes nodes below its root, texts only as    *)
(* first children: what follows an element is not read back, see Suitable. *)
Lineage(T, i) ==
    LET up[k \in 1..Len(T)] == {k} \cup IF k = 1 THEN {} ELSE up[T[k].parent] IN up[i]
Below(T) ==
    {Add(T, p, name, attrs, <<>>) : p \in {q \in Lineage(T, Len(T)) \ {1} : T[q].name # TextNode},
                                    name \in Elements, attrs \in AttributeSets}
    \cup {Add(T, Len(T), TextNode, <<>>, value) :
             value \in {v \in Texts : Last(T).name # TextNode}}
Documents ==
    LET docs[k \in 0..MaxNodes] ==
            IF k = 0 THEN {Add(Document, 1, name, attrs, <<>>) :
                              name \in Elements, attrs \in AttributeSets}
            ELSE docs[k - 1] \cup UNION {Below(T) : T \in docs[k - 1]}
    IN  docs[MaxNodes]

-----------------------------------------------------------------------------
(* copy_with_escape: a quotation mark is left as it is. *)
Escaped(value) ==
    [i \in DOMAIN value |-> IF value[i] \in DOMAIN Entity THEN Entity[value[i]] ELSE value[i]]

Children(T, i) == SetToSortSeq({c \in DOMAIN T : T[c].parent = i}, <)

PrintedAttributes(attrs) ==
    FlattenSeq([k \in DOMAIN attrs |->
        <<" ", " ">> \o attrs[k].name \o <<"=", Quote>> \o Escaped(attrs[k].value) \o <<Quote>>])

(* dump_doc *)
Printed(T) ==
    LET dump_doc[i \in DOMAIN T] ==
            LET kids == Children(T, i)
                inside == FlattenSeq([k \in DOMAIN kids |-> dump_doc[kids[k]]])
                start == <<"<">> \o T[i].name \o PrintedAttributes(T[i].attrs)
            IN  IF i = 1 THEN inside
                ELSE IF T[i].name = TextNode THEN Escaped(T[i].value)
                ELSE IF kids = <<>> THEN start \o <<"/", ">", "\n">>
                ELSE start \o (IF T[Head(kids)].name = TextNode THEN <<">">> ELSE <<">", "\n">>)
                     \o inside \o <<"<", "/">> \o T[i].name \o <<">", "\n">>
    IN  dump_doc[1]

(* The text as it is, or with a comment at its start or between two tags. *)
Commented(s) ==
    {s} \cup {InsertAt(s, i, Comment) : i \in {1} \cup {j \in 2..Len(s) : s[j - 1] = "\n"}}

-----------------------------------------------------------------------------
(* The tokens of Parser.cpp. *)
At(i) == IF i \in DOMAIN text THEN text[i] ELSE End
First(from, Stop(_)) ==
    CHOOSE i \in from..(Len(text) + 1) :
        /\ Stop(At(i)) \/ i = Len(text) + 1
        /\ \A j \in from..(i - 1) : ~Stop(At(j))

IgnoreWhiteSpaces(p) == [p EXCEPT !.CurrPtr = First(p.CurrPtr, LAMBDA u : u \notin White)]

(* copy_token: an entity becomes its character, any other ampersand an error. *)
Character(u) ==
    IF u = "&quot;" THEN Quote
    ELSE IF u \in Entities THEN CHOOSE c \in DOMAIN Entity : Entity[c] = u
    ELSE u

(* getNextToken gives the token, whether there is one (none at the end of  *)
(* the text is not an error) and where the parser stands then.             *)
Token(p, from, len) ==
    LET s == SubSeq(text, from, from + len - 1)
    IN  [ok |-> "&" \notin Range(s), token |-> [i \in DOMAIN s |-> Character(s[i])],
         parser |-> [p EXCEPT !.CurrPtr = from + len]]

PastComments(p) ==
    IF At(p.CurrPtr) # Comment THEN p
    ELSE [p EXCEPT !.TagVal = FALSE,
                   !.CurrPtr = First(p.CurrPtr, LAMBDA u : u \notin White \cup {Comment})]

(* Mutant: content taken from where the white space ended. *)
ContentStartTrimmed(p) == p.CurrPtr

(* Content is taken from the end of the tag, so that its leading spaces count. *)
ContentStart(p) == p.SavePtr + 1
Lexeme(p) ==
    LET q == p.CurrPtr
        c == At(q)
        next == At(q + 1)
    IN  CASE c = "<" /\ next = "/"         -> Token([p EXCEPT !.TagVal = FALSE], q, 2)
          [] c = "<" /\ IsName(next)       -> Token([p EXCEPT !.TagVal = FALSE], q, 1)
          [] c = "/" /\ next = ">"         -> Token([p EXCEPT !.TagVal = TRUE], q, 2)
          [] c = ">"                       -> Token([p EXCEPT !.TagVal = TRUE, !.SavePtr = q], q, 1)
          [] c \in {Quote, "="} /\ ~p.TagVal -> Token(p, q, 1)
          [] IsName(c) /\ ~p.TagVal        -> Token(p, q, First(q, LAMBDA u : ~IsName(u)) - q)
          [] /\ p.TagVal /\ c \notin {"<", ">", End}
             /\ ~(c = "/" /\ next = ">")   ->
                LET start == ContentStart(p)
                IN  Token([p EXCEPT !.TagVal = FALSE], start,
                          First(start, LAMBDA u : u = "<") - start)
          [] OTHER                         -> [Token(p, q, 0) EXCEPT !.ok = c = End]

getNextToken(p) ==
    LET c == At(p.CurrPtr)
    IN  IF c = End THEN Token(p, p.CurrPtr, 0)
        ELSE IF p.inAttrib /\ c # Quote
        THEN Token(p, p.CurrPtr, First(p.CurrPtr, LAMBDA u : u = Quote) - p.CurrPtr)
        ELSE IF c \in White THEN [Token(p, p.CurrPtr, 1) EXCEPT !.token = <<" ">>]
        ELSE Lexeme(PastComments(p))

Next(p) == getNextToken(IgnoreWhiteSpaces(p))

-----------------------------------------------------------------------------
NoNode == [type |-> "invalid", name |-> <<>>, value |-> <<>>, IsEnd |-> FALSE]

XmlInit ==
    /\ tree \in Documents \cup UpnpMakeAction \cup UpnpCreatePropertySet
    /\ text = <<>>
    /\ parser = [CurrPtr |-> 1, SavePtr |-> 0, TagVal |-> FALSE, inAttrib |-> FALSE]
    /\ node = NoNode
    /\ attrFound = TRUE /\ atLeastOneAttrFound = FALSE /\ lastElem = <<>>
    /\ read = Document /\ path = <<1>>
    /\ pc = "print"

(* The text arrives at another program, which starts to read it: NodeType  *)
(* and IsEnd are not initialised before the first node is read.            *)
DumpDocument ==
    /\ pc = "print"
    /\ text' \in Commented(Printed(tree))
    /\ \E t \in {"invalid", "element", "attribute"}, e \in BOOLEAN :
          node' = [NoNode EXCEPT !.type = t, !.IsEnd = e]
    /\ pc' = "getNextNode"
    /\ UNCHANGED <<tree, parser, attrFound, atLeastOneAttrFound, lastElem, read, path>>

Fail ==
    /\ pc' = "failed"
    /\ UNCHANGED <<parser, node, attrFound, atLeastOneAttrFound, lastElem>>
Return(n) == pc' = "node" /\ node' = n

(* The loop of getNextNode: one disjunct for each thing a token may be. *)
EndOfText ==
    /\ At(parser.CurrPtr) = End
    /\ Return(node)
    /\ UNCHANGED <<parser, attrFound, atLeastOneAttrFound, lastElem>>

BadToken == ~Next(parser).ok /\ Fail

(* The name of the element; its attributes, ">" or "/>" come in later turns. *)
StartTag(t) ==
    LET n == Next(t.parser)
    IN  /\ t.token = <<"<">>
        /\ IF ~n.ok \/ n.token = <<>> THEN Fail
           ELSE /\ parser' = n.parser
                /\ node' = [NoNode EXCEPT !.type = "element", !.name = n.token]
                /\ lastElem' = n.token
                /\ attrFound' = TRUE /\ atLeastOneAttrFound' = FALSE
                /\ pc' = "getNextNode"

TagEnds(t) ==
    /\ t.token = <<">">>
    /\ parser' = t.parser
    /\ attrFound' = FALSE /\ atLeastOneAttrFound' = FALSE
    /\ IF atLeastOneAttrFound THEN UNCHANGED <<pc, node>> ELSE Return(node)
    /\ UNCHANGED lastElem

EndTag(t) ==
    LET n == Next(t.parser)
    IN  /\ t.token = <<"<", "/">>
        /\ IF ~n.ok \/ n.token = <<>> THEN Fail
           ELSE /\ parser' = n.parser
                /\ node' = [NoNode EXCEPT !.type = "element", !.name = n.token, !.IsEnd = TRUE]
                /\ pc' = "getNextNode"
                /\ UNCHANGED <<attrFound, atLeastOneAttrFound, lastElem>>

Rewound(p, n) == [p EXCEPT !.CurrPtr = @ - n]

(* The element is returned first; "/>" is then read again and ends it. *)
EmptyTag(t) ==
    /\ t.token = <<"/", ">">>
    /\ IF node.type \in {"element", "attribute"}
       THEN /\ parser' = Rewound(t.parser, Len(t.token))
            /\ Return([node EXCEPT !.IsEnd = FALSE])
            /\ UNCHANGED <<attrFound, atLeastOneAttrFound>>
       ELSE /\ parser' = t.parser
            /\ Return([NoNode EXCEPT !.type = "element", !.name = lastElem, !.IsEnd = TRUE])
            /\ attrFound' = TRUE /\ atLeastOneAttrFound' = FALSE
    /\ UNCHANGED lastElem

NoToken(t) ==
    /\ t.token = <<>>
    /\ parser' = t.parser
    /\ node' = [node EXCEPT !.IsEnd = FALSE]
    /\ UNCHANGED <<attrFound, atLeastOneAttrFound, lastElem, pc>>

Other(t) == t.token \notin {<<"<">>, <<">">>, <<"<", "/">>, <<"/", ">">>, <<>>}

Text(t) ==
    /\ Other(t) /\ ~attrFound
    /\ parser' = t.parser
    /\ Return([NoNode EXCEPT !.type = "text", !.name = TextNode, !.value = t.token])
    /\ UNCHANGED <<attrFound, atLeastOneAttrFound, lastElem>>

(* The element comes before its first attribute, which is read again. *)
ElementFirst(t) ==
    /\ Other(t) /\ attrFound /\ node.type = "element"
    /\ parser' = Rewound(t.parser, Len(t.token) + 1)
    /\ Return(node)
    /\ UNCHANGED <<attrFound, atLeastOneAttrFound, lastElem>>

Attribute(t) ==
    LET equals == Next(t.parser)
        open == Next(equals.parser)
        value == getNextToken([open.parser EXCEPT !.inAttrib = TRUE])
        close == getNextToken([value.parser EXCEPT !.inAttrib = FALSE])
    IN  /\ Other(t) /\ attrFound /\ node.type # "element"
        /\ IF ~equals.ok \/ ~open.ok \/ ~value.ok \/ value.token = <<>> \/ ~close.ok THEN Fail
           ELSE /\ parser' = close.parser
                /\ Return([NoNode EXCEPT !.type = "attribute", !.name = t.token,
                                         !.value = value.token])
                /\ atLeastOneAttrFound' = TRUE
                /\ UNCHANGED <<attrFound, lastElem>>

getNextNode ==
    /\ pc = "getNextNode"
    /\ \/ EndOfText
       \/ /\ At(parser.CurrPtr) # End
          /\ \/ BadToken
             \/ LET t == Next(parser)
                IN  /\ t.ok
                    /\ \/ StartTag(t) \/ TagEnds(t) \/ EndTag(t) \/ EmptyTag(t)
                       \/ NoToken(t) \/ Text(t) \/ ElementFirst(t) \/ Attribute(t)
    /\ UNCHANGED <<tree, text, read, path>>

-----------------------------------------------------------------------------
(* ReadDocumentFileOrBuffer: what becomes of the node. *)
Current == Last(path)

AppendNode ==
    /\ ~node.IsEnd /\ Len(read) < MaxRead
    /\ CASE node.type = "element" ->
              /\ read' = Add(read, Current, node.name, <<>>, <<>>)
              /\ path' = Append(path, Len(read) + 1)
         [] node.type = "text" ->
              read' = Add(read, Current, node.name, <<>>, node.value) /\ UNCHANGED path
         [] node.type = "attribute" ->
              /\ read' = [read EXCEPT ![Current].attrs =
                             Append(@, [name |-> node.name, value |-> node.value])]
              /\ UNCHANGED path
         [] OTHER -> UNCHANGED <<read, path>>
    /\ pc' = IF node.type = "invalid" THEN "done" ELSE "getNextNode"

EndElement ==
    /\ node.IsEnd
    /\ IF node.name = read[Current].name
       THEN path' = Front(path) /\ pc' = "getNextNode"
       ELSE UNCHANGED path /\ pc' = "failed"
    /\ UNCHANGED read

ReadDocumentFileOrBuffer ==
    /\ pc = "node"
    /\ AppendNode \/ EndElement
    /\ node' = NoNode
    /\ UNCHANGED <<tree, text, parser, attrFound, atLeastOneAttrFound, lastElem>>

XmlNext == DumpDocument \/ getNextNode \/ ReadDocumentFileOrBuffer

-----------------------------------------------------------------------------
(* What can be written and read back: no text that is blank, or that reads *)
(* as mark-up once its entities are replaced, and in attributes no empty   *)
(* value and no quotation mark.                                            *)
Suitable(T) ==
    \A i \in DOMAIN T :
        /\ T[i].name = TextNode =>
              /\ ~(Range(T[i].value) \subseteq White)
              /\ T[i].value \notin {<<"<">>, <<">">>, <<"<", "/">>, <<"/", ">">>}
        /\ \A k \in DOMAIN T[i].attrs :
              T[i].attrs[k].value # <<>> /\ Quote \notin Range(T[i].attrs[k].value)

(* A document that is written and read is the same document (dump_doc,     *)
(* getNextNode and ReadDocumentFileOrBuffer): elements, attributes and     *)
(* texts come back in their places with their values, comments between     *)
(* tags or not, and whatever NodeType was before it was first assigned.    *)
RoundTrip ==
    Suitable(tree) => pc # "failed" /\ (pc = "done" => read = tree)
=============================================================================
