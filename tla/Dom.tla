-------------------------------- MODULE Dom --------------------------------
(***************************************************************************)
(* The DOM of src/src/upnpdom as an application sees it through domCif.h:  *)
(* the heap of NodeAct objects with their links and reference counts, and  *)
(* the handles (Upnp_Node, Upnp_Element, ...) the application holds.       *)
(*                                                                         *)
(* A handle is a pair of Node objects.  An element's pair gives back two   *)
(* references when it is freed, any other node's only one, although both   *)
(* took one: a reference too many, which only leaks.                       *)
(*                                                                         *)
(* The library promises DOM Level 1 and keeps the promise only for some    *)
(* calls.  Harmless says which; the first other call sets misused and ends *)
(* the behaviour.                                                          *)
(***************************************************************************)
EXTENDS Integers, Sequences, FiniteSets, SequencesExt

CONSTANTS N,            \* nodes that can be created, the document included
          MaxHandles,   \* handles held at a time
          MaxCalls,     \* calls the application makes
          Names         \* names of attributes

DomAssumption == N \in Nat \ 0..2 /\ MaxHandles \in Nat /\ MaxCalls \in Nat

VARIABLES heap,      \* NodeAct objects by address
          Found,     \* the static variable of findNodeFromRef
          handles,   \* what the application holds
          misused,   \* a call was not harmless
          crashed,   \* a null or a freed object was used
          calls      \* calls made

domVars == <<heap, Found, handles, misused, crashed, calls>>

Null == 0
Document == 1
NoName == "#"
Interfaces == {"document", "element", "node", "attr"}

New == [type |-> "new", name |-> NoName, parent |-> Null, first |-> Null, last |-> Null,
        fattr |-> Null, lattr |-> Null, next |-> Null, prev |-> Null, owner |-> Null,
        ref |-> 0]
Freed == [New EXCEPT !.type = "freed"]
NodeAct(type, name, self) == [New EXCEPT !.type = type, !.name = name, !.owner = self]
Live(H) == {n \in DOMAIN H : H[n].type \notin {"new", "freed"}}

-----------------------------------------------------------------------------
(* The nodes from n on along NextSibling (no further than N, should they be
   linked in a circle). *)
Chain(H, n) ==
    LET from[k \in 0..N] ==
            IF k = 0 THEN <<>>
            ELSE LET s == from[k - 1]
                     m == IF s = <<>> THEN n ELSE H[Last(s)].next
                 IN  IF m = Null \/ Len(s) < k - 1 THEN s ELSE Append(s, m)
    IN  from[N]
Children(H, n) == Chain(H, H[n].first)
Attributes(H, n) == Chain(H, H[n].fattr)

(* n and what is below it, attributes left out, in N steps. *)
Tree(H, n) ==
    LET below[k \in 0..N] ==
            IF k = 0 THEN {n}
            ELSE below[k - 1] \cup UNION {Range(Children(H, m)) : m \in below[k - 1]}
    IN  below[N]

findNode(H, p, c) ==
    \/ c \in Range(Children(H, p))
    \/ H[p].type = "element" /\ c \in Range(Attributes(H, p))
(* What findNodeFromRef makes of its static variable: it is never reset. *)
findNodeFromRef(H, f, from, c) ==
    f \/ \E m \in Tree(H, from) : H[m].first # Null /\ findNode(H, m, c)
-----------------------------------------------------------------------------
(* Each edit of NodeAct yields the heap, whether the node was found in the
   tree (Found), and whether it went without exception and null pointer. *)
Done(H, f) == [heap |-> H, Found |-> f, ok |-> TRUE]
Failed(H, f) == [heap |-> H, Found |-> f, ok |-> FALSE]

(* Mutant: LastChild of the parent is left alone. *)
UnlinkedKeepLast(H, p, c) ==
    LET o == H[c]
        sib == [n \in DOMAIN H |->
                  [H[n] EXCEPT !.next = IF n = o.prev THEN o.next ELSE @,
                               !.prev = IF n = o.next THEN o.prev ELSE @]]
    IN  [sib EXCEPT ![p].first = IF @ = c THEN o.next ELSE @,
                    ![c].owner = c, ![c].parent = Null, ![c].ref = 1]

Unlinked(H, p, c) ==
    LET o == H[c]
        sib == [n \in DOMAIN H |->
                  [H[n] EXCEPT !.next = IF n = o.prev THEN o.next ELSE @,
                               !.prev = IF n = o.next THEN o.prev ELSE @]]
    IN  [sib EXCEPT ![p].first = IF @ = c THEN o.next ELSE @,
                    ![p].last  = IF @ = c THEN o.prev ELSE @,
                    ![c].owner = c, ![c].parent = Null, ![c].ref = 1]

NodeAct_removeChild(H, f, p, c) ==
    IF findNode(H, p, c) THEN Done(Unlinked(H, p, c), f) ELSE Failed(H, f)

(* changeOwnerNode, and the owner of c itself. *)
Owned(H, c, owner) ==
    [n \in DOMAIN H |-> IF n \in Tree(H, c) THEN [H[n] EXCEPT !.owner = owner] ELSE H[n]]

(* c as last child or attribute of p. *)
Linked(H, p, c) ==
    LET own == Owned(H, c, H[p].owner)
        h == [own EXCEPT ![c].parent = p, ![c].next = Null, ![c].prev = Null, ![c].ref = @ + 1]
    IN  IF h[c].type # "attr"
        THEN IF h[p].first = Null
             THEN [h EXCEPT ![p].first = c, ![p].last = c]
             ELSE [h EXCEPT ![h[p].last].next = c, ![c].prev = h[p].last, ![p].last = c]
        ELSE IF h[p].fattr = Null
             THEN [h EXCEPT ![p].fattr = c, ![p].lattr = c]
             ELSE [h EXCEPT ![h[p].lattr].next = c, ![c].prev = h[p].lattr, ![p].lattr = c]

NodeAct_appendChild(H, f, p, c) ==
    LET g == findNodeFromRef(H, f, H[p].owner, c)
    IN  IF ~g THEN Done(Linked(H, p, c), g)
        ELSE IF H[c].parent = Null \/ ~findNode(H, H[c].parent, c) THEN Failed(H, g)
        ELSE Done(Linked(Unlinked(H, H[c].parent, c), p, c), g)

(* It leaves PrevSibling of the new child as it was. *)
NodeAct_insertBefore(H, f, p, c, r) ==
    IF ~findNode(H, p, r) THEN Failed(H, f)
    ELSE LET u == IF findNode(H, p, c)
                  THEN [Unlinked(H, p, c) EXCEPT ![c].next = Null, ![c].prev = Null] ELSE H
             v == [u EXCEPT ![c].ref = @ + 1, ![c].next = r]
             w == IF v[r].prev # Null THEN [v EXCEPT ![v[r].prev].next = c] ELSE v
             x == [w EXCEPT ![r].prev = c]
             y == IF x[c].prev # Null THEN x
                  ELSE IF x[c].type = "attr" THEN [x EXCEPT ![p].fattr = c]
                  ELSE [x EXCEPT ![p].first = c]
         IN  Done([y EXCEPT ![c].parent = p, ![c].owner = y[p].owner], f)

NodeAct_replaceChild(H, f, p, c, o) ==
    LET i == NodeAct_insertBefore(H, f, p, c, o)
    IN  IF i.ok THEN NodeAct_removeChild(i.heap, f, p, o) ELSE i

(* deleteNodeAct and delete: a node goes with everything below it, except its
   own attributes.  Whatever is linked to it stays so. *)
Deleted(H, n) ==
    LET below == Tree(H, n) \ {n}
        gone == Tree(H, n) \cup UNION {Range(Attributes(H, m)) : m \in below}
    IN  [m \in DOMAIN H |-> IF m \in gone THEN Freed ELSE H[m]]
(* ~Node: a reference is given back. *)
Released(H, n) ==
    IF H[n].ref = 1 THEN Deleted(H, n) ELSE [H EXCEPT ![n].ref = @ - 1]

(* ReadDocumentFileOrBuffer: a root element with k children, say, each with
   the one reference of its link; the caller holds the document. *)
Parsed(k) ==
    LET empty == [n \in 1..N |-> IF n = Document
                                 THEN [NodeAct("document", NoName, n) EXCEPT !.ref = 2] ELSE New]
        Add(H, n) == NodeAct_appendChild([H EXCEPT ![n] = NodeAct("element", NoName, n)], FALSE,
                                         IF n = 2 THEN Document ELSE 2, n).heap
    IN  FoldLeft(Add, empty, [i \in 1..k + 1 |-> i + 1])

DomInit ==
    /\ \E k \in 0..N - 3 : heap = Parsed(k)
    /\ Found = FALSE
    /\ handles = {[kind |-> "document", node |-> Document, nth |-> 0]}
    /\ misused = FALSE /\ crashed = FALSE /\ calls = 0
-----------------------------------------------------------------------------
NodeHandles == {h \in handles : h.kind # "attr"}
(* Handles of a kind on the same node are numbered, and the last goes first. *)
Alike(kind, node) == {h \in handles : h.kind = kind /\ h.node = node}
Handle(kind, node) == [kind |-> kind, node |-> node,
                       nth |-> Cardinality(Alike(kind, node))]
IsLast(h) == h.nth + 1 = Cardinality(Alike(h.kind, h.node))
RoomForHandle == Cardinality(handles) < MaxHandles
Weight(h) == IF h.kind = "element" THEN 2 ELSE IF h.kind = "node" THEN 1 ELSE 0
(* The references that freeing the handles on n will give back. *)
Held(n) == LET on == {h \in handles : h.node = n}
           IN  Cardinality(on) + Cardinality({h \in on : h.kind = "element"})
                 - Cardinality({h \in on : h.kind \in {"attr", "document"}})
HasHandle(S) == \E h \in handles : h.node \in S

(* The node may be linked below p: it is nowhere else, and not above p. *)
Detached(p, c) == /\ heap[c].parent = Null /\ heap[c].type # "document"
                  /\ p \notin Tree(heap, c)
HarmlessAppend(p, c) ==
    Detached(p, c) /\ (heap[c].type = "attr" =>
        \A a \in Range(Attributes(heap, p)) : heap[a].name # heap[c].name)
(* Only in front of all children, only a node without children and only one
   that was never removed: its PrevSibling is not reset. *)
HarmlessInsert(p, c, r) ==
    /\ Detached(p, c) /\ heap[c].type # "attr" /\ heap[c].first = Null /\ heap[c].prev = Null
    /\ heap[r].parent = p /\ heap[p].first = r
(* Only through the single handle on the child, and not an Upnp_Element: the
   count is set to 1 whatever it was.  An attribute stays in FirstAttr. *)
HarmlessRemove(p, c) ==
    heap[c].parent = p /\ heap[c].type # "attr" /\ Held(c) = 1

(* An edit by the application, of p and c: its outcome e, the handles hs that
   stay, and a handle on the node ret.  An exception frees the null result
   twice. *)
Edited(e, hs, ret, harmless) ==
    /\ RoomForHandle
    /\ Found' = e.Found
    /\ heap' = IF e.ok THEN [e.heap EXCEPT ![ret].ref = @ + 1] ELSE e.heap
    /\ handles' = IF e.ok THEN hs \cup {Handle("node", ret)} ELSE hs
    /\ crashed' = ~e.ok
    /\ misused' = ~harmless

Container(h) == heap[h.node].type \in {"document", "element"}
MayHold(h, c) == Container(h) /\ (heap[c.node].type = "attr" => heap[h.node].type = "element")

appendChild(h, c) ==
    /\ MayHold(h, c)
    /\ Edited(NodeAct_appendChild(heap, Found, h.node, c.node), handles, c.node,
              HarmlessAppend(h.node, c.node))
insertBefore(h, c, r) ==
    /\ MayHold(h, c)
    /\ Edited(NodeAct_insertBefore(heap, Found, h.node, c.node, r.node), handles, c.node,
              HarmlessInsert(h.node, c.node, r.node))
removeChild(h, c) ==
    /\ Container(h)
    /\ Edited(NodeAct_removeChild(heap, Found, h.node, c.node), handles, c.node,
              HarmlessRemove(h.node, c.node))
(* The handle on the new child is on the old one afterwards (left out here):
   there are always more handles on that than references. *)
replaceChild(h, c, o) ==
    /\ MayHold(h, c) /\ IsLast(c)
    /\ Edited(NodeAct_replaceChild(heap, Found, h.node, c.node, o.node),
              handles \ {c}, o.node, FALSE)

Edit(h) ==
    \E c \in handles :
        \/ appendChild(h, c)
        \/ removeChild(h, c)
        \/ \E r \in handles : insertBefore(h, c, r) \/ replaceChild(h, c, r)

(* The same calls of the interfaces Node, Document and Element. *)
NodeEdit == \E h \in handles : h.kind = "node" /\ Edit(h)
DocumentEdit == \E h \in handles : h.kind = "document" /\ Edit(h)
ElementEdit == \E h \in handles : h.kind = "element" /\ Edit(h)
-----------------------------------------------------------------------------
(* A handle on the node m, for a getter: two references, if there is one. *)
Given(m, harmless) ==
    /\ RoomForHandle
    /\ m # Null
    /\ heap' = [heap EXCEPT ![m].ref = @ + 2]
    /\ handles' = handles \cup {Handle("node", m)}
    /\ crashed' = (m \notin Live(heap))
    /\ misused' = ~harmless
    /\ UNCHANGED Found
(* The siblings of a removed node are those it had. *)
Get(h) ==
    LET n == heap[h.node]
    IN  \/ \E m \in {n.parent, n.first, n.last} : Given(m, TRUE)
        \/ \E m \in {n.prev, n.next} : Given(m, n.parent # Null)
NodeGet == \E h \in handles : h.kind = "node" /\ Get(h)
DocumentGet == \E h \in handles : h.kind = "document" /\ Get(h)
ElementGet == \E h \in handles : h.kind = "element" /\ Get(h)

(* getChildNodes or getAttributes, then item or getNamedItem. *)
NodeListItem == \E h \in NodeHandles : \E i \in 1..N :
    i <= Len(Children(heap, h.node)) /\ Given(Children(heap, h.node)[i], TRUE)
NamedItem == \E h \in NodeHandles, name \in Names :
    LET as == Attributes(heap, h.node)
        named == {i \in DOMAIN as : heap[as[i]].name = name}
    IN  named # {} /\ Given(as[CHOOSE i \in named : \A j \in named : i <= j], TRUE)
-----------------------------------------------------------------------------
Unused(k) == {n \in DOMAIN heap : heap[n].type = "new"
                 /\ Cardinality({m \in 1..n : heap[m].type = "new"}) <= k}
Created(type, name, kind) ==
    /\ RoomForHandle
    /\ \E n \in Unused(1) :
          /\ heap' = [heap EXCEPT ![n] = [NodeAct(type, name, n) EXCEPT !.ref = 2]]
          /\ handles' = handles \cup {Handle(kind, n)}
    /\ UNCHANGED <<Found, misused, crashed>>

createElement == Created("element", NoName, "element")
createTextNode == Created("text", NoName, "node")
createAttribute == \E name \in Names : Created("attr", name, "attr")

(* An attribute of that name gets the value, or is added.  (Values are left
   out.) *)
setAttribute ==
    \E h \in handles, name \in Names :
        /\ h.kind = "element"
        /\ \A a \in Range(Attributes(heap, h.node)) : heap[a].name # name
        /\ \E n \in Unused(1) :
              LET e == NodeAct_appendChild([heap EXCEPT ![n] = NodeAct("attr", name, n)],
                                           Found, h.node, n)
              IN  heap' = e.heap /\ Found' = e.Found /\ crashed' = ~e.ok
        /\ UNCHANGED <<handles, misused>>

(* The result, a second handle that nothing can free, is left out. *)
setAttributeNode ==
    \E h, a \in handles :
        /\ h.kind = "element" /\ a.kind = "attr"
        /\ LET e == NodeAct_appendChild([heap EXCEPT ![a.node].ref = @ + 1], Found,
                                     h.node, a.node)
           IN  heap' = e.heap /\ Found' = e.Found /\ crashed' = ~e.ok
        /\ misused' = ~HarmlessAppend(h.node, a.node)
        /\ UNCHANGED handles

(* A copy of the node, with all that is below it if deep; without attributes,
   and with the owner of the original. *)
cloneNode ==
    \E h \in NodeHandles, deep \in BOOLEAN :
        LET old == IF deep THEN Tree(heap, h.node) ELSE {h.node}
            new == Unused(Cardinality(old))
            Nth(S, n) == Cardinality({m \in S : m <= n})
            copy == [o \in old \cup {Null} |->
                        IF o = Null THEN Null ELSE CHOOSE n \in new : Nth(new, n) = Nth(old, o)]
            At(o) == IF o \in old THEN copy[o] ELSE Null
        IN  /\ RoomForHandle /\ Cardinality(new) = Cardinality(old)
            /\ heap[h.node].type # "document"
            /\ ~Found
            /\ heap' = [n \in DOMAIN heap |->
                  IF n \notin new THEN heap[n]
                  ELSE LET o == CHOOSE m \in old : copy[m] = n
                           top == o = h.node
                       IN  [heap[o] EXCEPT !.fattr = Null, !.lattr = Null, !.ref = 2,
                              !.parent = IF top THEN Null ELSE At(@),
                              !.next = IF top THEN Null ELSE At(@),
                              !.prev = IF top THEN Null ELSE At(@),
                              !.first = At(@), !.last = At(@)]]
            /\ handles' = handles \cup {Handle("node", At(h.node))}
            /\ UNCHANGED <<Found, misused, crashed>>

(* UpnpNode_free and UpnpElement_free. *)
FreeNode(h) ==
    LET n == h.node
        tree == Tree(heap, n)
        inner == (tree \ {n}) \cup UNION {Range(Attributes(heap, m)) : m \in tree}
        once == Released(heap, n)
        alive == n \in Live(once)
    IN  /\ h.kind \in {"node", "element"} /\ IsLast(h)
        /\ heap' = IF Weight(h) = 2 /\ alive THEN Released(once, n) ELSE once
        /\ handles' = handles \ {h}
        /\ crashed' = (n \notin Live(heap) \/ (Weight(h) = 2 /\ ~alive))
        /\ misused' = (heap[n].ref <= Weight(h) /\ HasHandle(inner))
        /\ UNCHANGED Found

(* UpnpDocument_free, whatever the counts are. *)
FreeDocument(h) ==
    /\ h.kind = "document"
    /\ heap' = Deleted(heap, Document)
    /\ handles' = handles \ {h}
    /\ LET inner == Tree(heap, Document)
       IN  misused' = \E o \in handles \ {h} :
              o.node \in inner \/ \E m \in inner : o.node \in Range(Attributes(heap, m))
    /\ UNCHANGED <<Found, crashed>>

DomNext ==
    /\ ~misused /\ calls < MaxCalls /\ calls' = calls + 1
    /\ \/ \E h \in handles : FreeNode(h) \/ FreeDocument(h)
       \/ /\ Document \in Live(heap)
          /\ \/ NodeEdit \/ DocumentEdit \/ ElementEdit
             \/ NodeGet \/ DocumentGet \/ ElementGet \/ NodeListItem \/ NamedItem
             \/ createElement \/ createTextNode \/ createAttribute
             \/ setAttribute \/ setAttributeNode \/ cloneNode
-----------------------------------------------------------------------------
(* The links of p: its children, each once, know it and each other. *)
ChainSound(s, p, last) ==
    /\ Cardinality(Range(s)) = Len(s) /\ Range(s) \subseteq Live(heap)
    /\ \A i \in DOMAIN s :
          /\ heap[s[i]].parent = p
          /\ heap[s[i]].prev = IF i = 1 THEN Null ELSE s[i - 1]
    /\ last = IF s = <<>> THEN Null ELSE Last(s)
LinksSound ==
    \A p \in Live(heap) :
        LET cs == Children(heap, p)
            as == Attributes(heap, p)
        IN  /\ ChainSound(cs, p, heap[p].last) /\ ChainSound(as, p, heap[p].lattr)
            /\ {n \in Live(heap) : heap[n].parent = p} = Range(cs) \cup Range(as)
            /\ \A i, j \in DOMAIN as : heap[as[i]].name = heap[as[j]].name => i = j
            /\ \A c \in Range(cs) : p \notin Tree(heap, c)
OwnersRight == Document \in Live(heap) =>
                   \A n \in Tree(heap, Document) : heap[n].owner = Document
HandlesLive ==
    \A h \in handles : h.node \in Live(heap)
        /\ heap[h.node].ref >= Held(h.node) + (IF heap[h.node].parent = Null THEN 0 ELSE 1)

(* TreeSound: as long as the application makes harmless calls only, the tree
   is a tree - siblings, parents, first and last child agree, no attribute name
   occurs twice, the document owns all that is in it -, every handle refers to
   an existing node that freeing the others cannot delete, a linked node is
   never deleted, and no call fails (NodeAct.cpp, Node.cpp). *)
TreeSound == ~misused => ~crashed /\ LinksSound /\ OwnersRight /\ HandlesLive
=============================================================================
