------------------------------- MODULE MCParts -------------------------------
(***************************************************************************)
(* The parts that share no state with the modelled threads of the SDK, and *)
(* none with each other: the initial state chooses one, and only that one  *)
(* moves.  WebServer, TvCtrlPoint, Control, Search, Transfer and Url are   *)
(* extended, the others are instances.                                     *)
(***************************************************************************)
EXTENDS WebServer, TvCtrlPoint, Control, Search, Transfer, Url

CONSTANTS t1, t2, c1, c2

VARIABLES part,
    heap, Found, handles, misused, domCalls,                       \* Dom
    tree, text, parser, node, attrFound, atLeastOneAttrFound, lastElem, read, path, xmlPc,  \* Xml
    written, message, scan, headers, headersPc                        \* Headers
-----------------------------------------------------------------------------
(* Descriptions and searches. *)
RegularDevice(t, u, l) == [type |-> t, udn |-> u, serviceLists |-> <<l>>]
Lists == {<<"S">>, <<"S", "T">>}
AllDescs == {<<RegularDevice("A", "u1", l)>> : l \in Lists}
  \cup {<<RegularDevice("A", "u1", l), RegularDevice(t, "u2", m)>> :
            t \in {"A", "B"}, l \in Lists, m \in Lists}
SearchedDescs == {<<RegularDevice("A", "u1", <<"S">>), RegularDevice("B", "u2", <<"S", "T">>)>>}

AllTargets == {All, RootDevice, Uuid("u2"), DeviceUrn("A"), ServiceUrn("S")}
MCJunk == {[start |-> "HTTP/1.1 200 OK", hdrs |-> <<Hdr("NTS", "other")>>]}

(* Documents to write and read. *)
Attribute(v) == <<[name |-> <<"k">>, value |-> v]>>
MCAttributeSets == {<<>>, Attribute(<<" ", "<">>) \o Attribute(<<"/", "&">>), Attribute(<<>>)}
MCTexts == {<<" ", "x">>, <<"/", ">">>}

(* Base paths, with and without dots. *)
MCBasePaths == {<<>>, <<"/">>, <<"/", "a", "/", "a">>, <<"/", ".", "a", "/", "/", "a", "/">>,
                <<"/", "a", "/", ".", ".", "/", ".", "/", "a">>, <<"/", ".", ".">>}

(* Service descriptions and requests. *)
On(p) == IF p = NoText THEN NoText ELSE [host |-> "h", path |-> p]
Service(id, ctrl, ev) == [UDN |-> NoText, serviceType |-> "type", serviceId |-> id, SCPDURL |-> "u",
                          controlURL |-> On(ctrl), eventSubURL |-> On(ev)]
Device(u, l) == [UDN |-> u, serviceList |-> l]
MCDescriptions == {
    <<Device("u1", <<Service("s1", "/a", "/e"), Service(NoText, "/b", "/f"), Service("s2", "/b", "/e")>>),
      Device("u2", <<Service("s3", "/a", "/e")>>), Device("u3", NoList)>>,
    <<Device("u1", <<Service("s1", NoText, "/e")>>), Device("u2", <<Service("s2", "/a", NoText)>>),
      Device("u3", <<Service("s1", "/b", "/e")>>)>>,
    <<Device("u1", <<Service("s1", "/a", "/e")>>), Device("u2", NoList),
      Device("u3", <<Service("s1", "/b", "/e")>>)>>}
Call(kind, p, name, t) == [kind |-> kind, url |-> [host |-> "h", path |-> p], name |-> name, text |-> t]
MCRequests == {Call("action", "/a", <<"S">>, "plain"), Call("action", "/b", <<"S", "_", "P">>, "plain"),
               Call("action", "/b", <<"S", "P">>, "QueryStateVariable"),
               Call("query", "/b", <<"V">>, "plain")}
MCOutcomes == {[code |-> 0, body |-> NoText, status |-> 0],
               [code |-> 0, body |-> <<"u", "S", "P">>, status |-> 0],
               [code |-> 501, body |-> <<"u", "S">>, status |-> 0]}

(* What a peer answers: a body of these chunks, framed in one of three ways. *)
Chunked(chunks) ==
    FoldLeft(LAMBDA acc, n :
                [at |-> acc.at + n,
                 items |-> acc.items \o <<Item("size", n)>> \o Bytes(acc.at, n)
                             \o <<Item("crlf", 0)>>],
             [at |-> 0, items |-> <<>>], chunks).items
    \o <<Item("size", 0), Item("crlf", 0)>>
AnswerOf(framing, typed, chunks) ==
    LET length == FoldLeft(LAMBDA x, y : x + y, 0, chunks)
    IN  [framing |-> framing, typed |-> typed, body |-> length,
         stream |-> <<Item("head", 0)>> \o (IF framing = "chunked" THEN Chunked(chunks)
                                           ELSE Bytes(0, length))]
NoLimit == -1
MCAnswers == {AnswerOf(f, t, c) : f \in {"length", "chunked", "close"}, t \in BOOLEAN,
                                  c \in {<<>>, <<1>>, <<3, 2>>, <<2, 4>>}}
-----------------------------------------------------------------------------
D == INSTANCE Dom WITH calls <- domCalls, N <- 5, MaxHandles <- 4, MaxCalls <- 6, Names <- {"x"}
X == INSTANCE Xml WITH pc <- xmlPc, Elements <- {<<"a">>}, AttributeSets <- MCAttributeSets, Texts <- MCTexts,
        MaxNodes <- 2, MaxRead <- 10, MaxArguments <- 1
M == INSTANCE MCHeaders
P == INSTANCE Headers WITH pc <- headersPc, Words <- M!HWords, Peers <- M!MCPeers, Built <- M!MCBuilt
ASSUME PartsAssumption ==
    /\ D!DomAssumption /\ TvAssumption /\ CtrlAssumption /\ SearchAssumption
    /\ TransferAssumption /\ X!XmlAssumption /\ WebAssumption /\ UrlAssumption /\ ControlAssumption
-----------------------------------------------------------------------------
(* The variables of each part alone, and that they are not in use. *)
Unused(v) == v = 0
domVars == <<heap, Found, handles, misused, domCalls>>
DomOff ==
    /\ Unused(heap) /\ Unused(Found) /\ Unused(handles) /\ Unused(misused) /\ Unused(domCalls)
ctrlPointVars == <<tvVars, GlobalDeviceList, news, failed, renewed, missed, stray>>
TvOff == CtrlInit /\ news = {}
SearchOff ==    \* a search whose socket failed
    /\ desc \in SearchedDescs /\ target = RootDevice /\ Mx = DEFAULT_MX
    /\ pc = "failed" /\ now = 0 /\ ElapsedTime = 0 /\ ErrCode = 0
    /\ buffer = <<>> /\ intime = {} /\ got = <<>> /\ delayed = FALSE
xmlVars == <<tree, text, parser, node, attrFound, atLeastOneAttrFound, lastElem, read,
               path, xmlPc>>
XmlOff ==
    /\ Unused(tree) /\ Unused(text) /\ Unused(parser) /\ Unused(node) /\ Unused(attrFound)
    /\ Unused(atLeastOneAttrFound) /\ Unused(xmlPc) /\ Unused(lastElem) /\ Unused(read) /\ Unused(path)
UrlOff == UrlInit /\ base = Uri(TRUE, TRUE, <<>>, <<>>) /\ rel = Uri(FALSE, FALSE, <<>>, <<>>)
TransferOff == TransferInit /\ answer = AnswerOf("close", FALSE, <<>>) /\ Http
headersVars == <<written, message, scan, headers, headersPc>>
HeadersOff == Unused(written) /\ Unused(message) /\ Unused(scan) /\ Unused(headers)
              /\ Unused(headersPc)

(* One part is set up; the variables of the others stay unused, those of
   the extended modules in a state of theirs. *)
Init ==
  /\ WebInit
  /\ \/ /\ part = "dom" /\ D!DomInit
        /\ HeadersOff
        /\ TvOff /\ SearchOff /\ XmlOff /\ UrlOff /\ ControlInit /\ TransferOff
     \/ /\ part = "tv" /\ CtrlInit
        /\ HeadersOff
        /\ DomOff /\ SearchOff /\ XmlOff /\ UrlOff /\ ControlInit /\ TransferOff
     \/ /\ part = "search" /\ SearchInit
        /\ desc \in SearchedDescs /\ target \in {ServiceUrn("S"), RootDevice}
        /\ HeadersOff
        /\ DomOff /\ TvOff /\ XmlOff /\ UrlOff /\ ControlInit /\ TransferOff
     \/ /\ part = "xml" /\ X!XmlInit
        /\ HeadersOff
        /\ DomOff /\ TvOff /\ SearchOff /\ UrlOff /\ ControlInit /\ TransferOff
     \/ /\ part = "web"
        /\ HeadersOff
        /\ DomOff /\ TvOff /\ SearchOff /\ XmlOff /\ UrlOff /\ ControlInit /\ TransferOff
     \/ /\ part = "url" /\ UrlInit
        /\ HeadersOff
        /\ DomOff /\ TvOff /\ SearchOff /\ XmlOff /\ ControlInit /\ TransferOff
     \/ /\ part = "control" /\ ControlInit
        /\ HeadersOff
        /\ DomOff /\ TvOff /\ SearchOff /\ XmlOff /\ UrlOff /\ TransferOff
     \/ /\ part = "transfer" /\ TransferInit
        /\ HeadersOff
        /\ DomOff /\ TvOff /\ SearchOff /\ XmlOff /\ UrlOff /\ ControlInit
     \/ /\ part = "headers" /\ P!HeadersInit
        /\ DomOff /\ TvOff /\ SearchOff /\ XmlOff /\ UrlOff /\ ControlInit
        /\ TransferOff

DomStep ==
    /\ part = "dom" /\ D!DomNext
    /\ UNCHANGED <<part, headersVars, ctrlPointVars, searchVars, xmlVars, webVars, urlVars, controlVars,
                         transferVars>>
TvStep ==
    /\ part = "tv" /\ CtrlNext
    /\ UNCHANGED <<part, headersVars, domVars, searchVars, xmlVars, webVars, urlVars, controlVars,
                         transferVars>>
SearchStep ==
    /\ part = "search" /\ SearchNext
    /\ UNCHANGED <<part, headersVars, domVars, vars, xmlVars, webVars, urlVars, controlVars,
                         transferVars>>
XmlStep ==
    /\ part = "xml" /\ X!XmlNext
    /\ UNCHANGED <<part, headersVars, domVars, vars, searchVars, webVars, urlVars, controlVars,
                         transferVars>>
WebStep ==
    /\ part = "web" /\ WebNext
    /\ UNCHANGED <<part, headersVars, domVars, vars, searchVars, xmlVars, urlVars, controlVars,
                         transferVars>>
UrlStep ==
    /\ part = "url" /\ UrlNext
    /\ UNCHANGED <<part, headersVars, domVars, vars, searchVars, xmlVars, webVars, controlVars,
                         transferVars>>
ControlStep ==
    /\ part = "control" /\ ControlNext
    /\ UNCHANGED <<part, headersVars, domVars, vars, searchVars, xmlVars, webVars, urlVars,
                         transferVars>>
TransferStep ==
    /\ part = "transfer" /\ TransferNext
    /\ UNCHANGED <<part, headersVars, domVars, vars, searchVars, xmlVars, webVars, urlVars,
                         controlVars>>
HeadersStep ==
    /\ part = "headers" /\ P!HeadersNext
    /\ UNCHANGED <<part, domVars, vars, searchVars, xmlVars, webVars, urlVars, controlVars,
                         transferVars>>

Next ==
    \/ DomStep \/ TvStep \/ SearchStep \/ XmlStep \/ WebStep \/ UrlStep \/ ControlStep
    \/ TransferStep \/ HeadersStep
-----------------------------------------------------------------------------
(* The properties of the parts, each of the states of its part. *)
TreeSound == part = "dom" => D!TreeSound
RoundTrip == part = "xml" => X!RoundTrip
HeadersKept == part = "headers" => P!HeadersKept
=============================================================================
