------------------------------ MODULE Headers ------------------------------
(***************************************************************************)
(* The start line and the headers of an HTTP message: Tokenizer            *)
(* (tokenizer.cpp), HttpRequestLine, HttpResponseLine, ParseHeaders and    *)
(* the classes of header values (parseutil.cpp).  A header that does not   *)
(* parse is skipped; how much of the message goes with it depends on where *)
(* the value's load gave up.                                               *)
(*                                                                         *)
(* A message is a sequence of tokens.  A word that is no separator, white  *)
(* space, line end or quoted string is an identifier.  Parsing works on a  *)
(* scanner: the next token, the number of tokens taken from the stream so  *)
(* far, whether the value has been refused, and what has been kept of it.  *)
(***************************************************************************)
EXTENDS Integers, Sequences, SequencesExt

CONSTANTS Words,       \* the identifiers
          Peers,       \* messages of a peer: [kind, start, lines]
          Built        \* headers the SDK writes: sequences of [name, value]

VARIABLES written,     \* the message as its author meant it
          message,     \* its tokens
          scan,        \* the scanner
          headers,     \* HttpMessage::headers
          pc           \* "start", "headers", "done" or "refused"

headersVars == <<written, message, scan, headers, pc>>

MAX_PUSHBACKS == 5
Separators == {":", ";", ",", "=", "/"}
Numbers == Words \cap {"5", "404", "200"}
Tags == Words \cap {"en", "*"}
Hosts == Words \cap {"h"}
Date == <<"Sun", ",", "WS", "06">>
QuotedString == "QUOTED"
Freed == "freed"       \* what a deleted token holds: anything
Unset == -1            \* a q that is never assigned

-----------------------------------------------------------------------------
(* Tokenizer. *)

Token(i) == IF i \in DOMAIN message THEN message[i] ELSE "END"

Scanner(at, read) == 
    [at |-> at, read |-> read, ok |-> TRUE, kept |-> <<>>, q |-> 10, mark |-> at]
Coming(s) == Token(s.at)
Peek(s) == [s EXCEPT !.read = Max({@, s.at})]
Take(s) == [Peek(s) EXCEPT !.at = @ + 1]
Fail(s) == [s EXCEPT !.ok = FALSE]

(* Where a header ends: the first line end that no white space follows. *)
HeaderEnd(at) ==
    CHOOSE i \in at..Max({at, Len(message) + 1}) :
        LET Ends(k) == Token(k) = "END" \/ (Token(k) = "CRLF" /\ Token(k + 1) # "WS")
        IN  Ends(i) /\ \A k \in at..(i - 1) : ~Ends(k)

(* Mutant: continuation lines are not skipped with their header. *)
SkipLine(s) ==
    LET end == CHOOSE i \in s.at..Max({s.at, Len(message) + 1}) :
                  /\ Token(i) \in {"CRLF", "END"}
                  /\ \A k \in s.at..(i - 1) : Token(k) \notin {"CRLF", "END"}
    IN  Scanner(IF Token(end) = "END" THEN end ELSE end + 1, end + 1)

SkipHeader(s) ==
    LET end == HeaderEnd(s.at)
    IN  Scanner(IF Token(end) = "END" THEN end ELSE end + 1, Max({s.read, end + 1}))

(* A LWS is white space with or without a line end before it. *)
SkipLWS(s) ==
    LET after[i \in Nat] == IF Token(i) = "WS" THEN after[i + 1]
                            ELSE IF Token(i) = "CRLF" /\ Token(i + 1) = "WS" THEN after[i + 2]
                            ELSE i
    IN  [s EXCEPT !.at = after[@],
                  !.read = Max({@, IF Token(after[s.at]) = "CRLF" THEN after[s.at] + 1
                                   ELSE after[s.at]})]

(* The tokens up to the end of the header, a fold being white space and    *)
(* white space at the end left out.  The stream must not end there.        *)
ParseHeaderValue(s) ==
    LET end == HeaderEnd(s.at)
        kept == SelectSeq(SubSeq(message, s.at, end - 1), LAMBDA t : t # "CRLF")
        last == {k \in DOMAIN kept : kept[k] # "WS"}
    IN  [s EXCEPT !.at = end, !.read = Max({@, end + 1}), !.ok = Token(end) # "END",
                  !.kept = @ \o SubSeq(kept, 1, Max({0} \cup last))]

(* LoadUri; parse_uri refuses a host that has no address. *)
LoadUri(s) ==
    LET end == CHOOSE i \in s.at..Max({s.at, Len(message) + 1}) :
                  /\ Token(i) \in {"WS", "CRLF", "END"}
                  /\ \A k \in s.at..(i - 1) : Token(k) \notin {"WS", "CRLF", "END"}
        uri == SubSeq(message, s.at, end - 1)
        hosted == Len(uri) > 2 /\ SubSeq(uri, 1, 2) = <<"/", "/">>
    IN  [s EXCEPT !.at = end, !.read = Max({@, end}), !.kept = uri,
                  !.ok = uri # <<>> /\ (hosted => uri[3] \in Hosts)]

(* parse_hostport *)
HostAndPort(v) == v[1] \in Hosts /\ (Len(v) = 2 => v[2] \in Numbers)

QValues == Words \cap {"1", "0.5", "0.2"}
ParseQValue(t) == CASE t = "1" -> 10 [] t = "0.5" -> 5 [] t = "0.2" -> 2

-----------------------------------------------------------------------------
(* A load is a sequence of steps.  Each looks at the next token: one of a  *)
(* set T is taken or kept; another one is pushed back, or is gone where it *)
(* was demanded, and HttpParseException is thrown.                         *)

Do(op, T) == [op |-> op, T |-> T, then |-> <<>>, else |-> <<>>]
Keep(T) == Do("keep", T)
Expect(T) == Do("expect", T)
Demand(T) == Do("demand", T)
DemandAndKeep(T) == Do("demand and keep", T)
SkipOptionalLWS == Do("lws", {})
If(T, then, else) == [op |-> "if", T |-> T, then |-> then, else |-> else]
While(T, then) == [op |-> "while", T |-> T, then |-> then, else |-> <<>>]

(* "tag": the tag is copied from its token when its q has been read.  By   *)
(* then the token may be one too many to be kept, and have been deleted.   *)
Special(s, op) ==
    CASE op = "value" -> ParseHeaderValue(s)
      [] op = "uri" -> LoadUri(s)
      [] op = "date" -> [s EXCEPT !.ok = s.kept = Date]
      [] op = "host" -> [s EXCEPT !.ok = HostAndPort(s.kept)]
      [] op = "unset" -> [Take(s) EXCEPT !.q = Unset]
      [] op = "q" -> IF Token(s.at - 1) \in QValues
                     THEN [s EXCEPT !.q = ParseQValue(Token(s.at - 1))] ELSE Fail(s)
      [] op = "tag" -> IF s.read - s.mark < MAX_PUSHBACKS THEN s ELSE [s EXCEPT !.kept = <<Freed>>]

RECURSIVE Run(_, _)
Step(s, i) ==
    CASE ~s.ok -> s
      [] s.ok /\ i.op = "lws" -> SkipLWS(s)
      [] s.ok /\ i.op = "if" -> Run(Peek(s), IF Coming(s) \in i.T THEN i.then ELSE i.else)
      [] s.ok /\ i.op = "while" ->
           IF Coming(s) \in i.T THEN Run(Take(s), Append(i.then, i)) ELSE Peek(s)
      [] s.ok /\ i.op \in {"keep", "expect", "demand", "demand and keep"} ->
           IF Coming(s) \in i.T
           THEN [Take(s) EXCEPT !.kept = IF i.op \in {"keep", "demand and keep"}
                                         THEN Append(@, Coming(s)) ELSE @]
           ELSE Fail(IF i.op \in {"demand", "demand and keep"} THEN Take(s) ELSE Peek(s))
      [] OTHER -> Special(s, i.op)
Run(s, steps) == FoldLeft(Step, s, steps)

-----------------------------------------------------------------------------
(* The classes of values. *)

SkipColonLWS == <<SkipOptionalLWS, Expect({":"}), SkipOptionalLWS>>
LoadDateTime == <<Do("value", {}), Do("date", {})>>

(* The token at the end of the stream is empty, and read as 0. *)
loadNum == <<Keep(Numbers \cup {"END"})>>

LoadQValue == <<Expect({"q"}), SkipOptionalLWS, Expect({"="}), SkipOptionalLWS,
                Expect(Words), Do("q", {})>>
loadOptionalQValue ==
    <<SkipOptionalLWS, If({";"}, <<Expect({";"}), SkipOptionalLWS>> \o LoadQValue, <<>>)>>

IdentifierValue == <<Keep(Words)>>
IdentifierQValue == <<Keep(Words)>> \o loadOptionalQValue
LanguageTag(qIsUsed) ==
    <<Keep(Tags)>> \o (IF qIsUsed THEN loadOptionalQValue ELSE <<>>) \o <<Do("tag", {})>>

MediaExtension ==
    <<DemandAndKeep(Words), SkipOptionalLWS, Demand({"="}), SkipOptionalLWS,
      DemandAndKeep(Words \cup {QuotedString})>>

(* What follows the first ";" is a q or is thrown away. *)
MediaParam ==
    <<Expect({";"}), SkipOptionalLWS, If({"q"}, LoadQValue, <<Do("unset", {})>>), SkipOptionalLWS,
      While({";"}, <<SkipOptionalLWS>> \o MediaExtension)>>

MediaRange ==
    LET Subtype(T) == <<SkipOptionalLWS, Expect({"/"}), SkipOptionalLWS, Keep(T)>>
    IN  <<If({"*"}, <<Keep({"*"})>> \o Subtype({"*"}), <<Keep(Words)>> \o Subtype(Words))>>
        \o MediaParam

(* Directives, by what may or must follow: fields in quotes, seconds, or   *)
(* nothing; any other word is an extension, which has a value.             *)
Fields == {"no-cache", "private"}
Seconds == {"max-age", "min-fresh", "s-maxage"}
Bare == {"no-store", "no-transform", "only-if-cached", "public", "must-revalidate",
         "proxy-revalidate"}
CacheDirective ==
    LET readFields == <<Expect({"="}), SkipOptionalLWS, Keep({QuotedString})>>
        readDeltaSeconds == <<Expect({"="}), SkipOptionalLWS>> \o loadNum
        readExtension == <<Expect({"="}), SkipOptionalLWS, Keep(Words \cup {QuotedString})>>
    IN  <<If(Bare, <<Keep(Bare)>>, <<
            If(Fields, <<Keep(Fields), SkipOptionalLWS, If({"="}, readFields, <<>>)>>, <<
            If({"max-stale"}, <<Keep({"max-stale"}), SkipOptionalLWS,
                                If({"="}, readDeltaSeconds, <<>>)>>, <<
            If(Seconds, <<Keep(Seconds), SkipOptionalLWS>> \o readDeltaSeconds,
               <<Keep(Words), SkipOptionalLWS>> \o readExtension)>>)>>)>>)>>

HostPortValue ==
    <<Keep(Words), If({":"}, <<Expect({":"}), Keep(Words)>>, <<>>), Do("host", {})>>

-----------------------------------------------------------------------------
(* Comma separated lists. *)

LoadItem(name) ==
    CASE name = "ACCEPT-ENCODING" -> IdentifierQValue
      [] name = "ACCEPT-LANGUAGE" -> LanguageTag(TRUE)
      [] name = "CONTENT-LANGUAGE" -> LanguageTag(FALSE)
      [] name = "ACCEPT" -> MediaRange
      [] name = "CACHE-CONTROL" -> CacheDirective
      [] OTHER -> IdentifierValue

qUsed(name) == name \in {"ACCEPT-ENCODING", "ACCEPT-LANGUAGE"}
minItems(name) == IF qUsed(name) THEN 1 ELSE 0

(* AddValueToSortedListCallback: before the first one whose q is less. *)
AddSorted(list, item) ==
    LET less == {i \in DOMAIN list : list[i].q < item.q}
    IN  IF less = {} THEN Append(list, item) ELSE InsertAt(list, Min(less), item)

Add(name, list, item) == IF qUsed(name) THEN AddSorted(list, item) ELSE Append(list, item)

(* The exception of an item that does not load is caught here: the list    *)
(* ends there, and its length is not looked at.                            *)
RECURSIVE ReadItems(_, _, _)
AfterItem(name, r, n, list) ==
    CASE ~r.ok -> [r EXCEPT !.ok = TRUE, !.kept = list]
      [] r.ok /\ Coming(n) = "," ->
           ReadItems(name, SkipLWS(Take(n)), Add(name, list, [v |-> r.kept, q |-> r.q]))
      [] OTHER -> [Peek(n) EXCEPT !.ok = Coming(n) = "CRLF" /\ Len(list) + 1 >= minItems(name),
                                  !.kept = Add(name, list, [v |-> r.kept, q |-> r.q])]
Loaded(name, r, list) == AfterItem(name, r, SkipLWS(r), list)
ReadItems(name, s, list) ==
    Loaded(name, Run([s EXCEPT !.kept = <<>>, !.q = 10, !.mark = s.at], LoadItem(name)), list)

ReadCommaSeparatedList(name, s) ==
    IF Coming(s) # "CRLF" THEN ReadItems(name, s, <<>>)
    ELSE [Peek(s) EXCEPT !.ok = minItems(name) = 0, !.kept = <<>>]

-----------------------------------------------------------------------------
(* ParseHeader *)

Lists == {"ACCEPT", "ACCEPT-ENCODING", "ACCEPT-LANGUAGE", "ALLOW", "CACHE-CONTROL",
          "CONTENT-LANGUAGE"}
HeaderNameTable == Lists \cup {"CONTENT-LENGTH", "CONTENT-TYPE", "DATE", "HOST", "LOCATION",
                               "SERVER"}

(* Of an unknown header the name is kept, and its colon belongs to the     *)
(* value.                                                                  *)
Class(name) ==
    CASE name = "CONTENT-LENGTH" -> loadNum
      [] name = "CONTENT-TYPE" -> MediaRange
      [] name = "DATE" -> LoadDateTime
      [] name = "HOST" -> HostPortValue
      [] name = "LOCATION" -> <<Do("uri", {})>>
      [] name = "SERVER" -> <<Do("value", {})>>
      [] OTHER -> <<Keep(Words)>> \o SkipColonLWS \o <<Do("value", {})>>
Load(name, s) == IF name \in Lists THEN ReadCommaSeparatedList(name, s) ELSE Run(s, Class(name))

(* The q of a MediaRange that is compared when a list of them is sorted is *)
(* never assigned: their order is anything.                                *)
Orders(name, value) ==
    IF name # "ACCEPT" THEN {value}
    ELSE {[i \in DOMAIN value |-> value[p[i]]] :
             p \in {f \in [DOMAIN value -> DOMAIN value] : IsInjective(f)}}

Value(name, r) == IF name \in Lists THEN r.kept ELSE <<[v |-> r.kept, q |-> r.q]>>

(* What load makes of the value, if the colon is there. *)
Parsed(name, r) ==
    IF r.ok
    THEN /\ \E value \in Orders(name, Value(name, r)) :
               headers' = Append(headers, [name |-> name, value |-> value])
         /\ scan' = Scanner(r.at, r.read)
    ELSE scan' = SkipHeader(r) /\ UNCHANGED headers

(* A name of the table without a colon behind it is an exception nobody    *)
(* catches before HttpMessage does.                                        *)
ParseHeader ==
    /\ pc = "headers" /\ Coming(scan) \in Words
    /\ \E name \in {Coming(scan)} :
       \E colon \in {IF name \in HeaderNameTable THEN Run(Take(scan), SkipColonLWS)
                     ELSE Peek(scan)} :
          IF ~colon.ok THEN pc' = "refused" /\ UNCHANGED <<scan, headers>>
          ELSE /\ \E r \in {Load(name, colon)} :
                  \E e \in {Run(r, <<SkipOptionalLWS, Demand({"CRLF"})>>)} : Parsed(name, e)
               /\ UNCHANGED pc
    /\ UNCHANGED <<written, message>>

(* ParseHeaders leaves its loop at an empty line, and gives the message up *)
(* where a line does not begin with a name and where the stream ends.      *)
EndOfHeaders ==
    /\ pc = "headers" /\ Coming(scan) \notin Words
    /\ pc' = IF Coming(scan) = "CRLF" THEN "done" ELSE "refused"
    /\ UNCHANGED <<written, message, scan, headers>>

-----------------------------------------------------------------------------
(* Start lines. *)

SkipBlankLines(s) ==
    [s EXCEPT !.at = CHOOSE i \in s.at..Max({s.at, Len(message) + 1}) :
                        /\ Token(i) \notin {"WS", "CRLF"}
                        /\ \A k \in s.at..(i - 1) : Token(k) \in {"WS", "CRLF"}]

SkipWhitespace == While({"WS"}, <<>>)
ParseHttpVersion ==
    <<Demand({"HTTP"}), SkipWhitespace, Demand({"/"}), SkipWhitespace, Demand({"1.1"})>>

(* A method that is not in the table is not refused: the exception is made *)
(* and not thrown.                                                         *)
HttpRequestLine ==
    <<Expect(Words), Expect({"WS"}), If({"*"}, <<Expect({"*"})>>, <<Do("uri", {})>>), Expect({"WS"})>>
    \o ParseHttpVersion \o <<SkipWhitespace, Expect({"CRLF"})>>

Phrase == Words \cup Separators \cup {"WS"}
HttpResponseLine ==
    ParseHttpVersion \o <<Expect({"WS"})>> \o loadNum
    \o <<Expect({"WS"}), While(Phrase, <<>>), Demand({"CRLF"})>>

StartLine ==
    /\ pc = "start"
    /\ \E r \in {Run(SkipBlankLines(scan),
                     IF written.kind = "request" THEN HttpRequestLine ELSE HttpResponseLine)} :
           /\ scan' = Scanner(r.at, r.at - 1)
           /\ pc' = IF r.ok THEN "headers" ELSE "refused"
    /\ UNCHANGED <<written, message, headers>>
-----------------------------------------------------------------------------
(* Writing: toString of the values the SDK makes itself (addRawHeader,     *)
(* addNumTypeHeader, addDateTypeHeader, addIdentListHeader and             *)
(* addContentTypeHeader).                                                  *)

PrintCommaSeparatedList(items) ==
    FlattenSeq([i \in DOMAIN items |-> IF i = 1 THEN items[i] ELSE <<",", "WS">> \o items[i]])

MediaRangeToString(v) == <<v[1], "/", v[2]>>

HeaderToString(name, value) ==
    <<":", "WS">> \o
    CASE name = "ALLOW" -> PrintCommaSeparatedList([i \in DOMAIN value |-> value[i].v])
      [] name = "CONTENT-TYPE" -> MediaRangeToString(value[1].v)
      [] OTHER -> value[1].v

startLineAndHeadersToString(m) ==
    m.start
    \o FlattenSeq([i \in DOMAIN m.lines |->
                     <<m.lines[i].name>> \o m.lines[i].tokens \o <<"CRLF">>])
    \o <<"CRLF">>

(* A message the SDK makes is what setValue and the calls of add...Header   *)
(* put together.                                                           *)
BuiltMessage(hs) ==
    [kind |-> "response", good |-> TRUE,
     start |-> <<"HTTP", "/", "1.1", "WS", "200", "WS", "OK", "CRLF">>,
     lines |-> [i \in DOMAIN hs |->
                  [name |-> hs[i].name, tokens |-> HeaderToString(hs[i].name, hs[i].value),
                   good |-> TRUE, value |-> hs[i].value]]]

HeadersInit ==
    /\ written \in Peers \cup {BuiltMessage(hs) : hs \in Built}
    /\ message = startLineAndHeadersToString(written)
    /\ scan = Scanner(1, 0) /\ headers = <<>> /\ pc = "start"

HeadersNext == StartLine \/ ParseHeader \/ EndOfHeaders

-----------------------------------------------------------------------------
(* A media type has to have a parameter to be understood, whose ";" must   *)
(* not end the line, or the next line is lost as well; and a tag whose q   *)
(* has white space in front may be lost.                                   *)
MediaTypes == {"ACCEPT", "CONTENT-TYPE"}
Regular(l) ==
    /\ l.name \in MediaTypes => Last(l.tokens) # ";"
    /\ l.name = "ACCEPT-LANGUAGE" => "WS" \notin Range(Tail(l.tokens))
Understood(l) == l.good /\ (l.name \in MediaTypes => ";" \in Range(l.tokens))

(* A header of a known name and without a colon makes the message invalid. *)
Colonless(l) == l.name \in HeaderNameTable /\ ":" \notin Range(l.tokens)

Same(h, l) ==
    /\ h.name = l.name
    /\ IF h.name = "ACCEPT" THEN Range(h.value) = Range(l.value) ELSE h.value = l.value

(* A header that is not understood is left out and takes no other with it: *)
(* the others are read as they were meant, in order, those of a list by    *)
(* descending q, whatever their folding; and what the SDK writes it reads  *)
(* (HttpMessage::load, ParseHeaders, SkipHeader, toString).                *)
HeadersKept ==
    pc \in {"done", "refused"} /\ (\A i \in DOMAIN written.lines : Regular(written.lines[i])) =>
        /\ pc = "done" <=>
              /\ written.good
              /\ \A i \in DOMAIN written.lines : ~Colonless(written.lines[i])
        /\ pc = "done" =>
              LET ls == SelectSeq(written.lines, Understood)
              IN  /\ Len(headers) = Len(ls)
                  /\ \A i \in DOMAIN ls : Same(headers[i], ls[i])
=============================================================================
