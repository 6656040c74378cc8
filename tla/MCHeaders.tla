----------------------------- MODULE MCHeaders -----------------------------
(***************************************************************************)
(* Messages for Headers: lines as RFC 2616 has them, each with the value   *)
(* it stands for, and lines that mean nothing.                             *)
(***************************************************************************)
EXTENDS Integers, Sequences, SequencesExt

HWords == {"ACCEPT", "ACCEPT-ENCODING", "ACCEPT-LANGUAGE", "ALLOW", "CACHE-CONTROL",
           "CONTENT-LANGUAGE", "CONTENT-LENGTH", "CONTENT-TYPE", "DATE", "HOST", "LOCATION",
           "SERVER", "X", "GET", "NEW", "HTTP", "1.1", "1.x", "*", "200", "404", "OK", "5", "-5", "1",
           "0.5", "0.2", "2", "q", "a", "b", "c", "en", "h", "Sun", "06", "no-cache", "public",
           "max-age", "max-stale"}

Colon == <<":", "WS">>
Good(name, tokens, value) == [name |-> name, tokens |-> tokens, good |-> TRUE, value |-> value]
Bad(name, tokens) == [name |-> name, tokens |-> tokens, good |-> FALSE, value |-> <<>>]
Item(v, q) == [v |-> v, q |-> q]
One(v) == <<Item(v, 10)>>

(* A list with qualities: as it is written, and what it means. *)
QText(q, ow) == CASE q = 10 -> <<>>
                  [] q = 5 -> ow \o <<";">> \o ow \o <<"q", "=", "0.5">>
                  [] q = 2 -> ow \o <<";", "q">> \o ow \o <<"=">> \o ow \o <<"0.2">>
Listed(items, sep, ow) ==
    FlattenSeq([i \in DOMAIN items |-> (IF i = 1 THEN <<>> ELSE sep) \o items[i].v
                                         \o QText(items[i].q, ow)])
ByQuality(items) == SelectSeq(items, LAMBDA i : i.q = 10) \o SelectSeq(items, LAMBDA i : i.q = 5)
                      \o SelectSeq(items, LAMBDA i : i.q = 2)

Commas == {<<",">>, <<"WS", ",", "CRLF", "WS">>}
QLists == {<<Item(<<"a">>, x), Item(<<"b">>, y), Item(<<"c">>, 5)>> : x \in {2, 5}, y \in {5, 10}}

GoodLines ==
    {Good("ACCEPT-ENCODING", Colon \o Listed(l, sep, ow), ByQuality(l)) :
        l \in QLists, sep \in Commas, ow \in {<<>>, <<"WS">>}}
    \cup {Good("ACCEPT-LANGUAGE", Colon \o <<"en">> \o QText(5, ow), <<Item(<<"en">>, 5)>>) :
             ow \in {<<>>, <<"WS">>}}
    \cup {Good("ALLOW", Colon, <<>>),
          Good("ALLOW", <<":", "a", ",">>, One(<<"a">>)),
          \* an item at the end whose q is out of range is left out
          Good("ACCEPT-ENCODING", Colon \o <<"b", ",", "a", ";", "q", "=", "2">>, One(<<"b">>)),
          Good("ACCEPT", Colon \o <<"*", "/", "*", ";", "q", "=", "0.5", ",", "a", "/", "b", ";",
                                    "q", "=", "1", ";", "c", "=", "QUOTED">>,
               <<Item(<<"*", "*">>, 5), Item(<<"a", "b", "c", "QUOTED">>, 10)>>),
          Good("CONTENT-TYPE", Colon \o <<"a", "/", "b">>, One(<<"a", "b">>)),
          Good("CONTENT-TYPE", Colon \o <<"a", "/", "b", ";", "q", "=", "1">>, One(<<"a", "b">>)),
          Good("CONTENT-LANGUAGE", Colon \o <<"en", ",", "*">>,
               <<Item(<<"en">>, 10), Item(<<"*">>, 10)>>),
          Good("CACHE-CONTROL", Colon \o <<"no-cache", "=", "QUOTED", ",", "WS", "max-age", "WS",
                                           "=", "5", ",", "max-stale", ",", "public", ",", "b",
                                           "=", "c">>,
               <<Item(<<"no-cache", "QUOTED">>, 10), Item(<<"max-age", "5">>, 10),
                 Item(<<"max-stale">>, 10), Item(<<"public">>, 10), Item(<<"b", "c">>, 10)>>),
          Good("CONTENT-LENGTH", Colon \o <<"5", "WS">>, One(<<"5">>)),
          Good("HOST", Colon \o <<"h", ":", "5">>, One(<<"h", "5">>)),
          Good("LOCATION", Colon \o <<"/", "/", "h", "/", "a">>, One(<<"/", "/", "h", "/", "a">>)),
          Good("DATE", Colon \o <<"Sun", ",", "CRLF", "WS", "06", "WS">>,
               One(<<"Sun", ",", "WS", "06">>)),
          Good("X", <<"CRLF", "WS", ":", "WS", "a", "CRLF", "WS", "b">>, One(<<"X", "a", "WS", "b">>))}

BadLines ==
    {Bad("ACCEPT-ENCODING", Colon),
     Bad("ACCEPT-ENCODING", Colon \o <<"a", "WS", "b", "CRLF", "WS", "c">>),
     Bad("ACCEPT-LANGUAGE", Colon \o <<"en", ";", "CRLF", "WS", "en", "CRLF", "WS", "en">>),
     Bad("CONTENT-LENGTH", Colon \o <<"-5">>), Bad("CONTENT-LENGTH", <<":">>),
     Bad("CONTENT-TYPE", Colon \o <<"*", "/", "b", ";", "q", "=", "1">>),
     Bad("CONTENT-TYPE", Colon \o <<"a", "/", "b", ";", "c", "=", "a">>),
     Bad("CONTENT-TYPE", Colon \o <<"a", "/", "b", ";">>),
     Bad("CACHE-CONTROL", Colon \o <<"max-age", ",", "public">>),
     Bad("HOST", Colon \o <<"h", ":", "CRLF", "WS", "5">>), Bad("HOST", Colon \o <<"b">>),
     Bad("LOCATION", Colon \o <<"/", "/", "b">>), Bad("DATE", Colon \o <<"Sun", "06">>),
     Bad("X", <<"WS", "a", ":">>), Bad("HOST", <<"WS", "h">>)}
Lines == GoodLines \cup BadLines

Request(good, start, ls) ==
    [kind |-> "request", good |-> good, start |-> start, lines |-> ls]
Response(good, start, ls) ==
    [kind |-> "response", good |-> good, start |-> start, lines |-> ls]
Version == <<"HTTP", "/", "1.1", "CRLF">>
Get == <<"GET", "WS", "/", "a", "WS">> \o Version
SomeLine == Good("CONTENT-LENGTH", <<":", "5">>, One(<<"5">>))

MCPeers ==
    {Request(TRUE, Get, <<l, m>>) : l \in Lines, m \in Lines}
    \cup {Request(TRUE, start, <<SomeLine>>) :
             start \in {<<"CRLF", "WS", "NEW", "WS", "*", "WS">> \o Version,
                        <<"GET", "WS", "a", "WS", "HTTP", "WS", "/", "WS", "1.1", "WS", "CRLF">>}}
    \cup {Request(FALSE, start, <<SomeLine>>) :
             start \in {<<"GET", "WS", "WS">> \o Version, <<"GET">> \o Version,
                        <<"GET", "WS", "a", "WS", "HTTP", "/", "1.x", "CRLF">>,
                        <<"GET", "WS", "a", "CRLF">>}}
    \cup {Response(good, <<"HTTP", "/", "1.1", "WS">> \o rest \o <<"CRLF">>, <<SomeLine>>) :
             <<good, rest>> \in {<<TRUE, <<"404", "WS", "a", "WS", "b">>>>, <<TRUE, <<"200", "WS">>>>,
                                 <<FALSE, <<"200">>>>, <<FALSE, <<"a", "WS">>>>}}

(* What the web server and the control point put into their messages. *)
BuiltHeaders ==
    {[name |-> "CONTENT-LENGTH", value |-> One(<<"5">>)],
     [name |-> "CONTENT-TYPE", value |-> One(<<"a", "b">>)],
     [name |-> "DATE", value |-> One(<<"Sun", ",", "WS", "06">>)],
     [name |-> "SERVER", value |-> One(<<"a", "/", "5", "WS", "b">>)],
     [name |-> "ALLOW", value |-> <<Item(<<"a">>, 10), Item(<<"b">>, 10), Item(<<"c">>, 10)>>]}
MCBuilt == {<<g, h>> : g \in BuiltHeaders, h \in BuiltHeaders}
=============================================================================
