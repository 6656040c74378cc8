------------------------------ MODULE Transfer ------------------------------
(***************************************************************************)
(* One HTTP exchange, as the SDK's two readers carry it out: transferHTTP  *)
(* with read_http_response (http_client.c), which sends SOAP, GENA and     *)
(* description requests, and http_Download with HttpMessage                *)
(* (readwrite.cpp, netreader.cpp, parseutil.cpp).  The answer comes in     *)
(* pieces of any size, is framed by its length, by chunks or by the end of *)
(* the connection; the peer may fall silent, close or reset at any point,  *)
(* and the time that http_client.c allows may run out between any two reads*)
(* with data waiting.                                                      *)
(*                                                                         *)
(* The stream is a sequence of items: the head of the answer (start line   *)
(* and headers), chunk size lines, line ends, and the bytes of the body,   *)
(* numbered.  What the headers say is a field of the answer.               *)
(***************************************************************************)
EXTENDS Integers, Sequences, SequencesExt

CONSTANTS Answers,              \* [framing, typed, body, stream]
          SOCKET_BUFFER_SIZE,   \* bytes http_client.c reads at once
          BUFSIZE,              \* bytes NetReader receives at once
          HTTP_READ_BYTES,      \* limit on the bytes read, -1: none
          RequestSize           \* bytes of the request, which has a request line

HTTP_SUCCESS == 1
UPNP_E_SOCKET_WRITE == -201
UPNP_E_SOCKET_READ == -202
UPNP_E_SOCKET_CONNECT == -204
HTTP_E_BAD_MSG_FORMAT == -16

VARIABLES answer,    \* what the peer answers
          arrived,   \* items that have arrived
          peer,      \* "open", "closed", "reset"
          reader,    \* "transferHTTP" or "http_Download"
          step,      \* the reader's step
          sent,      \* bytes of the request written
          pos,       \* items read from the socket
          received,  \* NetReader: items received and not yet taken
          eof,       \* NetReader: buf_eof
          left,      \* contentLength, or numLeft of readEntityUsingLength
          chunk,     \* chunk_size
          out,       \* what has been read, the head included
          ret,       \* the result
          late       \* transferHTTP: nothing is left of the Timeout of its reads

transferVars == <<answer, arrived, peer, reader, step, sent, pos, received, eof,
                  left, chunk, out, ret, late>>

Item(kind, n) == [kind |-> kind, n |-> n]

Items == [kind : {"head", "size", "byte", "crlf"}, n : Nat]
Bytes(from, n) == [i \in 1..n |-> Item("byte", from + i)]

(* From the i-th item of an answer on there is a chunk, when b bytes of the
   body have gone before: its size, its bytes and a line end, and then another
   size; or the last and empty one. *)
Chunk(a, i, b) ==
    LET s == a.stream
        n == s[i].n
    IN  /\ i \in DOMAIN s /\ s[i].kind = "size" /\ b + n \in 0..a.body
        /\ IF n = 0 THEN b = a.body /\ Len(s) = i + 1 /\ s[i + 1] = Item("crlf", 0)
           ELSE /\ i + n + 2 \in DOMAIN s /\ s[i + n + 2].kind = "size"
                /\ \A j \in 1..n : s[i + j] = Item("byte", b + j)
                /\ s[i + n + 1] = Item("crlf", 0)

(* A peer's answer is a message: its head, and body bytes in its framing. *)
WellFormedAnswer(a) ==
    /\ a.framing \in {"length", "chunked", "close"}
    /\ a.body \in Nat /\ a.stream \in Seq(Items)
    /\ a.stream # <<>> /\ a.stream[1] = Item("head", 0)
    /\ IF a.framing = "chunked"
       THEN /\ Chunk(a, 2, 0)
            /\ \A i \in DOMAIN a.stream, b \in 0..a.body :
                  Chunk(a, i, b) /\ a.stream[i].n # 0
                     => Chunk(a, i + a.stream[i].n + 2, b + a.stream[i].n)
       ELSE a.stream = <<Item("head", 0)>> \o Bytes(0, a.body)

TransferAssumption ==
    /\ SOCKET_BUFFER_SIZE \in Nat \ {0} /\ BUFSIZE \in Nat \ {0}
    /\ HTTP_READ_BYTES \in Int /\ RequestSize \in Nat \ {0}
    /\ \A a \in Answers : WellFormedAnswer(a)

Available == arrived - pos
Ahead(n) == SubSeq(answer.stream, pos + 1, pos + n)

TransferInit ==
    /\ answer \in Answers
    /\ reader \in {"transferHTTP", "http_Download"}
    /\ arrived = 0 /\ peer = "open" /\ step = "connect" /\ sent = 0 /\ pos = 0
    /\ received = <<>> /\ eof = FALSE /\ left = 0 /\ chunk = -1
    /\ out = <<>> /\ ret = 0 /\ late = FALSE

-----------------------------------------------------------------------------
(* The peer, the network and the time. *)

network == <<answer, arrived, peer, reader, late>>

(* Any number of items arrives at once, once the request is there. *)
AnswerArrives ==
    /\ peer = "open" /\ sent = RequestSize
    /\ \E n \in (arrived + 1)..Len(answer.stream) : arrived' = n
    /\ UNCHANGED <<answer, peer, reader, step, sent, pos, received, eof, left,
                   chunk, out, ret, late>>

(* The peer closes or resets the connection, after its answer or before, at *)
(* the end of an item or within the next.  A silent peer takes no step.     *)
PeerStops ==
    /\ peer = "open"
    /\ peer' \in {"closed", "reset"}
    /\ UNCHANGED <<answer, arrived, reader, step, sent, pos, received, eof, left,
                   chunk, out, ret, late>>

Http == reader = "transferHTTP"

(* All reads of an answer share one Timeout, which read_timeout lessens by *)
(* the seconds it waited, or sets to 0 when select gave up.                *)
TimeRunsOut ==
    /\ Http /\ step \in {"head", "size", "body"} /\ ~late
    /\ late' = TRUE
    /\ UNCHANGED <<answer, arrived, peer, reader, step, sent, pos, received, eof,
                   left, chunk, out, ret>>

-----------------------------------------------------------------------------
(* Sending the request: socket, connect, write_bytes. *)

Ends(code) == step' = "done" /\ ret' = code

Connect ==
    /\ step = "connect"
    /\ \/ step' = "write" /\ UNCHANGED ret
       \/ Ends(IF Http THEN UPNP_E_SOCKET_CONNECT ELSE -1)
    /\ UNCHANGED <<network, sent, pos, received, eof, left, chunk, out>>

(* One turn of the loop of write_bytes; send may take less than it is      *)
(* given, and fails on an error or when the time for writing is over.      *)
write_bytes ==
    /\ Http /\ step = "write"
    /\ \/ /\ sent = RequestSize
          /\ step' = "head" /\ UNCHANGED <<ret, sent>>
       \/ \E n \in (sent + 1)..RequestSize :
             sent' = n /\ UNCHANGED <<step, ret>>
       \/ sent < RequestSize /\ Ends(UPNP_E_SOCKET_WRITE) /\ UNCHANGED sent
    /\ UNCHANGED <<network, pos, received, eof, left, chunk, out>>

(* http_SendMessage; a GET has no body: one send, and nobody asks how much *)
(* of it was taken.                                                        *)
SendGet ==
    /\ ~Http /\ step = "write"
    /\ \/ /\ \E n \in 1..RequestSize : sent' = n
          /\ step' = "head" /\ UNCHANGED ret
       \/ Ends(-1) /\ UNCHANGED sent
    /\ UNCHANGED <<network, pos, received, eof, left, chunk, out>>

-----------------------------------------------------------------------------
(* read_http_response *)

fixed == <<network, sent, received, eof>>

(* readLine: it reads one line, one character at a time. *)
LineRead(item) ==
    /\ ~late /\ Available > 0
    /\ Ahead(1) = <<item>>
    /\ pos' = pos + 1

(* recv returns 0; read_timeout returns -1, and when the time is over it   *)
(* does so without a look at the socket.                                   *)
AtEnd == Available = 0 /\ peer = "closed"
HttpAtEnd == ~late /\ AtEnd
ReadFails == late \/ (Available = 0 /\ peer = "reset")

(* What getHeaders makes of the headers: -1 chunked, -2 until the end of   *)
(* the connection, 0 no body, which is also what a head without any        *)
(* CONTENT header is taken for.                                            *)
ContentLength(a) ==
    CASE a.framing = "chunked" -> -1
      [] a.framing = "length" -> a.body
      [] OTHER -> IF a.typed THEN -2 ELSE 0

getHeaders ==
    /\ Http /\ step = "head"
    /\ \/ /\ LineRead(Item("head", 0))
          /\ out' = <<Item("head", 0)>>
          /\ left' = ContentLength(answer)
          /\ IF left' = 0 THEN Ends(HTTP_SUCCESS)
             ELSE step' = (IF left' = -1 THEN "size" ELSE "body")
                  /\ UNCHANGED ret
       \/ /\ HttpAtEnd /\ Ends(HTTP_SUCCESS) /\ UNCHANGED <<pos, left, out>>
       \/ /\ ReadFails /\ Ends(UPNP_E_SOCKET_READ)
          /\ UNCHANGED <<pos, left, out>>
    /\ UNCHANGED <<fixed, chunk>>

(* The end of the chunk that has been read, before the size of the next. *)
ChunkEnd ==
    /\ Http /\ step = "size" /\ chunk = 0
    /\ \/ LineRead(Item("crlf", 0))
       \/ (HttpAtEnd \/ ReadFails) /\ UNCHANGED pos
    /\ chunk' = -1
    /\ UNCHANGED <<fixed, step, left, out, ret>>

(* A missing or an empty size line ends the message like the last chunk. *)
ChunkSize ==
    /\ Http /\ step = "size" /\ chunk # 0
    /\ \/ \E n \in 1..answer.body :
             LineRead(Item("size", n)) /\ chunk' = n /\ step' = "body"
             /\ UNCHANGED ret
       \/ /\ LineRead(Item("size", 0))
          /\ chunk' = 0 /\ Ends(HTTP_SUCCESS)
       \/ /\ HttpAtEnd \/ ReadFails
          /\ chunk' = 0 /\ Ends(HTTP_SUCCESS) /\ UNCHANGED pos
    /\ UNCHANGED <<fixed, left, out>>

Smaller(a, b) == IF a < b THEN a ELSE b

nextToRead ==
    IF left = -1 THEN Smaller(chunk, SOCKET_BUFFER_SIZE)
    ELSE IF left > 0 THEN Smaller(left, SOCKET_BUFFER_SIZE)
    ELSE SOCKET_BUFFER_SIZE

(* Mutant: a short read counts for what was asked for. *)
ReadBodyFull ==
    \E n \in 1..Smaller(nextToRead, Available) :
        /\ pos' = pos + n /\ out' = out \o Ahead(n)
        /\ left' = (IF left > 0 THEN left - nextToRead ELSE left)
        /\ chunk' = (IF left = -1 THEN chunk - nextToRead ELSE chunk)

(* recv returns some of what was asked for. *)
ReadBody ==
    \E n \in 1..Smaller(nextToRead, Available) :
        /\ pos' = pos + n /\ out' = out \o Ahead(n)
        /\ left' = (IF left > 0 THEN left - n ELSE left)
        /\ chunk' = (IF left = -1 THEN chunk - n ELSE chunk)

TooMuch == HTTP_READ_BYTES # -1 /\ Len(out) + nextToRead > HTTP_READ_BYTES

(* One turn of the loop of read_http_response; an answer cut short by the  *)
(* end of the connection, the time, an error or the limit is a success.    *)
read_http_response ==
    /\ Http /\ step = "body"
    /\ \/ /\ TooMuch \/ HttpAtEnd \/ ReadFails
          /\ Ends(HTTP_SUCCESS) /\ UNCHANGED <<pos, left, chunk, out>>
       \/ /\ ~TooMuch /\ ~late /\ Available > 0
          /\ ReadBody
          /\ IF left' = 0 THEN Ends(HTTP_SUCCESS)
             ELSE step' = (IF left' = -1 /\ chunk' <= 0 THEN "size" ELSE "body")
                  /\ UNCHANGED ret
    /\ UNCHANGED fixed

-----------------------------------------------------------------------------
(* HttpMessage on a NetReader *)

Message == ~Http
unread == <<network, sent>>

(* refillBuffer: recv gives what is there, up to BUFSIZE, and waits without *)
(* a limit when nothing is; its error is a NetException, and the result -1.  *)
refillBuffer ==
    /\ Message /\ step \notin {"connect", "write", "done"}
    /\ received = <<>> /\ ~eof
    /\ \/ /\ \E n \in 1..Smaller(BUFSIZE, Available) :
                received' = Ahead(n) /\ pos' = pos + n
          /\ UNCHANGED <<eof, step, ret>>
       \/ AtEnd /\ eof' = TRUE /\ UNCHANGED <<received, pos, step, ret>>
       \/ /\ Available = 0 /\ peer = "reset"
          /\ Ends(-1) /\ UNCHANGED <<eof, received, pos>>
    /\ UNCHANGED <<unread, left, chunk, out>>

(* Tokens: a line that is there, and the end of the stream, which none of  *)
(* the loading functions expects.                                          *)
TakeItem(item) ==
    /\ received # <<>> /\ Head(received) = item
    /\ received' = Tail(received)

Unexpected == eof /\ Ends(HTTP_E_BAD_MSG_FORMAT) /\ UNCHANGED received

(* The stream ended within a line: in a head, a chunk size or a line end. *)
CutInLine ==
    /\ eof /\ pos < Len(answer.stream)
    /\ answer.stream[pos + 1].kind # "byte"

(* Cut between CR and LF, or within a quoted string, the stream makes the  *)
(* tokenizer throw a TokenizerException.  It is no HttpParseException: the *)
(* catch (...) of http_RecvMessage takes it, and leaves retCode 0.         *)
TokenCut == CutInLine /\ Ends(0) /\ UNCHANGED received

(* loadResponse and ParseHeaders, then messageBodyLen: any transfer        *)
(* encoding is chunked, else the length counts, else the connection.       *)
loadRestOfMessage ==
    /\ Message /\ step = "head"
    /\ \/ /\ TakeItem(Item("head", 0))
          /\ out' = <<Item("head", 0)>>
          /\ left' = (IF answer.framing = "length" THEN answer.body
                      ELSE -1)
          /\ step' = (CASE answer.framing = "chunked" -> "size"
                      [] answer.framing = "length" -> "body"
                      [] OTHER -> "all")
          /\ UNCHANGED ret
       \/ (Unexpected \/ TokenCut) /\ UNCHANGED <<out, left>>
    /\ UNCHANGED <<unread, pos, eof, chunk>>

(* readEncodedEntity: the size of a chunk *)
readEncodedEntity ==
    /\ Message /\ step = "size"
    /\ \/ \E n \in 0..answer.body :
             /\ TakeItem(Item("size", n))
             /\ left' = n
             /\ step' = (IF n = 0 THEN "trailer" ELSE "body")
             /\ UNCHANGED ret
       \/ (Unexpected \/ TokenCut) /\ UNCHANGED left
    /\ UNCHANGED <<unread, pos, eof, chunk, out>>

(* readEntityUsingLength, one read: what the buffer holds of what is       *)
(* missing.  After the end of the stream a body with a length is an error; *)
(* of a chunk the result is ignored, and the line end is missed instead.   *)
readEntityUsingLength ==
    /\ Message /\ step = "body"
    /\ \/ /\ left > 0 /\ received # <<>>
          /\ \E n \in {Smaller(left, Len(received))} :
                /\ out' = out \o SubSeq(received, 1, n)
                /\ received' = SubSeq(received, n + 1, Len(received))
                /\ left' = left - n
          /\ UNCHANGED <<step, ret>>
       \/ /\ left = 0
          /\ IF answer.framing = "chunked"
             THEN step' = "line" /\ UNCHANGED ret ELSE Ends(0)
          /\ UNCHANGED <<received, left, out>>
       \/ left > 0 /\ Unexpected /\ UNCHANGED <<left, out>>
    /\ UNCHANGED <<unread, pos, eof, chunk>>

(* The line end after a chunk, and ParseHeaders after the last. *)
ChunkLine ==
    /\ Message /\ step \in {"line", "trailer"}
    /\ \/ /\ TakeItem(Item("crlf", 0))
          /\ IF step = "line" THEN step' = "size" /\ UNCHANGED ret ELSE Ends(0)
       \/ Unexpected \/ TokenCut
    /\ UNCHANGED <<unread, pos, eof, left, chunk, out>>

readEntityUntilClose ==
    /\ Message /\ step = "all"
    /\ \/ /\ received # <<>> /\ out' = out \o received /\ received' = <<>>
          /\ UNCHANGED <<step, ret>>
       \/ eof /\ Ends(0) /\ UNCHANGED <<received, out>>
    /\ UNCHANGED <<unread, pos, eof, left, chunk>>

TransferNext ==
    \/ AnswerArrives \/ PeerStops \/ TimeRunsOut
    \/ Connect \/ write_bytes \/ SendGet
    \/ getHeaders \/ ChunkEnd \/ ChunkSize \/ read_http_response
    \/ refillBuffer \/ loadRestOfMessage \/ readEncodedEntity
    \/ readEntityUsingLength \/ ChunkLine \/ readEntityUntilClose

TransferSpec == TransferInit /\ [][TransferNext]_transferVars
-----------------------------------------------------------------------------
Whole == <<Item("head", 0)>> \o Bytes(0, answer.body)
ArrivedWhole == arrived = Len(answer.stream)

(* What the reader can know to be the end: http_client.c does not expect a *)
(* body when no header begins with CONTENT, and reads no more when its     *)
(* limit is reached or its time is over.                                   *)
Understood ==
    Http => /\ HTTP_READ_BYTES = -1 /\ ~late
            /\ answer.framing = "close" => answer.typed

(* read_http_response, http_RecvMessage, loadRestOfMessage: however the    *)
(* answer is cut into pieces, nothing but the message is read, in order;   *)
(* when it has arrived whole, is understood and a result reports success,  *)
(* it was read whole, and it is never called badly formed.  A download     *)
(* that reports success although the connection closed early lacks         *)
(* something in two cases only: the end of the connection is the end of    *)
(* the body, or the cut is within a line.  (The second is the code's       *)
(* behaviour, not its contract: readwrite.cpp:51 means 0 by success.  For  *)
(* http_client.c a body cut short is a success by design; that any body is *)
(* returned without CONTENT-LENGTH contradicts http_client.c:1781.)        *)
TransferWhole ==
    /\ IsPrefix(out, Whole)
    /\ step = "done" /\ ret \in {0, HTTP_SUCCESS} =>
          /\ ArrivedWhole /\ Understood => out = Whole
          /\ Message /\ answer.framing # "close" => out = Whole \/ CutInLine
    /\ step = "done" /\ ArrivedWhole => ret # HTTP_E_BAD_MSG_FORMAT
=============================================================================
