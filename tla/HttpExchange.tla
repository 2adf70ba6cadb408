---------------------------- MODULE HttpExchange ----------------------------
(***************************************************************************)
(* One connection of the web server from its first byte to its last: the   *)
(* request arrives in pieces and is parsed as it comes                     *)
(* (device/web/http_parse.py), the answer is a source with a cursor        *)
(* (scan_response.py) that leaves in pieces (_read_client, _write_client   *)
(* of server.py).  HttpServer has the clients and their turns; here is     *)
(* what one of them receives.                                              *)
(*                                                                         *)
(* A request is a sequence of letters, each of which counts for one byte:  *)
(* the texts that matter, "CR", "LF", and "x" for any other byte.          *)
(***************************************************************************)
EXTENDS Integers, Sequences, SequencesExt

CONSTANTS
    Texts,          \* what browsers send
    Pages,          \* what the routes answer: the lengths of an answer's parts
    ErrorLength,    \* the length of an answer to a parse error, and of a 503
    MaxLine,        \* HTTP_MAX_REQUEST_LINE
    MaxHeaders,     \* HTTP_MAX_HEADERS_BYTES
    MaxBody,        \* HTTP_MAX_BODY_BYTES
    PerTick         \* HTTP_PER_TICK_BYTES

ASSUME ExchangeAssumption ==
    /\ {MaxLine, MaxHeaders, MaxBody, PerTick, ErrorLength} \subseteq Nat \ {0}
    /\ Pages \subseteq Seq(Nat)
    /\ Texts \subseteq Seq(STRING)

VARIABLES
    text,       \* what the browser sends on this connection
    fed,        \* how much of it has been received
    parser,     \* client.parser
    phase,      \* of the client: "reading", "held", "writing" or "closed"
    outbox,     \* its parts, whether it is a source, and the source's offset
    outOffset,  \* client.out_offset
    reply,      \* observed: what kind of answer was given to which body
    got,        \* observed: the bytes of the answer the browser has received
    ending      \* observed: whether the server closed after the answer or gave up

exchangeVars == <<text, fed, parser, phase, outbox, outOffset, reply, got, ending>>

-----------------------------------------------------------------------------
(***************************************************************************)
(* IncrementalHttpParser                                                   *)
(***************************************************************************)
\* "get" is a request line, "http2" one of another version; "length n" is a
\* Content-Length header, "host" any other.
Lengths == [length0 |-> 0, length1 |-> 1, length2 |-> 2, length9 |-> 9]
HeaderLetters == DOMAIN Lengths \union {"host"}

NewParser == [state |-> "line", error |-> "none", buf |-> <<>>, headersBytes |-> 0,
              length |-> "length0", need |-> 0, body |-> <<>>]

Fails(p, code) == [p EXCEPT !.state = "error", !.error = code]

EndsLine(buf) == Len(buf) >= 2 /\ SubSeq(buf, Len(buf) - 1, Len(buf)) = <<"CR", "LF">>
LineOf(buf) == SubSeq(buf, 1, Len(buf) - 2)

Has(line, letters) == \E i \in DOMAIN line : line[i] \in letters

\* _parse_request_line: "ok" or the error.
RequestLine(line) ==
    IF ~Has(line, {"get", "http2"}) THEN "malformed"
    ELSE IF Last(line) = "get" THEN "ok" ELSE "unsupported"

Stripped(line) == SelectSeq(line, LAMBDA c : c \notin {"CR", "LF"})

\* _parse_header_line: the value of Content-Length after this line.
HeaderLine(line, length) ==
    LET s == Stripped(line)
    IN IF s[1] \notin DOMAIN Lengths THEN length ELSE IF Len(s) = 1 THEN s[1] ELSE "junk"

\* _headers_done
HeadersDone(p) ==
    IF p.length = "junk" THEN Fails(p, "malformed")
    ELSE IF Lengths[p.length] > MaxBody THEN Fails(p, "too_large")
    ELSE [p EXCEPT !.need = Lengths[p.length],
                   !.state = IF Lengths[p.length] = 0 THEN "done" ELSE "body"]

\* _feed_line
FeedLine(p, buf) ==
    IF Len(buf) > MaxLine THEN Fails(p, "too_large")
    ELSE IF ~EndsLine(buf) THEN [p EXCEPT !.buf = buf]
    ELSE LET outcome == RequestLine(LineOf(buf))
         IN IF outcome = "ok" THEN [p EXCEPT !.state = "headers", !.buf = <<>>]
            ELSE Fails(p, outcome)

\* _feed_headers
FeedHeaders(p, buf) ==
    LET q == [p EXCEPT !.headersBytes = @ + 1, !.buf = buf]
    IN IF q.headersBytes > MaxHeaders THEN Fails(q, "too_large")
       ELSE IF ~EndsLine(buf) THEN q
       ELSE IF LineOf(buf) = <<>> THEN HeadersDone([q EXCEPT !.buf = <<>>])
       ELSE IF ~Has(buf, HeaderLetters) THEN Fails(q, "malformed")
       ELSE [q EXCEPT !.buf = <<>>, !.length = HeaderLine(LineOf(buf), @)]

\* _feed_body, of one byte
FeedBody(p, buf) ==
    IF Len(buf) < p.need THEN [p EXCEPT !.buf = buf]
    ELSE [p EXCEPT !.body = buf, !.state = "done"]

\* The loop of feed over one byte: what follows the request is not consumed.
FeedByte(p, c) ==
    CASE p.state = "line" -> FeedLine(p, Append(p.buf, c))
      [] p.state = "headers" -> FeedHeaders(p, Append(p.buf, c))
      [] p.state = "body" -> FeedBody(p, Append(p.buf, c))
      [] OTHER -> p

Feed(p, data) ==
    LET after[n \in 0 .. Len(data)] ==
            IF n = 0 THEN p ELSE FeedByte(after[n - 1], data[n])
    IN after[Len(data)]

-----------------------------------------------------------------------------
(***************************************************************************)
(* ResponseSource                                                          *)
(***************************************************************************)
\* The places in an answer at which its parts end.
PartEnds(parts) ==
    LET end[n \in 0 .. Len(parts)] == IF n = 0 THEN 0 ELSE end[n - 1] + parts[n]
    IN end

Total(parts) == PartEnds(parts)[Len(parts)]

Least(m, n) == IF m <= n THEN m ELSE n

\* What _response_chunk takes of the part that lies between two offsets; a byte is
\* its place in the answer.
Slice(offset, end, start, stop) ==
    LET from == IF start > offset THEN start ELSE offset
        to == Least(end, stop)
    IN [i \in 1 .. (IF to > from THEN to - from ELSE 0) |-> from + i]

\* _response_chunk: the bytes from start to stop of an answer in parts.
ResponseChunk(parts, start, stop) ==
    LET end == PartEnds(parts)
        taken[n \in 0 .. Len(parts)] ==
            IF n = 0 THEN <<>> ELSE taken[n - 1] \o Slice(end[n - 1], end[n], start, stop)
    IN taken[Len(parts)]

NoOutbox == [parts |-> <<>>, source |-> FALSE, offset |-> 0]

\* An outbox: _as_source, or the constant bytes of _REQUEST_FAILURE_RESPONSE.
Queue(parts, source) ==
    /\ phase' = "writing"
    /\ outbox' = [parts |-> parts, source |-> source, offset |-> 0]
    /\ outOffset' = 0

\* _close_client
Close(how) ==
    /\ phase' = "closed" /\ ending' = how
    /\ outbox' = NoOutbox

-----------------------------------------------------------------------------
(***************************************************************************)
(* The connection.                                                         *)
(***************************************************************************)
ExchangeInit ==
    /\ text \in Texts /\ fed = 0
    /\ parser = NewParser
    /\ phase = "reading" /\ outbox = NoOutbox /\ outOffset = 0
    /\ reply = [kind |-> "none", body |-> <<>>, total |-> 0]
    /\ got = <<>> /\ ending = "none"

\* What the route answers, now or when the held client's derivation has ended.
Answer(parts, body) ==
    /\ Queue(parts, TRUE)
    /\ reply' = [kind |-> "page", body |-> body, total |-> Total(parts)]

\* _queue_request_failure
Breaks ==
    /\ Queue(<<ErrorLength>>, FALSE)
    /\ reply' = [kind |-> "failure", body |-> <<>>, total |-> ErrorLength]

\* _read_client, of some of what has arrived.
Read ==
    /\ phase = "reading"
    /\ \E n \in 1 .. Least(PerTick, Len(text) - fed) :
           LET p == Feed(parser, SubSeq(text, fed + 1, fed + n))
           IN /\ fed' = fed + n
              /\ parser' = p
              /\ \/ /\ p.state \notin {"done", "error"}
                    /\ UNCHANGED <<phase, outbox, outOffset, reply>>
                 \/ /\ p.state = "error"
                    /\ Queue(<<ErrorLength>>, TRUE)
                    /\ reply' = [kind |-> p.error, body |-> <<>>, total |-> ErrorLength]
                 \/ /\ p.state = "done"
                    /\ \E parts \in Pages : Answer(parts, p.body)
                 \/ /\ p.state = "done"       \* a login or a change of the password
                    /\ phase' = "held"
                    /\ reply' = [kind |-> "page", body |-> p.body, total |-> 0]
                    /\ UNCHANGED <<outbox, outOffset>>
                 \/ Breaks
    /\ UNCHANGED <<text, got, ending>>

\* queue_held_response
AnswerHeld ==
    /\ phase = "held"
    /\ \E parts \in Pages : Answer(parts, reply.body)
    /\ UNCHANGED <<text, fed, parser, got, ending>>

\* The browser is gone, or the server closes all connections.
Disconnect ==
    /\ phase # "closed"
    /\ Close("broken")
    /\ UNCHANGED <<text, fed, parser, outOffset, reply, got>>

\* The bytes of a write, and the place in the answer they begin at.
At == IF outbox.source THEN outbox.offset ELSE outOffset
Chunk == ResponseChunk(outbox.parts, At, Least(At + PerTick, Total(outbox.parts)))

\* What the socket takes of the chunk, or none when it raises EAGAIN; `rest' is
\* where that leaves the source's cursor.
SendChunk(rest(_)) ==
    /\ phase = "writing"
    /\ \E n \in 0 .. Len(Chunk) :
           /\ got' = got \o SubSeq(Chunk, 1, n)
           /\ outOffset' = outOffset + n
           /\ IF Chunk = <<>> \/ outOffset' >= Total(outbox.parts) THEN Close("complete")
              ELSE /\ outbox' = [outbox EXCEPT !.offset = IF outbox.source THEN rest(n) ELSE @]
                   /\ UNCHANGED <<phase, ending>>
    /\ UNCHANGED <<text, fed, parser, reply>>

\* Mutant of Write: the cursor stays where read() put it.
WriteNoRewind == SendChunk(LAMBDA n : At + Len(Chunk))

\* _write_client: the cursor that read() has moved goes back to what was not sent.
Write == SendChunk(LAMBDA n : At + n)

\* Bound: after one exchange another begins.
Again ==
    /\ phase = "closed"
    /\ text' \in Texts /\ fed' = 0
    /\ parser' = NewParser
    /\ phase' = "reading" /\ outbox' = NoOutbox /\ outOffset' = 0
    /\ reply' = [kind |-> "none", body |-> <<>>, total |-> 0]
    /\ got' = <<>> /\ ending' = "none"

ExchangeNext == Read \/ AnswerHeld \/ Disconnect \/ Write \/ Again

ExchangeSpec == ExchangeInit /\ [][ExchangeNext]_exchangeVars

-----------------------------------------------------------------------------
(***************************************************************************)
(* What a request is, from its text alone.                                 *)
(***************************************************************************)
LineEnds(t) == {i \in 2 .. Len(t) : t[i - 1] = "CR" /\ t[i] = "LF"}

RequestEnd(t) == Min(LineEnds(t) \union {Len(t) + 1})

\* The headers end with a blank line.
BlankEnd(t) == Min({i \in LineEnds(t) : i - 2 \in LineEnds(t)} \union {Len(t) + 1})

LineStart(t, i) == Max({k \in LineEnds(t) : k < i}) + 1

\* The headers by the places at which they end.
HeadersOf(t) ==
    [i \in {k \in LineEnds(t) : RequestEnd(t) < k /\ k < BlankEnd(t)} |->
        SubSeq(t, LineStart(t, i), i - 2)]

\* The length the headers announce: that of the last Content-Length.
Announced(lines) ==
    LET named == {i \in DOMAIN lines : Stripped(lines[i])[1] \in DOMAIN Lengths}
    IN IF named = {} THEN "length0" ELSE HeaderLine(lines[Max(named)], "length0")

\* The end of the first header that is none, or of the blank line.
WrongEnd(t) ==
    Min({i \in DOMAIN HeadersOf(t) : ~Has(HeadersOf(t)[i], HeaderLetters)} \union {BlankEnd(t)})

\* The answer that a complete request line of a text deserves.
RequestDeserves(t) ==
    LET outcome == RequestLine(SubSeq(t, 1, RequestEnd(t) - 2))
        length == Announced(HeadersOf(t))
        blank == BlankEnd(t)
        Is(kind) == [kind |-> kind, body |-> <<>>]
    IN IF outcome # "ok" THEN Is(outcome)
       ELSE IF Least(Len(t), WrongEnd(t)) > RequestEnd(t) + MaxHeaders THEN Is("too_large")
       ELSE IF WrongEnd(t) < blank THEN Is("malformed")
       ELSE IF blank > Len(t) THEN Is("wait")
       ELSE IF length = "junk" THEN Is("malformed")
       ELSE IF Lengths[length] > MaxBody THEN Is("too_large")
       ELSE IF Len(t) < blank + Lengths[length] THEN Is("wait")
       ELSE [kind |-> "page", body |-> SubSeq(t, blank + 1, blank + Lengths[length])]

\* The answer a text deserves, and "wait" while it is not all of a request.
Deserved(t) ==
    IF Least(Len(t), RequestEnd(t)) > MaxLine THEN [kind |-> "too_large", body |-> <<>>]
    ELSE IF RequestEnd(t) > Len(t) THEN [kind |-> "wait", body |-> <<>>]
    ELSE RequestDeserves(t)

\* However a request is cut into pieces and however the socket takes the answer,
\* the client is answered as its text deserves as soon as the text is complete,
\* with the body the headers announce; what it receives is a beginning of that
\* answer, and all of it when the server closes the connection on its own account.
AnswerFits ==
    LET deserved == Deserved(SubSeq(text, 1, fed))
    IN /\ phase = "reading" => deserved.kind = "wait"
       /\ reply.kind \notin {"none", "failure"} => reply.kind = deserved.kind /\ reply.body = deserved.body
       /\ got = [i \in 1 .. Len(got) |-> i]
       /\ ending = "complete" => Len(got) = reply.total
=============================================================================
