------------------------------ MODULE Response ------------------------------
(***************************************************************************)
(* What becomes of the bytes a server sends: socket_readable hands them to *)
(* http_parser_execute read by read, the parser calls back into wrk.c, and *)
(* wrk.c collects headers and body and calls the script's response().      *)
(*                                                                         *)
(* One connection, whose descriptor is reopened by reconnect_socket.  The  *)
(* requests, the timing and the event loop are in WrkThread; here it is    *)
(* the content of the responses that matters.  The script defines          *)
(* response(), so parser_settings has all four callbacks.                  *)
(*                                                                         *)
(* A server sends a stream: a sequence of messages, written out as text,   *)
(* and possibly damaged on the way.  A message is a record that says what  *)
(* was meant: [text, status, pairs, body, keep, eof], keep if the          *)
(* connection stays open after it, eof if only its end ends the body.      *)
(***************************************************************************)
EXTENDS HttpMessage, ScriptBuffer, FiniteSets

CONSTANTS
    MaxHeaderSize,   \* HTTP_MAX_HEADER_SIZE
    Streams,     \* what a server may send on the first connection: records
                 \* [msgs, text, clean, declared, damage, reads]; clean if
                 \* text is msgs written out, declared the only length
                 \* announced, or -1, damage the characters that may replace
                 \* one of text, reads the sizes of the pieces it arrives in
    LaterStreams,\* the same for connections opened by reconnect_socket
    MaxOpens     \* bound on the connections opened

VARIABLES
    stream,  \* what the server sends on the open connection
    pos,     \* how much of it has been read
    parser,  \* c->parser
    conn,    \* c->state, c->headers, c->body and what was made of them
    phase,   \* "open", or "closed" between reconnect_socket and socket_connected
    opens,   \* connections opened so far
    fault    \* an assert() of http_parser.c has failed

vars == <<stream, pos, parser, conn, phase, opens, fault>>

FIELD == "FIELD"
VALUE == "VALUE"

Cells(text) == [k \in 1..Len(text) |-> At(text, k)]

\* conn.calls: the responses completed on this connection, with what response()
\* was told; conn.reopen: reconnect_socket was called from a callback;
\* conn.fresh: both buffers were empty when the connection was opened.
NewConn == [state |-> FIELD, headers |-> EmptyBuffer, body |-> EmptyBuffer,
            calls |-> << >>, reopen |-> FALSE, fresh |-> TRUE]

header_field(c, text) ==
    LET d == IF c.state = VALUE
             THEN [c EXCEPT !.headers = PutNul(@), !.state = FIELD] ELSE c
    IN  [d EXCEPT !.headers = buffer_append(@, Cells(text))]

header_value(c, text) ==
    LET d == IF c.state = FIELD
             THEN [c EXCEPT !.headers = PutNul(@), !.state = VALUE] ELSE c
    IN  [d EXCEPT !.headers = buffer_append(@, Cells(text))]

response_body(c, text) == [c EXCEPT !.body = buffer_append(@, Cells(text))]

\* script_response: the table, the body, and both buffers are used again.
script_response(c, status) ==
    [c EXCEPT !.calls = Append(@, [status |-> status, told |-> TRUE,
                                   pairs |-> HeaderPairs(c.headers),
                                   body |-> SubSeq(c.body.mem, 1, c.body.cursor)]),
              !.headers = buffer_reset(@), !.body = buffer_reset(@), !.state = FIELD]

\* response() is called if a header was ever collected on this connection.
Told(c, status) ==
    IF c.headers.length # 0
    THEN script_response([c EXCEPT !.headers = PutNul(@)], status)
    ELSE [c EXCEPT !.calls = Append(@, [status |-> status, told |-> FALSE])]

\* response_complete.  After a message that ends the connection the parser is
\* left as it is; before the next one it is made new, in the middle of the call.
response_complete(p, c) ==
    LET d == Told(c, p.status_code)
    IN  IF http_should_keep_alive(p)
        THEN [p |-> http_parser_init(HTTP_RESPONSE), u |-> d, rc |-> 0]
        ELSE [p |-> p, u |-> [d EXCEPT !.reopen = TRUE], rc |-> 0]

\* parser_settings of a script with response().
OnNotify(kind, p, c) ==
    IF kind = "message_complete" THEN response_complete(p, c) ELSE [p |-> p, u |-> c, rc |-> 0]

OnData(kind, text, p, c) ==
    [p |-> p, rc |-> 0,
     u |-> CASE kind = "header_field" -> header_field(c, text)
             [] kind = "header_value" -> header_value(c, text)
             [] kind = "body" -> response_body(c, text)
             [] OTHER -> c]

P == INSTANCE HttpParser

Init ==
    /\ stream \in Streams
    /\ pos = 0
    /\ parser = http_parser_init(HTTP_RESPONSE)
    /\ conn = NewConn
    /\ phase = "open"
    /\ opens = 1
    /\ fault = FALSE

\* One pass of the loop of socket_readable, with the n bytes of one read.
\* A call that did not use all of them, or the end of the stream in the middle
\* of a message, is an error; an error and a message that ends the connection
\* both lead to reconnect_socket.
ReadEnds(x, data) ==
    LET error == x.ret # Len(data) \/ (data = "" /\ ~http_body_is_final(x.p))
    IN  /\ parser' = x.p
        /\ conn' = x.u
        /\ fault' = (fault \/ x.failed)
        /\ phase' = IF error \/ x.u.reopen THEN "closed" ELSE "open"

ReadPass(data) == ReadEnds(P!http_parser_execute(parser, conn, data), data)

Read(n) ==
    /\ phase = "open"
    /\ pos + n <= Len(stream.text)
    /\ ReadPass(SubSeq(stream.text, pos + 1, pos + n))
    /\ pos' = pos + n
    /\ UNCHANGED <<stream, opens>>

\* All that is left, when it is less than a read may return.
ReadRest ==
    /\ \E n \in stream.reads : Len(stream.text) - pos \in 1..(n - 1)
    /\ Read(Len(stream.text) - pos)

\* The server closes after what it had to send.
ReadEof ==
    /\ phase = "open"
    /\ pos = Len(stream.text)
    /\ ReadPass("")
    /\ UNCHANGED <<stream, pos, opens>>

\* connect_socket and socket_connected: a new stream and a new parser, but the
\* buffers and c->state are those of the connection that was closed.
Reconnect ==
    /\ phase = "closed"
    /\ opens < MaxOpens
    /\ stream' \in LaterStreams
    /\ pos' = 0
    /\ parser' = http_parser_init(HTTP_RESPONSE)
    /\ conn' = [conn EXCEPT !.calls = << >>, !.reopen = FALSE,
                            !.fresh = /\ conn.headers.cursor = 0
                                       /\ conn.body.cursor = 0
                                       /\ conn.state = FIELD]
    /\ phase' = "open"
    /\ opens' = opens + 1
    /\ UNCHANGED fault

\* One character arrives other than it was meant.
DamageByte(ch) ==
    /\ phase = "open" /\ stream.clean
    /\ pos < Len(stream.text)
    /\ ch # At(stream.text, pos + 1)
    /\ stream' = [stream EXCEPT !.clean = FALSE, !.declared = -1,
                    !.text = SubSeq(@, 1, pos) \o ch \o SubSeq(@, pos + 2, Len(@))]
    /\ UNCHANGED <<pos, parser, conn, phase, opens, fault>>

Next ==
    \/ \E n \in stream.reads : Read(n)
    \/ ReadRest
    \/ ReadEof
    \/ \E ch \in stream.damage : DamageByte(ch)
    \/ Reconnect

Spec == Init /\ [][Next]_vars

-----------------------------------------------------------------------------
MaxRead == CHOOSE n \in stream.reads : \A m \in stream.reads : m <= n

TypeOK ==
    /\ pos \in 0..Len(stream.text)
    /\ parser.type = HTTP_RESPONSE /\ FitsFields(parser)
    /\ parser.nread \in 0..(MaxHeaderSize + MaxRead + 1) /\ parser.status_code \in 0..9999
    /\ conn.state \in {FIELD, VALUE}
    /\ conn.headers.cursor \in 0..Len(conn.headers.mem)
    /\ conn.body.cursor \in 0..Len(conn.body.mem)
    /\ phase \in {"open", "closed"} /\ opens \in 1..MaxOpens /\ fault \in BOOLEAN

\* None of the assertions of http_parser.c can fail, whatever arrives and
\* however it is cut into reads: callbacks run without an error pending, at most
\* one mark is left at the end of a call, a chunk size starts with nread at 1,
\* and a body of known length never counts down from 0 or ULLONG_MAX.
AssertionsHold == ~fault

\* Memory outside a buffer is never written, although the header callbacks put
\* their NUL without asking for room (wrk.c header_field, header_value and
\* response_complete): buffer_append always leaves a byte for it.
WithinBuffer ==
    /\ Len(conn.headers.mem) <= conn.headers.length /\ ~conn.headers.over
    /\ Len(conn.body.mem) <= conn.body.length /\ ~conn.body.over

\* The length of a body or of a chunk is the one announced or the response is
\* refused: reading it never wraps and never gives ULLONG_MAX, the value that
\* stands for "until the connection ends" (the tests of content-length and of
\* the chunk size against ULLONG_MAX).
LengthAsDeclared ==
    parser.state \in {"s_body_identity", "s_chunk_data"} /\ stream.declared # -1
    => parser.content_length + conn.body.cursor = stream.declared

\* The messages of the stream the client looks at, and the offset where each ends.
LastUsed == LET stops == {k \in DOMAIN stream.msgs : ~stream.msgs[k].keep}
            IN  IF stops = {} THEN Len(stream.msgs)
            ELSE CHOOSE k \in stops : \A j \in stops : k <= j
EndOf(k) == FoldLeft(LAMBDA n, m : n + Len(m.text), 0, SubSeq(stream.msgs, 1, k))

\* A response is complete exactly when its last byte has been read, neither
\* earlier nor later, for every way of cutting the stream into reads; a body
\* that ends with the connection is complete at its end.  And it ends the
\* connection exactly when it says so: http_should_keep_alive has the flags of
\* the options of Connection, matched letter by letter, the version and the
\* framing.
CompleteOnTime ==
    stream.clean =>
      /\ Len(conn.calls) = Cardinality({k \in 1..LastUsed :
                               IF stream.msgs[k].eof THEN pos = Len(stream.text) /\ phase = "closed"
                               ELSE pos >= EndOf(k)})
      /\ conn.calls # << >> => (conn.reopen <=> ~stream.msgs[Len(conn.calls)].keep)

\* What the script is told of a response is what the server sent in it, header
\* by header and byte by byte, and no response with headers is kept from it.
\* Two cases are left out: a connection opened with something left in the
\* buffers of the one before (see stale_headers), and a response without any
\* header after one that had some: response_complete puts a NUL into the empty
\* buffer, and script_response reads a pair that is left from before.
ToldAsSent ==
    stream.clean /\ conn.fresh =>
      \A k \in DOMAIN conn.calls :
        LET call == conn.calls[k]  m == stream.msgs[k]
        IN  /\ call.status = m.status
            /\ m.pairs # << >> => call.told /\ call.pairs = m.pairs /\ call.body = m.body

=============================================================================
