--------------------------- MODULE ResponseProofs ---------------------------
(***************************************************************************)
(* Proofs about the bytes a server sends, for any streams, any way they    *)
(* are cut into reads or damaged, and any values of the limits: none of    *)
(* the assertions of http_parser.c fails, and no callback of wrk.c writes  *)
(* outside a buffer.                                                       *)
(*                                                                         *)
(* A text is a sequence of characters, and Char is what they are.          *)
(***************************************************************************)
EXTENDS Response, SequenceTheorems, WellFoundedInduction, TLAPS

CONSTANT Char

IsStream(s) ==
    /\ DOMAIN s = {"msgs", "text", "clean", "declared", "damage", "reads"}
    /\ s.text \in Seq(Char) /\ s.damage \subseteq Seq(Char) /\ s.reads \subseteq Nat

\* The text of a read that returns nothing.
NoBytes == ""

StreamsAreText == NoBytes \in Seq(Char) /\ \A s \in Streams \cup LaterStreams : IsStream(s)

-----------------------------------------------------------------------------
(***************************************************************************)
(* The buffers.  There is always a byte free behind the text, unless the   *)
(* buffer was never used: RoomForNul.                                      *)
(***************************************************************************)
Cell == Seq(Char) \cup {NUL}

RoomForNul(b) == b.cursor + 1 < b.length \/ (b.cursor = 0 /\ b.length = 0)

\* A buffer whose text ends within what was written, and that within the memory.
Fits(b) ==
    /\ DOMAIN b = {"mem", "cursor", "length", "over"}
    /\ b.mem \in Seq(Cell) /\ b.cursor \in 0..Len(b.mem) /\ b.length \in Nat
    /\ Len(b.mem) <= b.length /\ b.over = FALSE

BufferInv(b) == Fits(b) /\ RoomForNul(b)

\* Any part of a text is a text.
LEMMA Part ==
    ASSUME NEW S, NEW s \in Seq(S), NEW m \in Nat \ {0}, NEW n \in 0..Len(s)
    PROVE  SubSeq(s, m, n) \in Seq(S)
           /\ Len(SubSeq(s, m, n)) = IF m <= n THEN n - m + 1 ELSE 0
<1>1. CASE m <= n
  BY <1>1, SubSeqProperties
<1>2. CASE ~(m <= n)
  <2>1. SubSeq(s, m, n) = << >>
    BY <1>2, EmptySeq
  <2> QED
    BY <1>2, <2>1
<1> QED
  BY <1>1, <1>2

LEMMA CellsOfText ==
    ASSUME NEW text \in Seq(Char)
    PROVE  Cells(text) \in Seq(Cell) /\ Len(Cells(text)) = Len(text)
<1>1. \A k \in 1..Len(text) : At(text, k) \in Cell
  BY Part DEF At, Cell
<1> QED
  BY <1>1 DEF Cells

\* Writing cells at the cursor stays within the memory if there is room.
LEMMA PutFits ==
    ASSUME NEW b, Fits(b), NEW cells \in Seq(Cell), b.cursor + Len(cells) <= b.length
    PROVE  /\ Fits(Put(b, cells))
           /\ Put(b, cells).cursor = b.cursor + Len(cells)
           /\ Put(b, cells).length = b.length
<1> DEFINE end == b.cursor + Len(cells)
           head == SubSeq(b.mem, 1, b.cursor)
           tail == SubSeq(b.mem, end + 1, Len(b.mem))
<1>1. head \in Seq(Cell) /\ Len(head) = b.cursor
  BY Part DEF Fits
<1>2. tail \in Seq(Cell)
      /\ Len(tail) = IF end + 1 <= Len(b.mem) THEN Len(b.mem) - end ELSE 0
  BY Part DEF Fits
<1> DEFINE new == head \o cells \o tail
<1>3. new \in Seq(Cell) /\ Len(new) = b.cursor + Len(cells) + Len(tail)
  BY <1>1, <1>2
<1>4. Put(b, cells) = [b EXCEPT !.cursor = end, !.over = @ \/ end > b.length, !.mem = new]
  BY DEF Put
<1>5. end \in Nat /\ ~(end > b.length) /\ Len(b.mem) \in Nat /\ b.length \in Nat
      /\ Len(b.mem) <= b.length /\ Len(tail) \in Nat
  BY <1>2 DEF Fits
<1>6. end <= Len(new) /\ Len(new) <= b.length
  <2> HIDE DEF head, tail, new
  <2> QED
    BY <1>2, <1>3, <1>5
<1> HIDE DEF new
<1>7. DOMAIN Put(b, cells) = DOMAIN b /\ Put(b, cells).cursor = end
      /\ Put(b, cells).length = b.length /\ Put(b, cells).over = FALSE
      /\ Put(b, cells).mem = new
  BY <1>4, <1>5 DEF Fits
<1> HIDE DEF end
<1>8. end \in 0..Len(new)
  BY <1>3, <1>5, <1>6
<1> QED
  BY <1>3, <1>5, <1>6, <1>7, <1>8 DEF Fits, end

\* The length buffer_append allocates is more than what it needs.
LEMMA GrownIsEnough ==
    ASSUME NEW length \in Nat, NEW need \in Nat
    PROVE  Grown(length, need) \in Nat /\ Grown(length, need) > need
           /\ Grown(length, need) >= length
<1> DEFINE q == (need - length) \div Step
           r == (need - length) % Step
<1>1. CASE need < length
  BY <1>1 DEF Grown
<1>2. CASE need >= length
  <2>1. q \in Nat /\ r \in 0..(Step - 1) /\ need - length = Step * q + r
    BY <1>2, ScriptBufferAssumption
  <2>2. Step * (q + 1) = Step * q + Step /\ Step * q \in Nat
    BY <2>1, ScriptBufferAssumption
  <2>3. Grown(length, need) = length + Step * (q + 1)
    BY <1>2 DEF Grown
  <2> HIDE DEF q, r
  <2> QED
    BY <1>2, <2>1, <2>2, <2>3, ScriptBufferAssumption
<1> QED
  BY <1>1, <1>2

\* buffer_append leaves room for a NUL, whether or not there was some.
LEMMA AppendKeeps ==
    ASSUME NEW b, Fits(b), NEW cells \in Seq(Cell)
    PROVE  BufferInv(buffer_append(b, cells)) /\ buffer_append(b, cells).length # 0
<1> DEFINE need == b.cursor + Len(cells) + 1
           c == [b EXCEPT !.length = Grown(@, need)]
<1>1. need \in Nat /\ b.length \in Nat /\ Len(cells) \in Nat /\ b.cursor \in Nat
  BY DEF Fits
<1>2. Grown(b.length, need) \in Nat /\ Grown(b.length, need) > need
      /\ Grown(b.length, need) >= b.length
  BY <1>1, GrownIsEnough
<1>3. DOMAIN c = DOMAIN b /\ c.length = Grown(b.length, need) /\ c.cursor = b.cursor
      /\ c.mem = b.mem /\ c.over = b.over
  BY DEF Fits
<1>4. buffer_append(b, cells) = Put(c, cells)
  BY DEF buffer_append
<1> HIDE DEF c
<1>5. Fits(c)
  BY <1>1, <1>2, <1>3 DEF Fits
<1>6. c.cursor + Len(cells) + 1 < c.length
  BY <1>1, <1>2, <1>3
<1>7. c.cursor + Len(cells) <= c.length /\ c.cursor \in Nat /\ c.length \in Nat
  BY <1>1, <1>2, <1>3
<1>8. Fits(Put(c, cells)) /\ Put(c, cells).cursor = c.cursor + Len(cells)
      /\ Put(c, cells).length = c.length
  BY <1>5, <1>7, PutFits
<1> QED
  BY <1>1, <1>4, <1>6, <1>7, <1>8 DEF BufferInv, RoomForNul

\* A NUL fits into a buffer that was used before.
LEMMA PutNulFits ==
    ASSUME NEW b, BufferInv(b), b.length # 0
    PROVE  Fits(PutNul(b)) /\ PutNul(b).length = b.length
<1>1. <<NUL>> \in Seq(Cell) /\ Len(<<NUL>>) = 1
  BY DEF Cell
<1>2. b.cursor + 1 <= b.length
  BY DEF BufferInv, RoomForNul, Fits
<1> QED
  BY <1>1, <1>2, PutFits DEF PutNul, BufferInv

LEMMA ResetKeeps ==
    ASSUME NEW b, Fits(b), b.length # 1
    PROVE  BufferInv(buffer_reset(b)) /\ buffer_reset(b).length = b.length
<1>1. DOMAIN buffer_reset(b) = DOMAIN b /\ buffer_reset(b).cursor = 0
      /\ buffer_reset(b).mem = b.mem /\ buffer_reset(b).length = b.length
      /\ buffer_reset(b).over = b.over
  BY DEF buffer_reset, Fits
<1> QED
  BY <1>1 DEF BufferInv, Fits, RoomForNul

-----------------------------------------------------------------------------
(***************************************************************************)
(* The callbacks of wrk.c.  HasHeaders: memory for headers was allocated,  *)
(* which is so once a header name has been handed over.                    *)
(***************************************************************************)
HasHeaders(u) == u.headers.length # 0

ConnInv(u) ==
    /\ DOMAIN u = {"state", "headers", "body", "calls", "reopen", "fresh"}
    /\ BufferInv(u.headers) /\ BufferInv(u.body)
    /\ u.state = VALUE => HasHeaders(u)

\* What a callback that is given text needs and leaves.
LEMMA FieldKeeps ==
    ASSUME NEW u, ConnInv(u), NEW text \in Seq(Char)
    PROVE  ConnInv(header_field(u, text)) /\ HasHeaders(header_field(u, text))
<1> DEFINE d == IF u.state = VALUE
                THEN [u EXCEPT !.headers = PutNul(@), !.state = FIELD] ELSE u
<1>1. Fits(d.headers) /\ d.body = u.body /\ DOMAIN d = DOMAIN u /\ d.state # VALUE
  BY PutNulFits DEF ConnInv, HasHeaders, BufferInv, VALUE, FIELD
<1>2. header_field(u, text) = [d EXCEPT !.headers = buffer_append(@, Cells(text))]
  BY DEF header_field
<1> HIDE DEF d
<1>3. BufferInv(buffer_append(d.headers, Cells(text)))
      /\ buffer_append(d.headers, Cells(text)).length # 0
  BY <1>1, CellsOfText, AppendKeeps
<1> QED
  BY <1>1, <1>2, <1>3 DEF ConnInv, HasHeaders

LEMMA ValueKeeps ==
    ASSUME NEW u, ConnInv(u), HasHeaders(u), NEW text \in Seq(Char)
    PROVE  ConnInv(header_value(u, text)) /\ HasHeaders(header_value(u, text))
<1> DEFINE d == IF u.state = FIELD
                THEN [u EXCEPT !.headers = PutNul(@), !.state = VALUE] ELSE u
<1>1. Fits(d.headers) /\ d.body = u.body /\ DOMAIN d = DOMAIN u
  BY PutNulFits DEF ConnInv, HasHeaders, BufferInv
<1>2. header_value(u, text) = [d EXCEPT !.headers = buffer_append(@, Cells(text))]
  BY DEF header_value
<1> HIDE DEF d
<1>3. BufferInv(buffer_append(d.headers, Cells(text)))
      /\ buffer_append(d.headers, Cells(text)).length # 0
  BY <1>1, CellsOfText, AppendKeeps
<1> QED
  BY <1>1, <1>2, <1>3 DEF ConnInv, HasHeaders

LEMMA BodyKeeps ==
    ASSUME NEW u, ConnInv(u), NEW text \in Seq(Char)
    PROVE  /\ ConnInv(response_body(u, text))
           /\ HasHeaders(u) => HasHeaders(response_body(u, text))
<1>1. BufferInv(buffer_append(u.body, Cells(text)))
  BY CellsOfText, AppendKeeps DEF ConnInv, BufferInv
<1> QED
  BY <1>1 DEF ConnInv, HasHeaders, response_body

LEMMA ToldKeeps ==
    ASSUME NEW u, ConnInv(u), NEW status
    PROVE  ConnInv(Told(u, status)) /\ (HasHeaders(u) => HasHeaders(Told(u, status)))
<1>1. CASE HasHeaders(u)
  <2> DEFINE d == [u EXCEPT !.headers = PutNul(@)]
  <2>1. Fits(PutNul(u.headers)) /\ PutNul(u.headers).length = u.headers.length
        /\ u.headers.length # 1 /\ u.headers.length # 0 /\ u.body.length # 1 /\ Fits(u.body)
    <3>1. BufferInv(u.headers) /\ BufferInv(u.body) /\ u.headers.length # 0
      BY <1>1 DEF ConnInv, HasHeaders
    <3>2. u.headers.length # 1 /\ u.body.length # 1 /\ Fits(u.body)
      BY <3>1 DEF BufferInv, RoomForNul, Fits
    <3> QED
      BY <3>1, <3>2, PutNulFits
  <2>2. d.headers = PutNul(u.headers) /\ d.body = u.body /\ DOMAIN d = DOMAIN u
    BY DEF ConnInv
  <2>3. Told(u, status) = script_response(d, status)
    BY <1>1 DEF Told, HasHeaders
  <2> HIDE DEF d
  <2>4. DOMAIN script_response(d, status) = DOMAIN d
        /\ script_response(d, status).headers = buffer_reset(d.headers)
        /\ script_response(d, status).body = buffer_reset(d.body)
        /\ script_response(d, status).state = FIELD
    BY <2>2 DEF script_response, ConnInv
  <2>5. BufferInv(buffer_reset(d.headers)) /\ BufferInv(buffer_reset(d.body))
        /\ buffer_reset(d.headers).length = u.headers.length
    BY <2>1, <2>2, ResetKeeps
  <2> QED
    BY <2>1, <2>2, <2>3, <2>4, <2>5 DEF ConnInv, HasHeaders, FIELD, VALUE
<1>2. CASE ~HasHeaders(u)
  BY <1>2 DEF Told, ConnInv, HasHeaders
<1> QED
  BY <1>1, <1>2

LEMMA DataKeeps ==
    ASSUME NEW u, ConnInv(u), NEW p, NEW kind, NEW text \in Seq(Char),
           kind = "header_value" => HasHeaders(u)
    PROVE  LET r == OnData(kind, text, p, u)
           IN  /\ r.p = p /\ r.rc = 0 /\ ConnInv(r.u)
               /\ HasHeaders(u) \/ kind = "header_field" => HasHeaders(r.u)
BY FieldKeeps, ValueKeeps, BodyKeeps DEF OnData

LEMMA NotifyKeeps ==
    ASSUME NEW u, ConnInv(u), NEW p, NEW kind
    PROVE  LET r == OnNotify(kind, p, u)
           IN  /\ r.p = p \/ (kind = "message_complete" /\ r.p = http_parser_init(HTTP_RESPONSE))
               /\ r.rc = 0 /\ ConnInv(r.u) /\ (HasHeaders(u) => HasHeaders(r.u))
<1>1. CASE kind = "message_complete"
  <2> DEFINE d == Told(u, p.status_code)
  <2>1. ConnInv(d) /\ (HasHeaders(u) => HasHeaders(d))
    BY ToldKeeps
  <2>2. OnNotify(kind, p, u) = IF http_should_keep_alive(p)
                               THEN [p |-> http_parser_init(HTTP_RESPONSE), u |-> d, rc |-> 0]
                               ELSE [p |-> p, u |-> [d EXCEPT !.reopen = TRUE], rc |-> 0]
    BY <1>1 DEF OnNotify, response_complete
  <2> HIDE DEF d
  <2> DEFINE e == [d EXCEPT !.reopen = TRUE]
  <2>3. ConnInv(e) /\ (HasHeaders(d) => HasHeaders(e))
    BY <2>1 DEF ConnInv, HasHeaders
  <2>4. CASE http_should_keep_alive(p)
    BY <1>1, <2>1, <2>2, <2>4
  <2>5. CASE ~http_should_keep_alive(p)
    <3>1. OnNotify(kind, p, u) = [p |-> p, u |-> e, rc |-> 0]
      BY <2>2, <2>5
    <3> HIDE DEF e
    <3> QED
      BY <2>1, <2>3, <3>1
  <2> QED
    BY <2>4, <2>5
<1>2. CASE kind # "message_complete"
  BY <1>2 DEF OnNotify
<1> QED
  BY <1>1, <1>2

-----------------------------------------------------------------------------
(***************************************************************************)
(* What is true of a parser that is in the middle of a response without an *)
(* error, and of a call of http_parser_execute at one of its bytes.        *)
(***************************************************************************)
IsParser(p) ==
    DOMAIN p = { "type", "state", "flags", "header_state", "cand", "index", "nread",
                 "content_length", "http_major", "http_minor", "status_code", "method",
                 "http_errno", "upgrade" }

SizeStates == {"s_chunk_size", "s_chunk_parameters", "s_chunk_size_almost_done"}
CountedStates == {"s_body_identity", "s_chunk_data"}

\* The value is compared with words of values, and no longer with the name.
ValueWords(p) ==
    /\ p.header_state \notin {"h_connection", "h_transfer_encoding"}
    /\ p.header_state \in {"h_matching_chunked", "h_matching_connection_word"} =>
         p.cand \subseteq P!ChunkedWord \cup P!OptionWords

\* A length that is counted down is neither 0 nor ULLONG_MAX, and one that is
\* being read has not reached ULLONG_MAX.
LengthInv(p) ==
    /\ p.content_length \in 0..UllongMax
    /\ p.state \in SizeStates => p.content_length < UllongMax
    /\ p.state \in CountedStates => p.content_length \in 1..(UllongMax - 1)
    /\ p.state = "s_chunk_data_almost_done" => p.content_length = 0

ParserInv(p) ==
    /\ IsParser(p) /\ p.type = HTTP_RESPONSE /\ p.http_errno = "OK"
    /\ p.state \in StatesOf(HTTP_RESPONSE)
    /\ p.state \in P!ChunkStates => "CHUNKED" \in p.flags
    /\ p.state = "s_header_value" => ValueWords(p)
    /\ LengthInv(p)

\* Where a header's name has been handed over.
AfterName == { "s_header_value_discard_ws", "s_header_value_discard_ws_almost_done",
               "s_header_value_discard_lws", "s_header_value_start", "s_header_value",
               "s_header_value_lws", "s_header_almost_done" }

Named(p, u) == p.state \in AfterName => HasHeaders(u)

\* A parser between two calls.
Between(p, u) ==
    ParserInv(p) /\ Named(p, u) /\ (p.state = "s_chunk_size_start" => p.nread = 0)

\* The states in which a kind of text may be marked: never two kinds at once.
MarkStates == [
    header_field |-> {"s_header_field"}, header_value |-> {"s_header_value"},
    url |-> {}, status |-> {"s_res_status"},
    body |-> {"s_body_identity", "s_body_identity_eof", "s_chunk_data",
              "s_chunk_data_almost_done"} ]

MarksInv(x) ==
    /\ x.mark \in [P!MarkKinds -> Nat]
    /\ \A kind \in P!MarkKinds : x.mark[kind] # 0 => x.p.state \in MarkStates[kind]
    /\ x.p.state = "s_header_field" => x.mark["header_field"] # 0

RunInv(x) == x.run # 0 => x.p.state \in {"s_header_field", "s_header_value"}

Going(x) == ParserInv(x.p) /\ Named(x.p, x.u) /\ MarksInv(x) /\ RunInv(x)

\* True of a call at any time.
CallInv(x) ==
    /\ DOMAIN x = {"p", "u", "data", "i", "run", "fast", "again", "mark", "ret", "failed"}
    /\ x.data \in Seq(Char) /\ x.i \in 1..(Len(x.data) + 1)
    /\ x.failed = FALSE /\ ConnInv(x.u) /\ IsParser(x.p)

\* How often a state may hand the byte on to another: REEXECUTE.
Rank(s) == CASE s \in {"s_header_value_lws", "s_header_value_discard_lws"} -> 3
             [] s \in {"s_header_field_start", "s_res_status_code"} -> 2
             [] s \in {"s_headers_almost_done", "s_res_status_start", "s_header_value",
                       "s_body_identity"} -> 1
             [] OTHER -> 0

\* A call that is about to look at a byte.
AtByte(x) ==
    /\ CallInv(x) /\ Going(x) /\ x.ret = -1 /\ x.again = FALSE /\ x.i <= Len(x.data)
    /\ x.p.state = "s_chunk_size_start" => x.p.nread = 1

\* The same call y after one look at the byte: it has stopped, is to look at it
\* again in a lower state, or is done with it.
Stopped(y) == y.ret # -1 /\ (y.p.http_errno = "OK" => Between(y.p, y.u))
Goes(y, rank) == /\ y.ret = -1 /\ Going(y) /\ y.again \in BOOLEAN
                 /\ y.again => Rank(y.p.state) < rank
                 /\ y.p.state = "s_chunk_size_start" => y.p.nread = 0 /\ ~y.again
SameByte(x, y) == y.data = x.data /\ y.i = x.i
Looked(x, y) == CallInv(y) /\ SameByte(x, y) /\ (Stopped(y) \/ Goes(y, Rank(x.p.state)))

-----------------------------------------------------------------------------
(***************************************************************************)
(* The macros, for a call x that has not failed.  Kept: y is x but for the *)
(* parser, what the callbacks act on, and the marks.                       *)
(***************************************************************************)
Frame(x, y) ==
    /\ DOMAIN y = DOMAIN x /\ y.data = x.data /\ y.i = x.i
    /\ y.run = x.run /\ y.ret = x.ret /\ y.failed = x.failed

Kept(x, y) == Frame(x, y) /\ y.again = x.again

Untouched(x, y) == Kept(x, y) /\ y.u = x.u /\ y.mark = x.mark

LEMMA GotoIs ==
    ASSUME NEW x, CallInv(x), NEW s
    PROVE  Untouched(x, P!Goto(x, s)) /\ P!Goto(x, s).p = [x.p EXCEPT !.state = s]
           /\ CallInv(P!Goto(x, s))
BY DEF P!Goto, CallInv, Untouched, Kept, Frame, IsParser

LEMMA FailStops ==
    ASSUME NEW x, NEW y, CallInv(y), SameByte(x, y), NEW e, e # "OK"
    PROVE  Looked(x, P!Fail(y, e))
<1> DEFINE z == P!Fail(y, e)
<1>1. DOMAIN z = DOMAIN y /\ z.data = y.data /\ z.i = y.i /\ z.failed = y.failed /\ z.u = y.u
      /\ IsParser(z.p) /\ z.p.http_errno = e /\ z.ret = y.i - 1
  BY DEF P!Fail, CallInv, IsParser
<1>2. z.ret # -1
  BY <1>1 DEF CallInv
<1> HIDE DEF z
<1> QED
  BY <1>1, <1>2 DEF Looked, CallInv, SameByte, Stopped, z

\* A notification leaves the parser alone, unless the message is complete.
Notified(x, y, kind) ==
    /\ Kept(x, y) /\ y.mark = x.mark /\ ConnInv(y.u) /\ (HasHeaders(x.u) => HasHeaders(y.u))
    /\ y.p = x.p \/ (kind = "message_complete" /\ y.p = http_parser_init(HTTP_RESPONSE))

LEMMA NotifyIs ==
    ASSUME NEW x, CallInv(x), x.p.http_errno = "OK", NEW kind, NEW er
    PROVE  Notified(x, P!CALLBACK_NOTIFY_(x, kind, er), kind)
<1> DEFINE r == OnNotify(kind, x.p, x.u)
           z == [x EXCEPT !.p = r.p, !.u = r.u]
           y == P!CALLBACK_NOTIFY_(x, kind, er)
<1>1. r.rc = 0 /\ ConnInv(r.u) /\ (HasHeaders(x.u) => HasHeaders(r.u))
      /\ (r.p = x.p \/ (kind = "message_complete" /\ r.p = http_parser_init(HTTP_RESPONSE)))
  BY NotifyKeeps DEF CallInv
<1> HIDE DEF r
<1>2. Kept(x, z) /\ z.mark = x.mark /\ z.u = r.u /\ z.p = r.p
  BY DEF Kept, Frame, CallInv
<1>3. y = [z EXCEPT !.failed = z.failed \/ ~(x.p.http_errno = "OK")]
  BY <1>1 DEF P!CALLBACK_NOTIFY_, P!Called, P!assert, r
<1> HIDE DEF z, y
<1>4. Kept(x, y) /\ y.mark = z.mark /\ y.u = z.u /\ y.p = z.p
  BY <1>2, <1>3 DEF Kept, Frame, CallInv
<1> QED
  BY <1>1, <1>2, <1>4 DEF Notified, y

\* Text is handed over if its kind was marked, and the mark is gone.
HandedOver(x, y, kind) ==
    /\ Kept(x, y) /\ y.p = x.p /\ ConnInv(y.u) /\ (HasHeaders(x.u) => HasHeaders(y.u))
    /\ kind = "header_field" /\ x.mark[kind] # 0 => HasHeaders(y.u)
    /\ y.mark \in [P!MarkKinds -> Nat]
    /\ \A k \in P!MarkKinds : y.mark[k] = IF k = kind THEN 0 ELSE x.mark[k]

LEMMA DataIs ==
    ASSUME NEW x, CallInv(x), x.p.http_errno = "OK", x.mark \in [P!MarkKinds -> Nat],
           NEW kind \in P!MarkKinds, NEW last \in 0..Len(x.data), NEW er,
           kind = "header_value" /\ x.mark[kind] # 0 => HasHeaders(x.u)
    PROVE  HandedOver(x, P!CALLBACK_DATA_(x, kind, last, er), kind)
<1> DEFINE y == P!CALLBACK_DATA_(x, kind, last, er)
<1>1. CASE x.mark[kind] = 0
  <2>1. y = [x EXCEPT !.failed = x.failed \/ ~(x.p.http_errno = "OK")]
    BY <1>1 DEF P!CALLBACK_DATA_, P!assert
  <2> HIDE DEF y
  <2>2. Kept(x, y) /\ y.p = x.p /\ y.u = x.u /\ y.mark = x.mark
    BY <2>1 DEF Kept, Frame, CallInv
  <2> QED
    BY <1>1, <2>2 DEF HandedOver, CallInv, y
<1>2. CASE x.mark[kind] # 0
  <2> DEFINE text == SubSeq(x.data, x.mark[kind], last)
             w == [x EXCEPT !.mark[kind] = 0]
             r == OnData(kind, text, x.p, x.u)
             z == [w EXCEPT !.p = r.p, !.u = r.u]
  <2>1. text \in Seq(Char)
    BY <1>2, Part DEF CallInv
  <2> HIDE DEF text
  <2>2. r.p = x.p /\ r.rc = 0 /\ ConnInv(r.u)
        /\ (HasHeaders(x.u) \/ kind = "header_field" => HasHeaders(r.u))
    BY <1>2, <2>1, DataKeeps DEF CallInv
  <2> HIDE DEF r
  <2>3. Kept(x, w) /\ w.p = x.p /\ w.u = x.u /\ w.mark = [x.mark EXCEPT ![kind] = 0]
    BY DEF Kept, Frame, CallInv
  <2>4. y = P!Called(w, kind, OnData(kind, text, x.p, x.u), er)
    BY <1>2 DEF P!CALLBACK_DATA_, text
  <2> HIDE DEF w
  <2>5. Kept(w, z) /\ z.mark = w.mark /\ z.u = r.u /\ z.p = r.p
    BY <2>3 DEF Kept, Frame, CallInv
  <2>6. y = [z EXCEPT !.failed = z.failed \/ ~(w.p.http_errno = "OK")]
    BY <2>2, <2>4 DEF P!Called, P!assert, r
  <2> HIDE DEF z, y
  <2>7. Kept(z, y) /\ y.mark = z.mark /\ y.u = z.u /\ y.p = z.p
    BY <2>3, <2>5, <2>6 DEF Kept, Frame, CallInv
  <2>8. Kept(x, y) /\ y.mark = [x.mark EXCEPT ![kind] = 0] /\ y.u = r.u /\ y.p = x.p
    BY <2>2, <2>3, <2>5, <2>7 DEF Kept, Frame
  <2> QED
    BY <1>2, <2>2, <2>8 DEF HandedOver, y
<1> QED
  BY <1>1, <1>2

\* A kind of text is marked now, if it was not before.
Marked(x, y, kind) ==
    /\ Kept(x, y) /\ y.p = x.p /\ y.u = x.u /\ y.mark \in [P!MarkKinds -> Nat]
    /\ y.mark[kind] # 0 /\ \A k \in P!MarkKinds \ {kind} : y.mark[k] = x.mark[k]

LEMMA MarkIs ==
    ASSUME NEW x, CallInv(x), x.mark \in [P!MarkKinds -> Nat], NEW kind \in P!MarkKinds
    PROVE  Marked(x, P!MARK(x, kind), kind)
<1>1. x.i \in Nat /\ x.i # 0
  BY DEF CallInv
<1>2. CASE x.mark[kind] = 0
  BY <1>1, <1>2 DEF P!MARK, Marked, Kept, Frame, CallInv
<1>3. CASE x.mark[kind] # 0
  BY <1>3 DEF P!MARK, Marked, Kept, Frame
<1> QED
  BY <1>2, <1>3

\* The states in which some text may be marked.
MarkingStates == { "s_header_field", "s_header_value", "s_res_status", "s_body_identity",
                   "s_body_identity_eof", "s_chunk_data", "s_chunk_data_almost_done" }

LEMMA NothingMarked ==
    ASSUME NEW x, MarksInv(x), RunInv(x), x.p.state \notin MarkingStates
    PROVE  /\ \A kind \in P!MarkKinds : x.mark[kind] = 0
           /\ x.run = 0
BY DEF MarksInv, RunInv, MarkingStates, MarkStates, P!MarkKinds

\* A look that goes on from a state without a mark to a state that needs none:
\* it remains to be shown what the parser is then.
LEMMA GoesOn ==
    ASSUME NEW x, AtByte(x), NEW y, x.p.state \notin MarkingStates, Frame(x, y),
           y.mark = x.mark, ConnInv(y.u), Between(y.p, y.u), y.p.state # "s_header_field",
           y.again \in BOOLEAN,
           y.again => Rank(y.p.state) < Rank(x.p.state) /\ y.p.state # "s_chunk_size_start"
    PROVE  Looked(x, y)
<1>1. DOMAIN y = DOMAIN x /\ y.data = x.data /\ y.i = x.i /\ y.ret = x.ret
      /\ y.failed = x.failed /\ y.run = x.run
  BY DEF Frame
<1>2. CallInv(y) /\ SameByte(x, y)
  BY <1>1 DEF AtByte, CallInv, SameByte, Between, ParserInv
<1>3. MarksInv(y) /\ RunInv(y)
  BY <1>1, NothingMarked DEF AtByte, Going, MarksInv, RunInv
<1>4. Goes(y, Rank(x.p.state))
  BY <1>1, <1>3 DEF Goes, Going, Between, AtByte
<1> QED
  BY <1>2, <1>4 DEF Looked

\* The states that ask for nothing: every parser that is well may go there.
PlainStates == {"s_dead", "s_body_identity_eof", "s_message_done"} \cup ResponseLineStates
               \cup (HeaderLineStates \ {"s_header_value", "s_header_field"})

LEMMA PlainGoto ==
    ASSUME NEW p, NEW u, ParserInv(p), NEW s \in PlainStates \cup {"s_header_field"},
           s \in AfterName => HasHeaders(u), NEW q, q = [p EXCEPT !.state = s]
    PROVE  Between(q, u)
<1>1. IsParser(q) /\ q.type = p.type /\ q.http_errno = p.http_errno /\ q.state = s
      /\ q.flags = p.flags /\ q.content_length = p.content_length
  BY DEF ParserInv, IsParser
<1>2. s \notin SizeStates \cup CountedStates \cup P!ChunkStates
      /\ s \notin {"s_chunk_data_almost_done", "s_chunk_size_start", "s_header_value"}
      /\ s \in StatesOf(HTTP_RESPONSE)
  BY DEF PlainStates, SizeStates, CountedStates, P!ChunkStates, P!ChunkLineStates, StatesOf,
         HTTP_RESPONSE, HTTP_REQUEST, ResponseLineStates, HeaderLineStates, BodyStates
<1>3. LengthInv(q)
  BY <1>1, <1>2 DEF LengthInv, ParserInv
<1> QED
  BY <1>1, <1>2, <1>3 DEF Between, ParserInv, Named

LEMMA GotoPlain ==
    ASSUME NEW x, AtByte(x), x.p.state \notin MarkingStates, NEW s \in PlainStates,
           s \in AfterName => HasHeaders(x.u)
    PROVE  Looked(x, P!Goto(x, s))
<1>1. Untouched(x, P!Goto(x, s)) /\ P!Goto(x, s).p = [x.p EXCEPT !.state = s]
  BY GotoIs DEF AtByte
<1>2. Between(P!Goto(x, s).p, x.u)
  <2>1. ParserInv(x.p)
    BY DEF AtByte, Going
  <2> QED
    BY <1>1, <2>1, PlainGoto
<1>3. P!Goto(x, s).p.state = s /\ s # "s_header_field"
  BY <1>1 DEF AtByte, CallInv, IsParser, PlainStates, ResponseLineStates, HeaderLineStates
<1> QED
  BY <1>1, <1>2, <1>3, GoesOn DEF Untouched, Kept, AtByte, CallInv

LEMMA ReexecutePlain ==
    ASSUME NEW x, AtByte(x), NEW z, Untouched(x, z), CallInv(z), ParserInv(z.p),
           x.p.state \notin MarkingStates, NEW s \in PlainStates,
           s \in AfterName => HasHeaders(x.u), Rank(s) < Rank(x.p.state)
    PROVE  Looked(x, P!Reexecute(z, s))
<1> DEFINE y == P!Reexecute(z, s)
<1>1. Frame(z, y) /\ y.again = TRUE /\ y.u = z.u /\ y.mark = z.mark
      /\ y.p = [z.p EXCEPT !.state = s]
  BY DEF P!Reexecute, CallInv, Frame
<1> HIDE DEF y
<1>2. Between(y.p, y.u)
  BY <1>1, PlainGoto DEF Untouched
<1>3. y.p.state = s /\ s # "s_header_field" /\ s # "s_chunk_size_start"
  BY <1>1 DEF CallInv, IsParser, PlainStates, ResponseLineStates, HeaderLineStates
<1>4. Frame(x, y) /\ y.mark = x.mark /\ ConnInv(y.u)
  BY <1>1 DEF Untouched, Kept, Frame, CallInv
<1> QED
  BY <1>1, <1>2, <1>3, <1>4, GoesOn DEF y

\* A callback on the way, of a call z that may go on.
LEMMA NotifyGoesOn ==
    ASSUME NEW x, AtByte(x), x.p.state \notin MarkingStates, NEW z, Untouched(x, z), CallInv(z),
           Between(z.p, z.u), z.p.state # "s_header_field",
           NEW kind, kind # "message_complete", NEW er
    PROVE  Looked(x, P!CALLBACK_NOTIFY_(z, kind, er))
<1> DEFINE y == P!CALLBACK_NOTIFY_(z, kind, er)
<1>1. Notified(z, y, kind)
  BY NotifyIs DEF Between, ParserInv
<1> HIDE DEF y
<1>2. y.p = z.p /\ Frame(x, y) /\ y.again = FALSE /\ y.mark = x.mark /\ ConnInv(y.u)
  BY <1>1 DEF Notified, Untouched, Kept, Frame, AtByte
<1>3. Between(y.p, y.u)
  BY <1>1, <1>2 DEF Between, Named, Notified
<1> QED
  BY <1>2, <1>3, GoesOn DEF y

\* The parser http_parser_init makes, and one that a message has ended.
LEMMA NewParser ==
    ASSUME NEW u
    PROVE  Between(http_parser_init(HTTP_RESPONSE), u)
           /\ http_parser_init(HTTP_RESPONSE).state = "s_start_res"
<1> DEFINE p == http_parser_init(HTTP_RESPONSE)
<1>1. p.type = HTTP_RESPONSE /\ p.state = "s_start_res" /\ p.content_length = 0
      /\ p.http_errno = "OK" /\ IsParser(p)
  BY DEF http_parser_init, HTTP_RESPONSE, HTTP_REQUEST, IsParser
<1> HIDE DEF p
<1>2. LengthInv(p)
  BY <1>1, HttpMessageAssumption DEF LengthInv, SizeStates, CountedStates
<1>3. p.state \in StatesOf(HTTP_RESPONSE) /\ p.state \notin P!ChunkStates \cup AfterName
  BY <1>1 DEF StatesOf, HTTP_RESPONSE, HTTP_REQUEST, ResponseLineStates, P!ChunkStates,
              P!ChunkLineStates, AfterName
<1> QED
  BY <1>1, <1>2, <1>3 DEF Between, ParserInv, Named, p

LEMMA CompleteIs ==
    ASSUME NEW z, CallInv(z), ParserInv(z.p)
    PROVE  LET y == P!MessageComplete(z)
           IN  /\ Kept(z, y) /\ y.mark = z.mark /\ ConnInv(y.u) /\ Between(y.p, y.u)
               /\ y.p.state \in {"s_start_res", "s_dead"}
<1> DEFINE s == P!NEW_MESSAGE(z.p)
           w == P!Goto(z, s)
           y == P!CALLBACK_NOTIFY_(w, "message_complete", w.i)
<1>1. s \in {"s_start_res", "s_dead"}
  BY DEF P!NEW_MESSAGE, P!start_state, ParserInv, HTTP_RESPONSE, P!HTTP_REQUEST
<1>2. s \in PlainStates /\ s \notin AfterName
  BY <1>1 DEF PlainStates, ResponseLineStates, AfterName
<1>3. P!MessageComplete(z) = y
  BY DEF P!MessageComplete, P!CALLBACK_NOTIFY
<1> HIDE DEF s
<1>4. Untouched(z, w) /\ w.p = [z.p EXCEPT !.state = s] /\ CallInv(w)
  BY GotoIs
<1> HIDE DEF w
<1>5. \A u : Between(w.p, u)
  BY <1>2, <1>4, PlainGoto
<1>6. w.p.state = s
  BY <1>4 DEF CallInv, IsParser
<1>7. Notified(w, y, "message_complete")
  BY <1>4, <1>5, NotifyIs DEF Between, ParserInv
<1> HIDE DEF y
<1>8. Between(y.p, y.u) /\ y.p.state \in {"s_start_res", "s_dead"}
  BY <1>1, <1>5, <1>6, <1>7, NewParser DEF Notified
<1>9. Kept(z, y) /\ y.mark = z.mark /\ ConnInv(y.u)
  BY <1>4, <1>7 DEF Untouched, Notified, Kept, Frame
<1> QED
  BY <1>3, <1>8, <1>9

\* A parser whose fields are the same as far as the invariant goes.
Alike(p, q) ==
    /\ IsParser(q) /\ q.type = p.type /\ q.http_errno = p.http_errno /\ q.state = p.state
    /\ q.flags = p.flags /\ q.header_state = p.header_state /\ q.cand = p.cand
    /\ q.content_length = p.content_length

LEMMA AlikeKeeps ==
    ASSUME NEW p, NEW q, ParserInv(p), Alike(p, q)
    PROVE  ParserInv(q)
BY DEF ParserInv, Alike, ValueWords, LengthInv

LEMMA ChangeGoesOn ==
    ASSUME NEW x, AtByte(x), x.p.state \notin MarkingStates, NEW z, Untouched(x, z),
           Between(z.p, x.u), z.p.state # "s_header_field"
    PROVE  Looked(x, z)
BY GoesOn DEF Untouched, Kept, AtByte, CallInv

LEMMA StaysOn ==
    ASSUME NEW x, AtByte(x), x.p.state # "s_chunk_size_start"
    PROVE  Looked(x, x)
BY DEF Looked, SameByte, Goes, AtByte

\* The parser was changed, and goes to a state that asks for nothing.
LEMMA ChangeGotoPlain ==
    ASSUME NEW x, AtByte(x), x.p.state \notin MarkingStates, NEW z, Untouched(x, z), CallInv(z),
           ParserInv(z.p), NEW s \in PlainStates, s \in AfterName => HasHeaders(x.u)
    PROVE  Looked(x, P!Goto(z, s))
<1>1. Untouched(z, P!Goto(z, s)) /\ P!Goto(z, s).p = [z.p EXCEPT !.state = s]
  BY GotoIs
<1>2. Between(P!Goto(z, s).p, x.u)
  BY <1>1, PlainGoto
<1>3. P!Goto(z, s).p.state = s /\ s # "s_header_field"
  BY <1>1 DEF CallInv, IsParser, PlainStates, ResponseLineStates, HeaderLineStates
<1>4. Untouched(x, P!Goto(z, s))
  BY <1>1 DEF Untouched, Kept, Frame
<1> QED
  BY <1>2, <1>3, <1>4, ChangeGoesOn

\* Where marks are made or used up, it remains to be shown what they are then.
LEMMA GoesOnMarked ==
    ASSUME NEW x, AtByte(x), NEW y, DOMAIN y = DOMAIN x, SameByte(x, y), y.ret = -1,
           y.failed = FALSE, ConnInv(y.u), Between(y.p, y.u), MarksInv(y), RunInv(y),
           y.again \in BOOLEAN,
           y.again => Rank(y.p.state) < Rank(x.p.state) /\ y.p.state # "s_chunk_size_start"
    PROVE  Looked(x, y)
<1>1. CallInv(y)
  BY DEF AtByte, CallInv, SameByte, Between, ParserInv
<1>2. Goes(y, Rank(x.p.state))
  BY DEF Goes, Going, Between
<1> QED
  BY <1>1, <1>2 DEF Looked

LEMMA OneMark ==
    ASSUME NEW y, y.mark \in [P!MarkKinds -> Nat], NEW kind \in P!MarkKinds,
           \A k \in P!MarkKinds \ {kind} : y.mark[k] = 0, y.p.state \in MarkStates[kind],
           y.p.state = "s_header_field" => kind = "header_field" /\ y.mark[kind] # 0
    PROVE  MarksInv(y)
BY DEF MarksInv

LEMMA NoMark ==
    ASSUME NEW y, y.mark \in [P!MarkKinds -> Nat], \A k \in P!MarkKinds : y.mark[k] = 0,
           y.p.state # "s_header_field"
    PROVE  MarksInv(y)
BY DEF MarksInv

\* In a state with a mark, no other kind of text is marked.
LEMMA OthersUnmarked ==
    ASSUME NEW z, MarksInv(z), NEW kind \in P!MarkKinds, z.p.state \in MarkStates[kind],
           NEW k \in P!MarkKinds \ {kind}
    PROVE  z.mark[k] = 0
BY DEF MarksInv, MarkStates, P!MarkKinds

\* The text of state z.p.state is handed over on the way to a plain state.
LEMMA HandOver ==
    ASSUME NEW z, CallInv(z), ParserInv(z.p), MarksInv(z), NEW kind \in P!MarkKinds,
           z.p.state \in MarkStates[kind], kind = "header_value" => HasHeaders(z.u),
           NEW s \in PlainStates,
           s \in AfterName => HasHeaders(z.u) \/ z.p.state = "s_header_field",
           NEW last \in 0..Len(z.data), NEW er
    PROVE  LET y == P!CALLBACK_DATA_(P!Goto(z, s), kind, last, er)
           IN  /\ Kept(z, y) /\ ConnInv(y.u) /\ Between(y.p, y.u) /\ y.p.state = s
               /\ y.mark \in [P!MarkKinds -> Nat] /\ \A k \in P!MarkKinds : y.mark[k] = 0
<1> DEFINE w == P!Goto(z, s)
           y == P!CALLBACK_DATA_(w, kind, last, er)
<1>1. Untouched(z, w) /\ w.p = [z.p EXCEPT !.state = s] /\ CallInv(w)
  BY GotoIs
<1> HIDE DEF w
<1>2. w.p.http_errno = "OK" /\ w.p.state = s /\ w.mark \in [P!MarkKinds -> Nat]
      /\ w.data = z.data
  BY <1>1 DEF ParserInv, IsParser, MarksInv, Untouched, Kept, Frame
<1>3. HandedOver(w, y, kind)
  BY <1>1, <1>2, DataIs DEF Untouched
<1> HIDE DEF y
<1>4. \A k \in P!MarkKinds : y.mark[k] = 0
  BY <1>1, <1>3, OthersUnmarked DEF HandedOver, Untouched
<1>5. s \in AfterName => HasHeaders(y.u)
  <2>1. z.p.state = "s_header_field" => kind = "header_field" /\ z.mark[kind] # 0
    BY DEF MarksInv, MarkStates, P!MarkKinds
  <2> QED
    BY <1>1, <1>3, <2>1 DEF HandedOver, Untouched
<1>6. Between(y.p, y.u)
  <2>1. y.p = [z.p EXCEPT !.state = s]
    BY <1>1, <1>3 DEF HandedOver
  <2> QED
    BY ONLY <2>1, <1>5, PlainGoto, ParserInv(z.p), s \in PlainStates
<1> QED
  BY <1>1, <1>2, <1>3, <1>4, <1>6 DEF HandedOver, Untouched, Kept, Frame, y, w

\* The text of state z.p.state is handed over, and the byte done with, or looked
\* at again.
LEMMA HandOn ==
    ASSUME NEW x, AtByte(x), NEW z, CallInv(z), ParserInv(z.p), MarksInv(z), z.ret = -1,
           SameByte(x, z), z.run = 0, z.again = FALSE, NEW kind \in P!MarkKinds,
           z.p.state \in MarkStates[kind], kind = "header_value" => HasHeaders(z.u),
           NEW s \in PlainStates,
           s \in AfterName => HasHeaders(z.u) \/ z.p.state = "s_header_field",
           NEW last \in 0..Len(z.data), NEW er
    PROVE  /\ Looked(x, P!CALLBACK_DATA_(P!Goto(z, s), kind, last, er))
           /\ Rank(s) < Rank(x.p.state) =>
                Looked(x, P!Reexecute(P!CALLBACK_DATA_(P!Goto(z, s), kind, last, er), s))
<1> DEFINE y == P!CALLBACK_DATA_(P!Goto(z, s), kind, last, er)
           r == P!Reexecute(y, s)
<1>1. /\ Kept(z, y) /\ ConnInv(y.u) /\ Between(y.p, y.u) /\ y.p.state = s
      /\ y.mark \in [P!MarkKinds -> Nat] /\ \A k \in P!MarkKinds : y.mark[k] = 0
  BY HandOver
<1> HIDE DEF y
<1>2. DOMAIN y = DOMAIN x /\ SameByte(x, y) /\ y.ret = -1 /\ y.failed = FALSE /\ y.run = 0
      /\ y.again = FALSE
  BY <1>1 DEF Kept, Frame, SameByte, CallInv, AtByte
<1>3. s # "s_header_field" /\ s # "s_chunk_size_start"
  BY DEF PlainStates, ResponseLineStates, HeaderLineStates
<1>4. MarksInv(y) /\ RunInv(y)
  BY <1>1, <1>2, <1>3, NoMark DEF RunInv
<1>5. Looked(x, y)
  BY <1>1, <1>2, <1>4, GoesOnMarked
<1>6. DOMAIN r = DOMAIN y /\ r.data = y.data /\ r.i = y.i /\ r.ret = y.ret /\ r.again = TRUE
      /\ r.failed = y.failed /\ r.run = y.run /\ r.u = y.u /\ r.mark = y.mark
      /\ r.p = [y.p EXCEPT !.state = s]
  BY <1>2 DEF P!Reexecute, AtByte, CallInv
<1> HIDE DEF r
<1>7. Between(r.p, r.u) /\ r.p.state = s
  <2>1. s \in AfterName => HasHeaders(y.u)
    BY <1>1 DEF Between, Named
  <2>2. ParserInv(y.p)
    BY <1>1 DEF Between
  <2>3. Between(r.p, y.u)
    BY <1>6, <2>1, <2>2, PlainGoto
  <2> QED
    BY <1>6, <2>2, <2>3 DEF ParserInv, IsParser
<1>8. MarksInv(r) /\ RunInv(r)
  <2>1. r.mark \in [P!MarkKinds -> Nat] /\ \A k \in P!MarkKinds : r.mark[k] = 0
    BY <1>1, <1>6
  <2>2. r.p.state # "s_header_field"
    BY <1>3, <1>7
  <2> QED
    BY <1>2, <1>6, <2>1, <2>2, NoMark DEF RunInv
<1>9. ASSUME Rank(s) < Rank(x.p.state) PROVE Looked(x, r)
  <2>1. SameByte(x, r) /\ DOMAIN r = DOMAIN x /\ ConnInv(r.u)
    BY <1>1, <1>2, <1>6 DEF SameByte
  <2> QED
    BY <1>2, <1>3, <1>6, <1>7, <1>8, <1>9, <2>1, GoesOnMarked
<1> QED
  BY <1>5, <1>9 DEF y, r

LEMMA FailHere ==
    ASSUME NEW x, AtByte(x), NEW e, e # "OK"
    PROVE  Looked(x, P!Fail(x, e))
BY FailStops DEF AtByte, SameByte

-----------------------------------------------------------------------------
(***************************************************************************)
(* One look at a byte, state by state: the status line.                    *)
(***************************************************************************)
LEMMA DeadLooks ==
    ASSUME NEW x, AtByte(x), NEW ch, x.p.state = "s_dead"
    PROVE  Looked(x, P!Dead(x, ch))
BY StaysOn, FailHere DEF P!Dead

LEMMA StartLooks ==
    ASSUME NEW x, AtByte(x), NEW ch, x.p.state = "s_start_res"
    PROVE  Looked(x, P!StartResponse(x, ch))
<1> DEFINE y == P!BeginMessage(x)
           z == P!Goto(y, "s_res_H")
<1>1. Untouched(x, y) /\ CallInv(y) /\ y.p.state = x.p.state /\ IsParser(y.p)
      /\ y.p.content_length = UllongMax /\ y.p.type = x.p.type
      /\ y.p.http_errno = x.p.http_errno
  BY DEF P!BeginMessage, Untouched, Kept, Frame, AtByte, CallInv, IsParser
<1> HIDE DEF y
<1>2. LengthInv(y.p)
  BY <1>1, HttpMessageAssumption DEF LengthInv, SizeStates, CountedStates
<1>3. ParserInv(y.p) /\ Between(y.p, y.u)
  BY <1>1, <1>2 DEF AtByte, Going, ParserInv, Between, Named, AfterName, P!ChunkStates,
                    P!ChunkLineStates
<1>4. "s_res_H" \in PlainStates /\ "s_res_H" \notin AfterName
  BY DEF PlainStates, ResponseLineStates, AfterName
<1>5. Untouched(y, z) /\ z.p = [y.p EXCEPT !.state = "s_res_H"] /\ CallInv(z)
  BY <1>1, GotoIs
<1> HIDE DEF z
<1>6. Between(z.p, z.u) /\ z.p.state = "s_res_H" /\ Untouched(x, z)
  <2>1. Between(z.p, z.u)
    BY <1>3, <1>4, <1>5, PlainGoto
  <2> QED
    BY <1>1, <1>5, <2>1 DEF IsParser, Untouched, Kept, Frame
<1>7. Looked(x, P!CALLBACK_NOTIFY_(z, "message_begin", z.i))
  BY <1>5, <1>6, NotifyGoesOn DEF MarkingStates
<1>8. Looked(x, P!CALLBACK_NOTIFY_(y, "message_begin", y.i))
  BY <1>1, <1>3, NotifyGoesOn DEF MarkingStates
<1>9. Looked(x, P!Fail(y, "INVALID_CONSTANT"))
  BY <1>1, FailStops DEF Untouched, Kept, Frame, SameByte
<1> QED
  BY <1>7, <1>8, <1>9 DEF P!StartResponse, P!CALLBACK_NOTIFY, y, z

LEMMA ExpectLooks ==
    ASSUME NEW x, AtByte(x), NEW ch, x.p.state \in DOMAIN P!Expected
    PROVE  Looked(x, P!Expect(x, ch))
<1> DEFINE e == P!Expected[x.p.state]
<1>1. x.p.state \in { "s_res_H", "s_res_HT", "s_res_HTT", "s_res_HTTP", "s_res_http_dot",
                      "s_res_http_end", "s_res_line_almost_done", "s_header_almost_done",
                      "s_header_value_discard_ws_almost_done" }
  BY DEF P!Expected, AtByte, Going, ParserInv, StatesOf, HTTP_RESPONSE, HTTP_REQUEST,
         ResponseLineStates, HeaderLineStates, ChunkLineStates, BodyStates
<1>2. /\ e[2] \in { "s_res_HT", "s_res_HTT", "s_res_HTTP", "s_res_http_major",
                    "s_res_http_minor", "s_res_first_status_code", "s_header_field_start",
                    "s_header_value_lws", "s_header_value_discard_lws" }
      /\ e[2] \in AfterName => x.p.state \in AfterName
      /\ e[3] # "OK"
  <2>1. /\ P!Expected["s_res_H"][2] = "s_res_HT" /\ P!Expected["s_res_H"][3] = "STRICT"
        /\ P!Expected["s_res_HT"][2] = "s_res_HTT" /\ P!Expected["s_res_HT"][3] = "STRICT"
        /\ P!Expected["s_res_HTT"][2] = "s_res_HTTP" /\ P!Expected["s_res_HTT"][3] = "STRICT"
        /\ P!Expected["s_res_HTTP"][2] = "s_res_http_major"
        /\ P!Expected["s_res_HTTP"][3] = "STRICT"
        /\ P!Expected["s_res_http_dot"][2] = "s_res_http_minor"
        /\ P!Expected["s_res_http_dot"][3] = "INVALID_VERSION"
        /\ P!Expected["s_res_http_end"][2] = "s_res_first_status_code"
        /\ P!Expected["s_res_http_end"][3] = "INVALID_VERSION"
        /\ P!Expected["s_res_line_almost_done"][2] = "s_header_field_start"
        /\ P!Expected["s_res_line_almost_done"][3] = "STRICT"
        /\ P!Expected["s_header_almost_done"][2] = "s_header_value_lws"
        /\ P!Expected["s_header_almost_done"][3] = "LF_EXPECTED"
        /\ P!Expected["s_header_value_discard_ws_almost_done"][2] = "s_header_value_discard_lws"
        /\ P!Expected["s_header_value_discard_ws_almost_done"][3] = "STRICT"
    BY DEF P!Expected
  <2> QED
    BY <1>1, <2>1 DEF AfterName
<1>3. x.p.state \notin MarkingStates
  BY <1>1 DEF MarkingStates
<1> HIDE DEF e
<1>4. e[2] \in PlainStates
  BY <1>2 DEF PlainStates, ResponseLineStates, HeaderLineStates
<1>5. e[2] \in AfterName => HasHeaders(x.u)
  BY <1>2 DEF AtByte, Going, Named
<1> QED
  BY <1>2, <1>3, <1>4, <1>5, GotoPlain, FailHere DEF P!Expect, e

LEMMA VersionLooks ==
    ASSUME NEW x, AtByte(x), NEW ch, x.p.state \in {"s_res_http_major", "s_res_http_minor"}
    PROVE  Looked(x, P!VersionDigit(x, ch))
<1> DEFINE y == IF x.p.state \in {"s_res_http_major", "s_req_http_major"}
                THEN [x EXCEPT !.p.http_major = P!Unhex[ch]]
                ELSE [x EXCEPT !.p.http_minor = P!Unhex[ch]]
           s == IF x.p.state = "s_res_http_major" THEN "s_res_http_dot" ELSE "s_res_http_end"
<1>1. P!VersionDigit(x, ch) = IF ch \in P!Num THEN P!Goto(y, s)
                              ELSE P!Fail(x, "INVALID_VERSION")
  BY DEF P!VersionDigit
<1>2. Untouched(x, y) /\ CallInv(y) /\ Alike(x.p, y.p)
  BY DEF Untouched, Kept, Frame, Alike, AtByte, CallInv, IsParser
<1> HIDE DEF y
<1>3. ParserInv(y.p)
  BY <1>2, AlikeKeeps DEF AtByte, Going
<1>4. s \in PlainStates /\ s \notin AfterName
  BY DEF PlainStates, ResponseLineStates, AfterName
<1> HIDE DEF s
<1>5. Looked(x, P!Goto(y, s))
  BY <1>2, <1>3, <1>4, ChangeGotoPlain DEF MarkingStates
<1> QED
  BY <1>1, <1>5, FailHere

LEMMA StatusCodeLooks ==
    ASSUME NEW x, AtByte(x), NEW ch,
           x.p.state \in {"s_res_first_status_code", "s_res_status_code"}
    PROVE  Looked(x, P!StatusCode(x, ch))
<1> DEFINE first == x.p.state = "s_res_first_status_code"
           code == (IF first THEN 0 ELSE x.p.status_code * 10) + P!Unhex[ch]
           y == [x EXCEPT !.p.status_code = code]
<1>1. P!StatusCode(x, ch) \in { P!Goto(y, "s_res_status_code"), P!Fail(y, "INVALID_STATUS"), y,
                                x, P!Goto(x, "s_res_status_start"),
                                P!Fail(x, "INVALID_STATUS") }
      \/ (~first /\ P!StatusCode(x, ch) = P!Reexecute(x, "s_res_status_start"))
  BY ZenonT(60) DEF P!StatusCode
<1>2. Untouched(x, y) /\ CallInv(y) /\ Alike(x.p, y.p)
  BY DEF Untouched, Kept, Frame, Alike, AtByte, CallInv, IsParser
<1> HIDE DEF y
<1>3. ParserInv(y.p) /\ y.p.state = x.p.state
  BY <1>2, AlikeKeeps DEF AtByte, Going, Alike
<1>4. "s_res_status_code" \in PlainStates /\ "s_res_status_start" \in PlainStates
      /\ "s_res_status_code" \notin AfterName /\ "s_res_status_start" \notin AfterName
      /\ x.p.state \notin MarkingStates
  BY DEF PlainStates, ResponseLineStates, AfterName, MarkingStates
<1>5. Looked(x, P!Goto(y, "s_res_status_code"))
  BY <1>2, <1>3, <1>4, ChangeGotoPlain
<1>6. Looked(x, P!Fail(y, "INVALID_STATUS"))
  BY <1>2, FailStops DEF Untouched, Kept, Frame, SameByte
<1>7. Looked(x, y)
  <2>1. Between(y.p, x.u)
    BY <1>3 DEF Between, Named, AfterName
  <2> QED
    BY <1>2, <1>3, <1>4, <2>1, ChangeGoesOn
<1>8. Looked(x, x) /\ Looked(x, P!Goto(x, "s_res_status_start"))
      /\ Looked(x, P!Fail(x, "INVALID_STATUS"))
  BY <1>4, StaysOn, GotoPlain, FailHere
<1>9. ~first => Looked(x, P!Reexecute(x, "s_res_status_start"))
  <2>1. Untouched(x, x) /\ CallInv(x) /\ ParserInv(x.p)
    BY DEF Untouched, Kept, Frame, AtByte, Going
  <2>2. ~first => Rank("s_res_status_start") < Rank(x.p.state)
    BY DEF Rank
  <2> QED
    BY <1>4, <2>1, <2>2, ReexecutePlain
<1> QED
  BY <1>1, <1>5, <1>6, <1>7, <1>8, <1>9

LEMMA StatusTextLooks ==
    ASSUME NEW x, AtByte(x), NEW ch, x.p.state \in {"s_res_status_start", "s_res_status"}
    PROVE  Looked(x, P!StatusText(x, ch))
<1> DEFINE m == P!MARK(x, "status")
           y == [m EXCEPT !.p.index = 0]
<1>1. CASE x.p.state = "s_res_status_start"
  <2>1. Marked(x, m, "status")
    BY MarkIs DEF AtByte, Going, MarksInv, P!MarkKinds
  <2> HIDE DEF m
  <2>2. Frame(x, y) /\ y.u = x.u /\ y.mark = m.mark /\ Alike(x.p, y.p) /\ y.again = FALSE
    BY <2>1 DEF Marked, Frame, Kept, AtByte, CallInv, IsParser, Alike
  <2> HIDE DEF y
  <2>3. ParserInv(y.p)
    BY <2>2, AlikeKeeps DEF AtByte, Going
  <2> DEFINE g == P!Goto(y, "s_res_status")
             r == P!Reexecute(y, "s_res_status")
  <2>4. Frame(x, g) /\ g.again = FALSE /\ g.u = x.u /\ g.mark = m.mark
        /\ g.p = [y.p EXCEPT !.state = "s_res_status"]
    BY <2>2 DEF P!Goto, Frame, AtByte, CallInv
  <2>5. Frame(x, r) /\ r.again = TRUE /\ r.u = x.u /\ r.mark = m.mark /\ r.p = g.p
    BY <2>2 DEF P!Goto, P!Reexecute, Frame, AtByte, CallInv
  <2> HIDE DEF g, r
  <2>6. "s_res_status" \in PlainStates /\ "s_res_status" \notin AfterName
    BY DEF PlainStates, ResponseLineStates, AfterName
  <2>7. Between(g.p, x.u) /\ g.p.state = "s_res_status"
    <3>1. Between(g.p, x.u)
      BY <2>3, <2>4, <2>6, PlainGoto
    <3> QED
      BY <2>3, <2>4, <3>1 DEF ParserInv, IsParser
  <2>8. \A k \in P!MarkKinds \ {"status"} : m.mark[k] = 0
    BY <1>1, <2>1, NothingMarked DEF Marked, AtByte, Going, MarkingStates
  <2>9. MarksInv(g) /\ MarksInv(r)
    <3>1. "status" \in P!MarkKinds /\ "s_res_status" \in MarkStates["status"]
      BY DEF P!MarkKinds, MarkStates
    <3>2. g.mark = m.mark /\ r.mark = m.mark /\ m.mark \in [P!MarkKinds -> Nat]
          /\ g.p.state = "s_res_status" /\ r.p.state = "s_res_status"
      BY <2>1, <2>4, <2>5, <2>7 DEF Marked
    <3>3. MarksInv(g)
      BY <2>8, <3>1, <3>2, OneMark
    <3>4. MarksInv(r)
      BY <2>8, <3>1, <3>2, OneMark
    <3> QED
      BY <3>3, <3>4
  <2>10. x.run = 0
    BY <1>1, NothingMarked DEF AtByte, Going, MarkingStates
  <2>11. Looked(x, g)
    BY <2>4, <2>7, <2>9, <2>10, GoesOnMarked DEF Frame, RunInv, AtByte, CallInv, SameByte
  <2>12. Looked(x, r)
    <3>1. Rank("s_res_status") < Rank(x.p.state)
      BY <1>1 DEF Rank
    <3> QED
      BY <2>5, <2>7, <2>9, <2>10, <3>1, GoesOnMarked DEF Frame, RunInv, AtByte, CallInv, SameByte
  <2> QED
    BY <1>1, <2>11, <2>12 DEF P!StatusText, g, r, y, m
<1>2. CASE x.p.state = "s_res_status"
  <2>1. ASSUME NEW s \in {"s_res_line_almost_done", "s_header_field_start"}
        PROVE  Looked(x, P!CALLBACK_DATA_(P!Goto(x, s), "status", x.i - 1, x.i))
    <3> DEFINE w == P!CALLBACK_DATA_(P!Goto(x, s), "status", x.i - 1, x.i)
    <3>1. s \in PlainStates /\ s \notin AfterName /\ "status" \in P!MarkKinds
          /\ x.p.state \in MarkStates["status"] /\ s # "s_header_field"
      BY <1>2 DEF PlainStates, ResponseLineStates, HeaderLineStates, AfterName, P!MarkKinds,
                  MarkStates
    <3>2. x.i - 1 \in 0..Len(x.data)
      BY DEF AtByte, CallInv
    <3>3. /\ Kept(x, w) /\ ConnInv(w.u) /\ Between(w.p, w.u) /\ w.p.state = s
          /\ w.mark \in [P!MarkKinds -> Nat] /\ \A k \in P!MarkKinds : w.mark[k] = 0
      BY <3>1, <3>2, HandOver DEF AtByte, Going
    <3> HIDE DEF w
    <3>4. MarksInv(w)
      BY <3>1, <3>3, NoMark
    <3>5. x.run = 0
      BY <1>2 DEF AtByte, Going, RunInv
    <3> QED
      BY <3>3, <3>4, <3>5, GoesOnMarked DEF Kept, Frame, RunInv, AtByte, CallInv, SameByte, w
  <2>2. P!Goto(x, "s_res_line_almost_done").i = x.i /\ P!Goto(x, "s_header_field_start").i = x.i
    BY DEF P!Goto, AtByte, CallInv
  <2>3. Looked(x, x)
    BY <1>2, StaysOn
  <2> QED
    BY <1>2, <2>1, <2>2, <2>3 DEF P!StatusText, P!CALLBACK_DATA
<1> QED
  BY <1>1, <1>2

-----------------------------------------------------------------------------
(***************************************************************************)
(* Header names.                                                           *)
(***************************************************************************)
\* What COUNT_HEADER_SIZE makes of z, unless the header is too long.
Counted(z, y) ==
    /\ DOMAIN y = DOMAIN z /\ y.data = z.data /\ y.i = z.i /\ y.run = z.run /\ y.ret = z.ret
    /\ y.failed = z.failed /\ y.again = z.again /\ y.u = z.u /\ y.mark = z.mark
    /\ Alike(z.p, y.p) /\ CallInv(y)

LEMMA CountIs ==
    ASSUME NEW z, CallInv(z), NEW v
    PROVE  \E w : /\ Counted(z, w) /\ w.p.nread = z.p.nread + v
                  /\ P!COUNT_HEADER_SIZE(z, v) \in {w, P!Fail(w, "HEADER_OVERFLOW")}
<1> DEFINE w == [z EXCEPT !.p.nread = @ + v]
<1>1. Counted(z, w) /\ w.p.nread = z.p.nread + v
  BY DEF Counted, Alike, CallInv, IsParser
<1>2. P!COUNT_HEADER_SIZE(z, v) \in {w, P!Fail(w, "HEADER_OVERFLOW")}
  BY DEF P!COUNT_HEADER_SIZE
<1> HIDE DEF w
<1> QED
  BY <1>1, <1>2

\* The end of an inner loop.
RunEnded(z, y) ==
    /\ DOMAIN y = DOMAIN z /\ y.data = z.data /\ y.i = z.i /\ y.run = 0 /\ y.ret = z.ret
    /\ y.failed = z.failed /\ y.again = z.again /\ y.u = z.u /\ y.mark = z.mark
    /\ Alike(z.p, y.p) /\ CallInv(y)

LEMMA EndRunIs ==
    ASSUME NEW z, CallInv(z)
    PROVE  \E w : RunEnded(z, w) /\ P!EndRun(z) \in {w, P!Fail(w, "HEADER_OVERFLOW")}
<1> DEFINE a == [z EXCEPT !.run = 0, !.fast = FALSE]
<1>1. DOMAIN a = DOMAIN z /\ a.data = z.data /\ a.i = z.i /\ a.run = 0 /\ a.ret = z.ret
      /\ a.failed = z.failed /\ a.again = z.again /\ a.u = z.u /\ a.mark = z.mark /\ a.p = z.p
  BY DEF CallInv
<1>2. P!EndRun(z) = P!COUNT_HEADER_SIZE(a, z.i - z.run)
  BY DEF P!EndRun
<1> HIDE DEF a
<1>3. CallInv(a)
  BY <1>1 DEF CallInv
<1>4. PICK w : Counted(a, w)
               /\ P!COUNT_HEADER_SIZE(a, z.i - z.run) \in {w, P!Fail(w, "HEADER_OVERFLOW")}
  BY <1>3, CountIs
<1>5. RunEnded(z, w)
  BY <1>1, <1>4 DEF RunEnded, Counted
<1> QED
  BY <1>2, <1>4, <1>5

\* A parser p in whose place q compares the header with other words.
Matching(p, q) ==
    /\ IsParser(q) /\ q.type = p.type /\ q.http_errno = p.http_errno /\ q.state = p.state
    /\ q.flags = p.flags /\ q.content_length = p.content_length

LEMMA MatchIs ==
    ASSUME NEW p, IsParser(p), NEW c, NEW lost
    PROVE  LET q == P!Match(p, c, lost)
           IN  /\ Matching(p, q)
               /\ q.cand \subseteq p.cand
               /\ q.header_state \in {p.header_state, lost} \cup {w[2] : w \in p.cand}
<1> DEFINE left == {w \in p.cand : p.index + 1 < Len(w[1]) /\ P!At(w[1], p.index + 1 + 1) = c}
           whole == {w \in left : Len(w[1]) = p.index + 1 + 1}
           h == IF whole # {} THEN (CHOOSE w \in whole : TRUE)[2]
                ELSE IF left = {} THEN lost ELSE p.header_state
           q == P!Match(p, c, lost)
<1>1. left \subseteq p.cand /\ whole \subseteq left
  OBVIOUS
<1>2. q = [p EXCEPT !.index = p.index + 1, !.cand = left \ whole, !.header_state = h]
  BY DEF P!Match
<1> HIDE DEF left
<1>3. h \in {p.header_state, lost} \cup {w[2] : w \in p.cand}
  BY <1>1
<1> HIDE DEF whole, h, q
<1>4. IsParser(q) /\ q.type = p.type /\ q.http_errno = p.http_errno /\ q.state = p.state
      /\ q.flags = p.flags /\ q.content_length = p.content_length /\ q.cand = left \ whole
      /\ q.header_state = h
  BY <1>2 DEF IsParser
<1> QED
  BY <1>1, <1>3, <1>4 DEF q, Matching

LEMMA GeneralIs ==
    ASSUME NEW p, IsParser(p)
    PROVE  Matching(p, P!General(p)) /\ P!General(p).header_state = "h_general"
BY DEF P!General, Matching, IsParser

LEMMA FieldStartLooks ==
    ASSUME NEW x, AtByte(x), NEW ch, x.p.state = "s_header_field_start"
    PROVE  Looked(x, P!HeaderFieldStart(x, ch))
<1> DEFINE words == P!Begin(P!HeaderNames, P!tokens(ch))
           h == IF words = {} THEN "h_general" ELSE "h_matching"
           s == [x EXCEPT !.p.index = 0, !.p.state = "s_header_field"]
           y == P!MARK(s, "header_field")
           z == [y EXCEPT !.p.cand = words, !.p.header_state = h]
<1>1. P!HeaderFieldStart(x, ch) \in
        { P!Goto(x, "s_headers_almost_done"), P!Reexecute(x, "s_headers_almost_done"),
          P!Fail(x, "INVALID_HEADER_TOKEN"), z }
  BY Zenon DEF P!HeaderFieldStart
<1> HIDE DEF words, h
<1>2. Kept(x, s) /\ s.u = x.u /\ s.mark = x.mark /\ CallInv(s) /\ s.p.type = x.p.type
      /\ s.p.http_errno = x.p.http_errno /\ s.p.state = "s_header_field"
      /\ s.p.content_length = x.p.content_length /\ IsParser(s.p)
  BY DEF Kept, Frame, AtByte, CallInv, IsParser
<1> HIDE DEF s
<1>3. "header_field" \in P!MarkKinds /\ x.mark \in [P!MarkKinds -> Nat]
  BY DEF P!MarkKinds, AtByte, Going, MarksInv
<1>4. Marked(s, y, "header_field")
  BY <1>2, <1>3, MarkIs
<1> HIDE DEF y
<1>5. Kept(x, z) /\ z.u = x.u /\ z.mark = y.mark /\ IsParser(z.p) /\ z.p.type = x.p.type
      /\ z.p.http_errno = x.p.http_errno /\ z.p.state = "s_header_field"
      /\ z.p.content_length = x.p.content_length
  BY <1>2, <1>4 DEF Marked, Kept, Frame, AtByte, CallInv, IsParser
<1> HIDE DEF z
<1>6. Between(z.p, z.u)
  <2>1. LengthInv(z.p)
    BY <1>5 DEF LengthInv, AtByte, Going, ParserInv, SizeStates, CountedStates
  <2>2. "s_header_field" \in StatesOf(HTTP_RESPONSE) /\ "s_header_field" \notin P!ChunkStates
        /\ "s_header_field" \notin AfterName
    BY DEF StatesOf, HeaderLineStates, P!ChunkStates, P!ChunkLineStates, AfterName
  <2> QED
    BY <1>5, <2>1, <2>2 DEF Between, ParserInv, Named, AtByte, Going
<1>7. x.run = 0 /\ \A k \in P!MarkKinds : x.mark[k] = 0
  BY NothingMarked DEF AtByte, Going, MarkingStates
<1>8. MarksInv(z)
  <2>1. z.mark \in [P!MarkKinds -> Nat] /\ z.mark["header_field"] # 0
        /\ \A k \in P!MarkKinds \ {"header_field"} : z.mark[k] = 0
    BY <1>2, <1>4, <1>5, <1>7 DEF Marked
  <2>2. "s_header_field" \in MarkStates["header_field"]
    BY DEF MarkStates
  <2> QED
    BY <1>3, <1>5, <2>1, <2>2, OneMark
<1>9. Looked(x, z)
  <2>1. z.again = FALSE /\ z.ret = -1 /\ z.failed = FALSE /\ RunInv(z) /\ SameByte(x, z)
        /\ DOMAIN z = DOMAIN x /\ ConnInv(z.u)
    BY <1>5, <1>7 DEF Kept, Frame, AtByte, CallInv, RunInv, SameByte
  <2> QED
    BY <1>6, <1>8, <2>1, GoesOnMarked
<1>10. "s_headers_almost_done" \in PlainStates /\ "s_headers_almost_done" \notin AfterName
       /\ x.p.state \notin MarkingStates
  BY DEF PlainStates, HeaderLineStates, AfterName, MarkingStates
<1>11. Looked(x, P!Goto(x, "s_headers_almost_done"))
  BY <1>10, GotoPlain
<1>12. Looked(x, P!Reexecute(x, "s_headers_almost_done"))
  <2>1. Rank("s_headers_almost_done") < Rank(x.p.state)
    BY DEF Rank
  <2>2. Untouched(x, x) /\ CallInv(x) /\ ParserInv(x.p)
    BY DEF Untouched, Kept, Frame, AtByte, Going
  <2> QED
    BY <1>10, <2>1, <2>2, ReexecutePlain
<1>13. Looked(x, P!Fail(x, "INVALID_HEADER_TOKEN"))
  BY FailHere
<1> QED
  BY <1>1, <1>9, <1>11, <1>12, <1>13

\* The same call but for the run and the pace of the inner loop.
ButRun(x, y) ==
    /\ DOMAIN y = DOMAIN x /\ y.data = x.data /\ y.i = x.i /\ y.ret = x.ret /\ y.again = x.again
    /\ y.failed = x.failed /\ y.u = x.u /\ y.mark = x.mark /\ y.p = x.p

LEMMA RunStartIs ==
    ASSUME NEW x, CallInv(x)
    PROVE  ButRun(x, IF x.run = 0 THEN [x EXCEPT !.run = x.i] ELSE x)
BY DEF ButRun, CallInv

\* In a state of an inner loop, a call that goes on there with another parser.
LEMMA RunGoesOn ==
    ASSUME NEW x, AtByte(x), x.p.state \in {"s_header_field", "s_header_value"},
           NEW y, DOMAIN y = DOMAIN x, SameByte(x, y), y.ret = -1, y.again = FALSE,
           y.failed = FALSE, y.u = x.u, y.mark = x.mark, Matching(x.p, y.p),
           x.p.state = "s_header_value" => ValueWords(y.p)
    PROVE  Looked(x, y)
<1>1. LengthInv(y.p)
  BY DEF Matching, LengthInv, AtByte, Going, ParserInv
<1>2. x.p.state \notin P!ChunkStates /\ x.p.state # "s_chunk_size_start"
  BY DEF P!ChunkStates, P!ChunkLineStates
<1>3. Between(y.p, y.u)
  BY <1>1, <1>2 DEF Between, Matching, Named, AtByte, Going, ParserInv
<1>4. MarksInv(y) /\ RunInv(y)
  BY DEF MarksInv, RunInv, Matching, AtByte, Going
<1>5. ConnInv(y.u)
  BY DEF AtByte, CallInv
<1> QED
  BY <1>3, <1>4, <1>5, GoesOnMarked

LEMMA FieldLooks ==
    ASSUME NEW x, AtByte(x), NEW ch, x.p.state = "s_header_field"
    PROVE  Looked(x, P!HeaderField(x, ch))
<1> DEFINE in == IF x.run = 0 THEN [x EXCEPT !.run = x.i] ELSE x
           out == P!EndRun(in)
           q == IF in.p.header_state = "h_matching"
                THEN P!Match(in.p, P!tokens(ch), "h_general") ELSE P!General(in.p)
           on == [in EXCEPT !.p = q]
           s == "s_header_value_discard_ws"
           done == P!CALLBACK_DATA_(P!Goto(out, s), "header_field", P!Goto(out, s).i - 1,
                                    P!Goto(out, s).i)
<1>1. P!HeaderField(x, ch) = on
      \/ (P!HeaderField(x, ch) = out /\ out.ret # -1)
      \/ (P!HeaderField(x, ch) \in {done, P!Fail(out, "INVALID_HEADER_TOKEN")} /\ out.ret = -1)
  BY Zenon DEF P!HeaderField, P!CALLBACK_DATA
<1>2. ButRun(x, in)
  BY RunStartIs DEF AtByte
<1> HIDE DEF in
<1>3. Matching(x.p, q)
  <2>1. IsParser(in.p) /\ in.p = x.p
    BY <1>2 DEF ButRun, AtByte, CallInv
  <2> QED
    BY <2>1, MatchIs, GeneralIs
<1> HIDE DEF q
<1>4. Looked(x, on)
  <2>1. DOMAIN on = DOMAIN x /\ SameByte(x, on) /\ on.ret = -1 /\ on.again = FALSE
        /\ on.failed = FALSE /\ on.u = x.u /\ on.mark = x.mark /\ on.p = q
    BY <1>2 DEF ButRun, AtByte, CallInv, SameByte
  <2> HIDE DEF on
  <2> QED
    BY <1>3, <2>1, RunGoesOn
<1>5. CallInv(in)
  BY <1>2 DEF ButRun, AtByte, CallInv
<1>6. PICK w : RunEnded(in, w) /\ out \in {w, P!Fail(w, "HEADER_OVERFLOW")}
  BY <1>5, EndRunIs
<1>7. DOMAIN w = DOMAIN x /\ CallInv(w) /\ SameByte(x, w) /\ w.ret = -1 /\ w.again = FALSE
      /\ w.run = 0 /\ w.u = x.u /\ w.mark = x.mark /\ Alike(x.p, w.p)
  BY <1>2, <1>6 DEF RunEnded, ButRun, AtByte, SameByte
<1> HIDE DEF out
<1>8. CASE out = P!Fail(w, "HEADER_OVERFLOW")
  <2>1. Looked(x, out)
    BY <1>7, <1>8, FailStops
  <2>2. out.ret # -1
    BY <1>7, <1>8 DEF P!Fail, CallInv
  <2> QED
    BY <1>1, <1>4, <2>1, <2>2
<1>9. CASE out = w
  <2>1. ParserInv(w.p) /\ MarksInv(w) /\ w.p.state = "s_header_field"
    BY <1>7, AlikeKeeps DEF AtByte, Going, MarksInv, Alike
  <2>2. "header_field" \in P!MarkKinds /\ w.p.state \in MarkStates["header_field"]
        /\ s \in PlainStates
    BY <2>1 DEF P!MarkKinds, MarkStates, PlainStates, HeaderLineStates
  <2>3. P!Goto(w, s).i = w.i /\ w.i - 1 \in 0..Len(w.data)
    BY <1>7 DEF P!Goto, CallInv
  <2>4. Looked(x, P!CALLBACK_DATA_(P!Goto(w, s), "header_field", w.i - 1, w.i))
    BY <1>7, <2>1, <2>2, <2>3, HandOn
  <2>5. Looked(x, P!Fail(w, "INVALID_HEADER_TOKEN"))
    BY <1>7, FailStops
  <2>6. out.ret = -1
    BY <1>7, <1>9
  <2> QED
    BY <1>1, <1>4, <1>9, <2>3, <2>4, <2>5, <2>6
<1> QED
  BY <1>6, <1>8, <1>9

-----------------------------------------------------------------------------
(***************************************************************************)
(* Header values.                                                          *)
(***************************************************************************)
\* A digit counts less than sixteen.
LEMMA UnhexIs ==
    ASSUME NEW c \in P!Hex
    PROVE  P!Unhex[c] \in 0..15
<1> DEFINE low == {i \in 1..16 : P!HexDigits[i] = c}
           up == {i \in 1..6 : P!HexUpper[i] = c}
<1>1. low # {} \/ up # {}
  BY DEF P!Hex
<1>2. P!Unhex[c] = IF low # {} THEN (CHOOSE i \in 1..16 : P!HexDigits[i] = c) - 1
                   ELSE (CHOOSE i \in 1..6 : P!HexUpper[i] = c) + 9
  <2>1. (low # {}) <=> \E i \in 1..16 : P!HexDigits[i] = c
    OBVIOUS
  <2> QED
    BY <2>1 DEF P!Unhex
<1>3. CASE low # {}
  <2>1. (CHOOSE i \in 1..16 : P!HexDigits[i] = c) \in 1..16
    BY <1>3
  <2> QED
    BY <1>2, <1>3, <2>1
<1>4. CASE low = {}
  <2> DEFINE j == CHOOSE i \in 1..6 : P!HexUpper[i] = c
  <2>1. j \in 1..6
    BY <1>1, <1>4
  <2>2. P!Unhex[c] = j + 9
    BY <1>2, <1>4
  <2> HIDE DEF j
  <2> QED
    BY <2>1, <2>2
<1> QED
  BY <1>3, <1>4

LEMMA NumIsHex == P!Num \subseteq P!Hex
BY DEF P!Num, P!Hex

\* A parser q that reads a value, of the same message as p.
ReadsValue(p, q) ==
    /\ IsParser(q) /\ q.type = p.type /\ q.http_errno = p.http_errno
    /\ q.state = "s_header_value" /\ q.content_length \in 0..UllongMax /\ ValueWords(q)

LEMMA ReadsValueInv ==
    ASSUME NEW p, NEW q, NEW u, ParserInv(p), ReadsValue(p, q), HasHeaders(u)
    PROVE  Between(q, u)
<1>1. LengthInv(q)
  BY DEF LengthInv, ReadsValue, SizeStates, CountedStates
<1>2. "s_header_value" \in StatesOf(HTTP_RESPONSE) /\ "s_header_value" \notin P!ChunkStates
  BY DEF StatesOf, HeaderLineStates, P!ChunkStates, P!ChunkLineStates
<1> QED
  BY <1>1, <1>2 DEF Between, ParserInv, Named, ReadsValue

\* The words of Connection.
LEMMA OptionStartIs ==
    ASSUME NEW p, IsParser(p), NEW c
    PROVE  LET q == P!OptionStart(p, c)
           IN  Matching(p, q) /\ ValueWords(q)
<1> DEFINE words == P!Begin(P!OptionWords, c)
           h == IF words = {} THEN "h_matching_connection_token" ELSE "h_matching_connection_word"
           q == P!OptionStart(p, c)
<1>1. words \subseteq P!OptionWords
  BY DEF P!Begin
<1>2. q = [p EXCEPT !.header_state = h, !.cand = words]
  BY DEF P!OptionStart
<1> HIDE DEF words, q
<1>3. IsParser(q) /\ q.type = p.type /\ q.http_errno = p.http_errno /\ q.state = p.state
      /\ q.flags = p.flags /\ q.content_length = p.content_length /\ q.cand = words
      /\ q.header_state = h
  BY <1>2 DEF IsParser
<1> QED
  BY <1>1, <1>3 DEF q, Matching, ValueWords

LEMMA ValueStartLooks ==
    ASSUME NEW x, AtByte(x), NEW ch,
           x.p.state \in {"s_header_value_start", "s_header_value_discard_ws"}
    PROVE  Looked(x, P!HeaderValueStart(x, ch))
<1> DEFINE s == [x EXCEPT !.p.state = "s_header_value", !.p.index = 0]
           y == P!MARK(s, "header_value")
           h == x.p.header_state
           upgrade == [P!Flag(y, "UPGRADE") EXCEPT !.p = P!General(@)]
           chunked == [y EXCEPT !.p.header_state = "h_matching_chunked",
                                !.p.cand = P!ChunkedWord]
           general == [y EXCEPT !.p = P!General(@)]
           length == [P!Flag(y, "CONTENTLENGTH") EXCEPT !.p.content_length = P!Unhex[ch]]
           option == [y EXCEPT !.p = P!OptionStart(@, P!LOWER(ch))]
<1>1. \/ P!HeaderValueStart(x, ch) \in
           { upgrade, chunked, general, option, P!Fail(y, "INVALID_CONTENT_LENGTH"),
             P!Fail(y, "UNEXPECTED_CONTENT_LENGTH") }
      \/ P!HeaderValueStart(x, ch) = length /\ h = "h_content_length" /\ ch \in P!Num
      \/ P!HeaderValueStart(x, ch) = y /\ h = "h_matching_connection_token_start"
  BY Zenon DEF P!HeaderValueStart
<1>2. Kept(x, s) /\ s.u = x.u /\ s.mark = x.mark /\ CallInv(s) /\ s.p.type = x.p.type
      /\ s.p.http_errno = x.p.http_errno /\ s.p.state = "s_header_value"
      /\ s.p.content_length = x.p.content_length /\ s.p.header_state = h /\ IsParser(s.p)
  BY DEF Kept, Frame, AtByte, CallInv, IsParser
<1> HIDE DEF s
<1>3. "header_value" \in P!MarkKinds /\ x.mark \in [P!MarkKinds -> Nat]
  BY DEF P!MarkKinds, AtByte, Going, MarksInv
<1>4. Marked(s, y, "header_value")
  BY <1>2, <1>3, MarkIs
<1> HIDE DEF y
<1>5. DOMAIN y = DOMAIN x /\ SameByte(x, y) /\ y.ret = -1 /\ y.again = FALSE /\ y.run = 0
      /\ y.failed = FALSE /\ y.u = x.u /\ y.p = s.p /\ CallInv(y)
      /\ y.mark \in [P!MarkKinds -> Nat]
      /\ \A k \in P!MarkKinds \ {"header_value"} : y.mark[k] = 0
  <2>1. x.run = 0 /\ \A k \in P!MarkKinds : x.mark[k] = 0
    BY NothingMarked DEF AtByte, Going, MarkingStates
  <2>2. \A k \in P!MarkKinds \ {"header_value"} : y.mark[k] = 0
    BY <1>2, <1>4, <2>1 DEF Marked
  <2>3. DOMAIN y = DOMAIN x /\ SameByte(x, y) /\ y.ret = -1 /\ y.again = FALSE /\ y.run = 0
        /\ y.failed = FALSE /\ y.u = x.u /\ y.p = s.p /\ y.mark \in [P!MarkKinds -> Nat]
    BY <1>2, <1>4, <2>1 DEF Marked, Kept, Frame, AtByte, CallInv, SameByte
  <2> QED
    BY <1>2, <2>2, <2>3 DEF CallInv, SameByte, AtByte
<1>6. ASSUME NEW z, DOMAIN z = DOMAIN y, z.data = y.data, z.i = y.i, z.ret = y.ret,
             z.again = y.again, z.run = y.run, z.failed = y.failed, z.u = y.u,
             z.mark = y.mark, ReadsValue(x.p, z.p)
      PROVE  Looked(x, z)
  <2>1. HasHeaders(x.u) /\ ParserInv(x.p)
    BY DEF AtByte, Going, Named, AfterName
  <2>2. Between(z.p, z.u)
    BY <1>5, <1>6, <2>1, ReadsValueInv
  <2>3. z.p.state \in MarkStates["header_value"] /\ z.p.state # "s_header_field"
    BY <1>6 DEF MarkStates, ReadsValue
  <2>4. MarksInv(z)
    BY <1>3, <1>5, <1>6, <2>3, OneMark
  <2>5. RunInv(z) /\ ConnInv(z.u) /\ SameByte(x, z)
    BY <1>5, <1>6 DEF RunInv, AtByte, CallInv, SameByte
  <2> QED
    BY <1>5, <1>6, <2>2, <2>4, <2>5, GoesOnMarked
<1>7. ASSUME NEW z, DOMAIN z = DOMAIN y, z.data = y.data, z.i = y.i, z.ret = y.ret,
             z.again = y.again, z.run = y.run, z.failed = y.failed, z.u = y.u,
             z.mark = y.mark, Matching(y.p, z.p), ValueWords(z.p)
      PROVE  Looked(x, z)
  <2>1. ReadsValue(x.p, z.p)
    BY <1>2, <1>5, <1>7 DEF ReadsValue, Matching, AtByte, Going, ParserInv, LengthInv
  <2> QED
    BY <1>6, <1>7, <2>1
<1>8. IsParser(y.p) /\ CallInv(y)
  BY <1>5 DEF CallInv
<1>9. Looked(x, upgrade)
  <2> DEFINE f == P!Flag(y, "UPGRADE")
  <2>1. DOMAIN f = DOMAIN y /\ f.data = y.data /\ f.i = y.i /\ f.ret = y.ret
        /\ f.again = y.again /\ f.run = y.run /\ f.failed = y.failed /\ f.u = y.u
        /\ f.mark = y.mark /\ IsParser(f.p) /\ f.p.type = y.p.type
        /\ f.p.http_errno = y.p.http_errno /\ f.p.state = y.p.state
        /\ f.p.content_length = y.p.content_length
    BY <1>8 DEF P!Flag, CallInv, IsParser
  <2> HIDE DEF f
  <2>2. DOMAIN upgrade = DOMAIN y /\ upgrade.data = y.data /\ upgrade.i = y.i
        /\ upgrade.ret = y.ret /\ upgrade.again = y.again /\ upgrade.run = y.run
        /\ upgrade.failed = y.failed /\ upgrade.u = y.u /\ upgrade.mark = y.mark
        /\ upgrade.p = P!General(f.p)
    BY <1>8, <2>1 DEF CallInv, f
  <2>3. Matching(f.p, P!General(f.p)) /\ P!General(f.p).header_state = "h_general"
    BY <2>1, GeneralIs
  <2>4. ReadsValue(x.p, P!General(f.p))
    BY <1>2, <1>5, <2>1, <2>3
    DEF ReadsValue, Matching, ValueWords, AtByte, Going, ParserInv, LengthInv
  <2> HIDE DEF upgrade
  <2> QED
    BY <1>6, <2>2, <2>4
<1>10. Looked(x, chunked)
  <2>1. DOMAIN chunked = DOMAIN y /\ chunked.data = y.data /\ chunked.i = y.i
        /\ chunked.ret = y.ret /\ chunked.again = y.again /\ chunked.run = y.run
        /\ chunked.failed = y.failed /\ chunked.u = y.u /\ chunked.mark = y.mark
        /\ Matching(y.p, chunked.p) /\ chunked.p.header_state = "h_matching_chunked"
        /\ chunked.p.cand = P!ChunkedWord
    BY <1>8 DEF CallInv, IsParser, Matching
  <2> HIDE DEF chunked
  <2>2. ValueWords(chunked.p)
    BY <2>1 DEF ValueWords
  <2> QED
    BY <1>7, <2>1, <2>2
<1>11. Looked(x, general)
  <2>1. DOMAIN general = DOMAIN y /\ general.data = y.data /\ general.i = y.i
        /\ general.ret = y.ret /\ general.again = y.again /\ general.run = y.run
        /\ general.failed = y.failed /\ general.u = y.u /\ general.mark = y.mark
        /\ general.p = P!General(y.p)
    BY <1>8 DEF CallInv
  <2> HIDE DEF general
  <2>2. Matching(y.p, general.p) /\ general.p.header_state = "h_general"
    BY <1>8, <2>1, GeneralIs
  <2>3. ValueWords(general.p)
    BY <2>2 DEF ValueWords
  <2> QED
    BY <1>7, <2>1, <2>2, <2>3
<1>12. Looked(x, option)
  <2>1. DOMAIN option = DOMAIN y /\ option.data = y.data /\ option.i = y.i
        /\ option.ret = y.ret /\ option.again = y.again /\ option.run = y.run
        /\ option.failed = y.failed /\ option.u = y.u /\ option.mark = y.mark
        /\ option.p = P!OptionStart(y.p, P!LOWER(ch))
    BY <1>8 DEF CallInv
  <2> HIDE DEF option
  <2>2. Matching(y.p, option.p) /\ ValueWords(option.p)
    BY <1>8, <2>1, OptionStartIs
  <2> QED
    BY <1>7, <2>1, <2>2
<1>13. ASSUME h = "h_content_length", ch \in P!Num PROVE Looked(x, length)
  <2> DEFINE f == P!Flag(y, "CONTENTLENGTH")
  <2>1. DOMAIN f = DOMAIN y /\ f.data = y.data /\ f.i = y.i /\ f.ret = y.ret
        /\ f.again = y.again /\ f.run = y.run /\ f.failed = y.failed /\ f.u = y.u
        /\ f.mark = y.mark /\ IsParser(f.p) /\ f.p.type = y.p.type
        /\ f.p.http_errno = y.p.http_errno /\ f.p.state = y.p.state
        /\ f.p.header_state = y.p.header_state
    BY <1>8 DEF P!Flag, CallInv, IsParser
  <2> HIDE DEF f
  <2>2. DOMAIN length = DOMAIN y /\ length.data = y.data /\ length.i = y.i
        /\ length.ret = y.ret /\ length.again = y.again /\ length.run = y.run
        /\ length.failed = y.failed /\ length.u = y.u /\ length.mark = y.mark
        /\ IsParser(length.p) /\ length.p.type = y.p.type
        /\ length.p.http_errno = y.p.http_errno /\ length.p.state = y.p.state
        /\ length.p.header_state = y.p.header_state /\ length.p.content_length = P!Unhex[ch]
    BY <1>8, <2>1 DEF CallInv, IsParser, f
  <2> HIDE DEF length
  <2>3. P!Unhex[ch] \in 0..UllongMax
    BY <1>13, NumIsHex, UnhexIs, HttpMessageAssumption
  <2>4. ReadsValue(x.p, length.p)
    BY <1>2, <1>5, <1>13, <2>2, <2>3 DEF ReadsValue, ValueWords
  <2> QED
    BY <1>6, <2>2, <2>4
<1>14. ASSUME h = "h_matching_connection_token_start" PROVE Looked(x, y)
  <2>1. ValueWords(y.p) /\ Matching(y.p, y.p)
    BY <1>2, <1>5, <1>8, <1>14 DEF ValueWords, Matching
  <2> QED
    BY <1>7, <2>1
<1>15. Looked(x, P!Fail(y, "INVALID_CONTENT_LENGTH"))
       /\ Looked(x, P!Fail(y, "UNEXPECTED_CONTENT_LENGTH"))
  BY <1>5, FailStops
<1> HIDE DEF upgrade, chunked, general, option, length
<1> QED
  BY <1>1, <1>9, <1>10, <1>11, <1>12, <1>13, <1>14, <1>15

\* In the middle of a value, with another parser that reads it.
LEMMA ValueChange ==
    ASSUME NEW x, AtByte(x), x.p.state = "s_header_value", NEW q, ReadsValue(x.p, q)
    PROVE  Looked(x, [x EXCEPT !.p = q])
<1> DEFINE y == [x EXCEPT !.p = q]
<1>1. DOMAIN y = DOMAIN x /\ y.data = x.data /\ y.i = x.i /\ y.ret = -1 /\ y.again = FALSE
      /\ y.failed = FALSE /\ y.u = x.u /\ y.mark = x.mark /\ y.p = q /\ y.run = x.run
  BY DEF AtByte, CallInv
<1> HIDE DEF y
<1>2. Between(y.p, y.u) /\ y.p.state = "s_header_value"
  <2>1. HasHeaders(x.u) /\ ParserInv(x.p)
    BY DEF AtByte, Going, Named, AfterName
  <2> QED
    BY <1>1, <2>1, ReadsValueInv DEF ReadsValue
<1>3. MarksInv(y) /\ RunInv(y)
  BY <1>1, <1>2 DEF MarksInv, RunInv, AtByte, Going
<1> QED
  BY <1>1, <1>2, <1>3, GoesOnMarked DEF AtByte, CallInv, SameByte, y

LEMMA ValueWordsKept ==
    ASSUME NEW p, ParserInv(p), p.state = "s_header_value", NEW q, Matching(p, q),
           ValueWords(q)
    PROVE  ReadsValue(p, q)
BY DEF ReadsValue, Matching, ParserInv, LengthInv

\* One more letter of a word of values.
LEMMA WordIs ==
    ASSUME NEW p, IsParser(p), ValueWords(p), NEW c,
           p.header_state \in {"h_matching_chunked", "h_matching_connection_word"},
           NEW lost \in {"h_general", "h_matching_connection_token"}
    PROVE  LET q == P!Match(p, c, lost)
           IN  Matching(p, q) /\ ValueWords(q)
<1> DEFINE q == P!Match(p, c, lost)
<1>1. /\ Matching(p, q) /\ q.cand \subseteq p.cand
      /\ q.header_state \in {p.header_state, lost} \cup {w[2] : w \in p.cand}
  BY MatchIs
<1> HIDE DEF q
<1>2. p.cand \subseteq P!ChunkedWord \cup P!OptionWords
  BY DEF ValueWords
<1>3. \A w \in P!ChunkedWord \cup P!OptionWords :
        w[2] \in { "h_transfer_encoding_chunked", "h_connection_keep_alive",
                   "h_connection_close", "h_connection_upgrade" }
  BY DEF P!ChunkedWord, P!OptionWords
<1> QED
  BY <1>1, <1>2, <1>3 DEF ValueWords, q

\* A number that is cut to the width of an unsigned long long.
LEMMA NextDigit ==
    ASSUME NEW length \in 0..UllongMax, NEW base \in Nat, NEW digit \in Nat
    PROVE  (length * base + digit) % (UllongMax + 1) \in 0..UllongMax
<1> DEFINE n == length * base + digit
           m == UllongMax + 1
<1>1. n \in Nat /\ m \in Nat \ {0} /\ UllongMax = m - 1
  BY HttpMessageAssumption
<1> HIDE DEF n, m
<1>2. n % m \in 0..(m - 1)
  BY <1>1
<1> QED
  BY <1>1, <1>2 DEF n, m

LEMMA ValueCharLooks ==
    ASSUME NEW x, AtByte(x), NEW ch, x.p.state = "s_header_value"
    PROVE  Looked(x, P!ValueChar(x, ch))
<1> DEFINE h == x.p.header_state
           c == P!LOWER(ch)
           chunk == P!Match(x.p, c, "h_general")
           word == P!Match(x.p, c, "h_matching_connection_token")
           option == P!OptionStart(x.p, c)
           general == P!General(x.p)
           next == P!NextOption(x.p)
           flag == P!Flag(x, P!FlagOf[h])
           token == [x.p EXCEPT !.header_state = "h_matching_connection_token"]
           flagged == [flag EXCEPT !.p = P!NextOption(flag.p)]
           digit == P!AddDigit(x, 10, P!Unhex[ch], "INVALID_CONTENT_LENGTH")
<1>2. ParserInv(x.p) /\ IsParser(x.p) /\ ValueWords(x.p)
      /\ x.p.content_length \in 0..UllongMax
  BY DEF AtByte, Going, ParserInv, LengthInv
<1>3. \A q : Matching(x.p, q) /\ ValueWords(q) => Looked(x, [x EXCEPT !.p = q])
  BY <1>2, ValueWordsKept, ValueChange
<1>4. h \notin {"h_connection", "h_transfer_encoding"}
  BY <1>2 DEF ValueWords
<1>5. Looked(x, x) /\ Looked(x, P!Fail(x, "INVALID_CONTENT_LENGTH"))
  BY StaysOn, FailHere
<1>6. Looked(x, [x EXCEPT !.p = general])
  <2>1. Matching(x.p, general) /\ ValueWords(general)
    BY <1>2, GeneralIs DEF ValueWords
  <2> QED
    BY <1>3, <2>1
<1>7. Looked(x, [x EXCEPT !.p = option])
  <2>1. Matching(x.p, option) /\ ValueWords(option)
    BY <1>2, OptionStartIs
  <2> QED
    BY <1>3, <2>1
<1>8. \A p : IsParser(p) =>
        Matching(p, P!NextOption(p)) /\ ValueWords(P!NextOption(p))
  BY DEF P!NextOption, Matching, ValueWords, IsParser
<1>9. Looked(x, [x EXCEPT !.p = next])
  BY <1>2, <1>3, <1>8
<1>10. Looked(x, flagged)
  <2>1. IsParser(flag.p) /\ flag.p.type = x.p.type /\ flag.p.http_errno = x.p.http_errno
        /\ flag.p.state = x.p.state /\ flag.p.content_length = x.p.content_length
    BY <1>2 DEF P!Flag, AtByte, CallInv, IsParser
  <2>2. flagged = [x EXCEPT !.p = P!NextOption(flag.p)]
    BY DEF P!Flag, AtByte, CallInv
  <2> HIDE DEF flag
  <2>3. ReadsValue(x.p, P!NextOption(flag.p))
    BY <1>2, <1>8, <2>1 DEF ReadsValue, Matching
  <2> QED
    BY <2>2, <2>3, ValueChange
<1>11. Looked(x, [x EXCEPT !.p.header_state = "h_matching_connection_token"])
  <2>1. [x EXCEPT !.p.header_state = "h_matching_connection_token"] = [x EXCEPT !.p = token]
    BY DEF AtByte, CallInv
  <2>2. Matching(x.p, token) /\ ValueWords(token)
    BY <1>2 DEF Matching, ValueWords, IsParser
  <2> QED
    BY <1>3, <2>1, <2>2
<1>12. h = "h_matching_chunked" => Looked(x, [x EXCEPT !.p = chunk])
  BY <1>2, <1>3, WordIs
<1>13. h = "h_matching_connection_word" => Looked(x, [x EXCEPT !.p = word])
  BY <1>2, <1>3, WordIs
<1>14. ASSUME ch \in P!Num, h = "h_content_length"
       PROVE  Looked(x, digit)
  <2> DEFINE t == (x.p.content_length * 10 + P!Unhex[ch]) % (UllongMax + 1)
             q == [x.p EXCEPT !.content_length = t]
  <2>1. P!Unhex[ch] \in 0..15
    BY <1>14, NumIsHex, UnhexIs
  <2>2. t \in 0..UllongMax
    <3>1. P!Unhex[ch] \in Nat /\ 10 \in Nat /\ x.p.content_length \in 0..UllongMax
      BY <1>2, <2>1
    <3> QED
      BY <3>1, NextDigit
  <2>3. digit \in {P!Fail(x, "INVALID_CONTENT_LENGTH"), [x EXCEPT !.p = q]}
    BY DEF P!AddDigit, AtByte, CallInv
  <2> HIDE DEF t
  <2>4. ReadsValue(x.p, q)
    BY <1>2, <2>2 DEF ReadsValue, ValueWords, IsParser
  <2> HIDE DEF q, digit
  <2> QED
    BY <1>5, <2>3, <2>4, ValueChange
<1> QED
  BY <1>4, <1>5, <1>6, <1>7, <1>9, <1>10, <1>11, <1>12, <1>13, <1>14, Zenon DEF P!ValueChar

LEMMA ButRunLooks ==
    ASSUME NEW x, AtByte(x), x.p.state \in {"s_header_field", "s_header_value"},
           NEW in, ButRun(x, in)
    PROVE  AtByte(in) /\ \A y : Looked(in, y) => Looked(x, y)
<1>1. CallInv(in)
  BY DEF ButRun, AtByte, CallInv
<1>2. MarksInv(in)
  BY DEF ButRun, AtByte, Going, MarksInv
<1>3. AtByte(in)
  BY <1>1, <1>2 DEF ButRun, AtByte, Going, RunInv
<1>4. \A y : Looked(in, y) => Looked(x, y)
  BY DEF Looked, ButRun, SameByte
<1> QED
  BY <1>3, <1>4

LEMMA ValueLooks ==
    ASSUME NEW x, AtByte(x), NEW ch, x.p.state = "s_header_value"
    PROVE  Looked(x, P!HeaderValue(x, ch))
<1> DEFINE in == IF x.run = 0 THEN [x EXCEPT !.run = x.i] ELSE x
           out == P!EndRun(in)
           s == "s_header_almost_done"
           done == P!CALLBACK_DATA(P!Goto(in, s), "header_value")
           fast == [in EXCEPT !.fast = TRUE]
           again == P!Reexecute(P!CALLBACK_DATA_NOADVANCE(P!Goto(out, s), "header_value"), s)
<1>1. P!HeaderValue(x, ch) \in
        { IF done.ret = -1 THEN P!EndRun(done) ELSE done, IF out.ret # -1 THEN out ELSE again,
          in, P!Fail(in, "INVALID_HEADER_TOKEN"),
          IF in.p.header_state = "h_general" THEN fast ELSE P!ValueChar(in, ch) }
  BY Zenon DEF P!HeaderValue
<1>2. ButRun(x, in)
  BY RunStartIs DEF AtByte
<1> HIDE DEF in
<1>3. AtByte(in) /\ in.p.state = "s_header_value" /\ \A y : Looked(in, y) => Looked(x, y)
  BY <1>2, ButRunLooks DEF ButRun
<1>4. CallInv(in) /\ ParserInv(in.p) /\ MarksInv(in) /\ HasHeaders(in.u)
      /\ "header_value" \in P!MarkKinds /\ in.p.state \in MarkStates["header_value"]
      /\ s \in PlainStates /\ in.i - 1 \in 0..Len(in.data)
  BY <1>3 DEF AtByte, Going, Named, AfterName, P!MarkKinds, MarkStates, PlainStates,
              HeaderLineStates, CallInv
<1>5. Looked(x, in) /\ Looked(x, P!Fail(in, "INVALID_HEADER_TOKEN"))
      /\ Looked(x, P!ValueChar(in, ch))
  BY <1>3, StaysOn, FailHere, ValueCharLooks
<1>6. Looked(x, fast)
  <2>1. DOMAIN fast = DOMAIN in /\ SameByte(in, fast) /\ fast.ret = -1 /\ fast.again = FALSE
        /\ fast.failed = FALSE /\ fast.u = in.u /\ fast.mark = in.mark /\ fast.p = in.p
    BY <1>3 DEF AtByte, CallInv, SameByte
  <2> HIDE DEF fast
  <2>2. Matching(in.p, in.p) /\ ValueWords(in.p)
    BY <1>3, <1>4 DEF Matching, ParserInv
  <2>3. Looked(in, fast)
    BY <1>3, <2>1, <2>2, RunGoesOn
  <2> QED
    BY <1>3, <2>3
<1>7. done.ret = -1 /\ Looked(x, P!EndRun(done))
  <2> DEFINE d == P!CALLBACK_DATA_(P!Goto(in, s), "header_value", in.i - 1, in.i)
  <2>1. done = d
    BY <1>4 DEF P!CALLBACK_DATA, P!Goto, CallInv
  <2>2. /\ Kept(in, d) /\ ConnInv(d.u) /\ Between(d.p, d.u) /\ d.p.state = s
        /\ d.mark \in [P!MarkKinds -> Nat] /\ \A k \in P!MarkKinds : d.mark[k] = 0
    BY <1>4, HandOver
  <2> HIDE DEF done, d
  <2>3. CallInv(d) /\ d.ret = -1 /\ d.again = FALSE
    BY <1>3, <2>2 DEF Kept, Frame, AtByte, CallInv, Between, ParserInv
  <2>4. PICK w : RunEnded(d, w) /\ P!EndRun(d) \in {w, P!Fail(w, "HEADER_OVERFLOW")}
    BY <2>3, EndRunIs
  <2>5. DOMAIN w = DOMAIN in /\ SameByte(in, w) /\ w.ret = -1 /\ w.failed = FALSE
        /\ w.again = FALSE /\ w.run = 0 /\ ConnInv(w.u) /\ CallInv(w)
    BY <1>3, <2>2, <2>3, <2>4 DEF RunEnded, Kept, Frame, SameByte, CallInv
  <2>6. Between(w.p, w.u) /\ w.p.state = s
    <3>1. ParserInv(w.p)
      BY <2>2, <2>4, AlikeKeeps DEF RunEnded, Between
    <3> QED
      BY <2>2, <2>4, <3>1 DEF RunEnded, Between, Named, Alike
  <2>7. MarksInv(w) /\ RunInv(w)
    BY <2>2, <2>4, <2>5, <2>6, NoMark DEF RunEnded, RunInv
  <2>8. Looked(in, w)
    BY <1>3, <2>5, <2>6, <2>7, GoesOnMarked
  <2>9. Looked(in, P!Fail(w, "HEADER_OVERFLOW"))
    BY <2>5, FailStops
  <2> QED
    BY <1>3, <2>1, <2>3, <2>4, <2>8, <2>9
<1>8. PICK w : RunEnded(in, w) /\ out \in {w, P!Fail(w, "HEADER_OVERFLOW")}
  BY <1>4, EndRunIs
<1>9. DOMAIN w = DOMAIN in /\ CallInv(w) /\ SameByte(in, w) /\ w.ret = -1 /\ w.again = FALSE
      /\ w.run = 0 /\ w.u = in.u /\ w.mark = in.mark /\ Alike(in.p, w.p)
  BY <1>3, <1>8 DEF RunEnded, AtByte, SameByte
<1>10. out.ret # -1 => Looked(x, out)
  BY <1>3, <1>8, <1>9, FailStops
<1>11. out.ret = -1 => Looked(x, again)
  <2>1. SUFFICES ASSUME out.ret = -1 PROVE Looked(in, again)
    BY <1>3
  <2>2. P!Fail(w, "HEADER_OVERFLOW").ret # -1
    BY <1>9 DEF P!Fail, CallInv
  <2>3. out = w
    BY <1>8, <2>1, <2>2
  <2> HIDE DEF out
  <2>4. ParserInv(w.p) /\ MarksInv(w) /\ w.p.state = "s_header_value"
    BY <1>3, <1>4, <1>9, AlikeKeeps DEF MarksInv, Alike
  <2>5. P!Goto(w, s).i = w.i /\ w.i - 1 \in 0..Len(w.data)
    BY <1>9 DEF P!Goto, CallInv
  <2>6. Rank(s) < Rank(in.p.state)
    BY <1>3 DEF Rank
  <2>7. Looked(in, P!Reexecute(P!CALLBACK_DATA_(P!Goto(w, s), "header_value", w.i - 1,
                                                w.i - 1), s))
    BY <1>3, <1>4, <1>9, <2>4, <2>5, <2>6, HandOn
  <2> QED
    BY <2>3, <2>5, <2>7 DEF P!CALLBACK_DATA_NOADVANCE
<1> HIDE DEF out, done, fast, again
<1> QED
  BY <1>1, <1>5, <1>6, <1>7, <1>10, <1>11

LEMMA NoteIs ==
    ASSUME NEW x, AtByte(x),
           x.p.state \in {"s_header_value_lws", "s_header_value_discard_lws"}
    PROVE  LET y == P!NoteValue(x)
           IN  Untouched(x, y) /\ CallInv(y) /\ ParserInv(y.p)
<1> DEFINE f == P!Flag(x, P!FlagOf[x.p.header_state])
<1>1. P!NoteValue(x) \in {f, x}
  BY Zenon DEF P!NoteValue
<1>2. Untouched(x, x) /\ CallInv(x) /\ ParserInv(x.p)
  BY DEF Untouched, Kept, Frame, AtByte, Going
<1>3. Untouched(x, f) /\ CallInv(f) /\ IsParser(f.p) /\ f.p.type = x.p.type
      /\ f.p.http_errno = x.p.http_errno /\ f.p.state = x.p.state
      /\ f.p.content_length = x.p.content_length /\ x.p.flags \subseteq f.p.flags
  BY DEF P!Flag, Untouched, Kept, Frame, AtByte, CallInv, IsParser
<1> HIDE DEF f
<1>4. ParserInv(f.p)
  BY <1>2, <1>3 DEF ParserInv, LengthInv
<1> QED
  BY <1>1, <1>2, <1>3, <1>4

LEMMA LwsLooks ==
    ASSUME NEW x, AtByte(x), NEW ch, x.p.state = "s_header_value_lws"
    PROVE  Looked(x, P!HeaderValueLws(x, ch))
<1>1. Untouched(x, x) /\ CallInv(x) /\ ParserInv(x.p) /\ HasHeaders(x.u)
  BY DEF Untouched, Kept, Frame, AtByte, Going, Named, AfterName
<1>2. {"s_header_value_start", "s_header_field_start"} \subseteq PlainStates
      /\ x.p.state \notin MarkingStates /\ Rank("s_header_value_start") < Rank(x.p.state)
      /\ Rank("s_header_field_start") < Rank(x.p.state)
  BY DEF PlainStates, HeaderLineStates, MarkingStates, Rank
<1>3. Looked(x, P!Reexecute(x, "s_header_value_start"))
  BY <1>1, <1>2, ReexecutePlain
<1>4. Untouched(x, P!NoteValue(x)) /\ CallInv(P!NoteValue(x)) /\ ParserInv(P!NoteValue(x).p)
  BY NoteIs
<1>5. Looked(x, P!Reexecute(P!NoteValue(x), "s_header_field_start"))
  BY <1>1, <1>2, <1>4, ReexecutePlain
<1> QED
  BY <1>3, <1>5, Zenon DEF P!HeaderValueLws

LEMMA DiscardWsLooks ==
    ASSUME NEW x, AtByte(x), NEW ch, x.p.state = "s_header_value_discard_ws"
    PROVE  Looked(x, P!HeaderValueDiscardWs(x, ch))
<1>1. HasHeaders(x.u) /\ x.p.state \notin MarkingStates
      /\ "s_header_value_discard_ws_almost_done" \in PlainStates
      /\ "s_header_value_discard_lws" \in PlainStates
  BY DEF AtByte, Going, Named, AfterName, MarkingStates, PlainStates, HeaderLineStates
<1>2. Looked(x, P!Goto(x, "s_header_value_discard_ws_almost_done"))
      /\ Looked(x, P!Goto(x, "s_header_value_discard_lws"))
  BY <1>1, GotoPlain
<1>3. Looked(x, x) /\ Looked(x, P!HeaderValueStart(x, ch))
  BY StaysOn, ValueStartLooks
<1> QED
  BY <1>2, <1>3, Zenon DEF P!HeaderValueDiscardWs

LEMMA DiscardLwsLooks ==
    ASSUME NEW x, AtByte(x), NEW ch, x.p.state = "s_header_value_discard_lws"
    PROVE  Looked(x, P!HeaderValueDiscardLws(x, ch))
<1> DEFINE n == P!NoteValue(x)
           m == P!MARK(n, "header_value")
           s == "s_header_field_start"
           y == P!Goto(m, s)
           d == P!CALLBACK_DATA_(y, "header_value", y.i - 1, y.i - 1)
           r == P!Reexecute(d, s)
<1>1. P!HeaderValueDiscardLws(x, ch) \in {P!Goto(x, "s_header_value_discard_ws"), r}
  BY Zenon DEF P!HeaderValueDiscardLws, P!CALLBACK_DATA_NOADVANCE
<1>2. HasHeaders(x.u) /\ x.p.state \notin MarkingStates /\ s \in PlainStates
      /\ "s_header_value_discard_ws" \in PlainStates /\ s \notin AfterName
      /\ Rank(s) < Rank(x.p.state) /\ "header_value" \in P!MarkKinds
  BY DEF AtByte, Going, Named, AfterName, MarkingStates, PlainStates, HeaderLineStates, Rank,
         P!MarkKinds
<1>3. Looked(x, P!Goto(x, "s_header_value_discard_ws"))
  BY <1>2, GotoPlain
<1>4. Untouched(x, n) /\ CallInv(n) /\ ParserInv(n.p)
  BY NoteIs
<1> HIDE DEF n
<1>5. x.run = 0 /\ (\A k \in P!MarkKinds : x.mark[k] = 0)
      /\ x.mark \in [P!MarkKinds -> Nat]
  BY <1>2, NothingMarked DEF AtByte, Going, MarksInv
<1>6. Marked(n, m, "header_value")
  BY <1>2, <1>4, <1>5, MarkIs DEF Untouched
<1> HIDE DEF m
<1>7. CallInv(m) /\ m.u = x.u /\ m.p = n.p /\ DOMAIN m = DOMAIN x /\ SameByte(x, m)
      /\ m.run = 0 /\ m.ret = -1 /\ m.failed = FALSE /\ m.again = FALSE
      /\ (\A k \in P!MarkKinds \ {"header_value"} : m.mark[k] = 0)
      /\ m.mark \in [P!MarkKinds -> Nat]
  BY <1>4, <1>5, <1>6 DEF Marked, Untouched, Kept, Frame, AtByte, CallInv, SameByte
<1>8. Untouched(m, y) /\ y.p = [m.p EXCEPT !.state = s] /\ CallInv(y)
  BY <1>7, GotoIs
<1> HIDE DEF y
<1>9. y.p.http_errno = "OK" /\ y.i - 1 \in 0..Len(y.data) /\ ParserInv(m.p)
  BY <1>4, <1>7, <1>8 DEF ParserInv, IsParser, CallInv
<1>10. HandedOver(y, d, "header_value")
  BY <1>2, <1>7, <1>8, <1>9, DataIs DEF Untouched
<1> HIDE DEF d
<1>11. DOMAIN d = DOMAIN x /\ SameByte(x, d) /\ d.run = 0 /\ d.ret = -1 /\ d.failed = FALSE
       /\ ConnInv(d.u) /\ d.p = [m.p EXCEPT !.state = s]
       /\ d.mark \in [P!MarkKinds -> Nat] /\ \A k \in P!MarkKinds : d.mark[k] = 0
  BY <1>7, <1>8, <1>10 DEF HandedOver, Untouched, Kept, Frame, SameByte
<1>12. Between(d.p, d.u) /\ d.p.state = s
  <2>1. Between(d.p, d.u)
    BY <1>2, <1>9, <1>11, PlainGoto
  <2> QED
    BY <1>9, <1>11, <2>1 DEF ParserInv, IsParser
<1>13. DOMAIN r = DOMAIN x /\ SameByte(x, r) /\ r.run = 0 /\ r.ret = -1 /\ r.failed = FALSE
       /\ r.again = TRUE /\ r.u = d.u /\ r.mark = d.mark /\ r.p = [d.p EXCEPT !.state = s]
  BY <1>11 DEF P!Reexecute, SameByte, AtByte, CallInv
<1> HIDE DEF r
<1>14. r.p.state = s /\ Between(r.p, r.u)
  <2>1. ParserInv(d.p)
    BY <1>12 DEF Between
  <2>2. Between(r.p, r.u)
    BY <1>2, <1>13, <2>1, PlainGoto
  <2> QED
    BY <1>13, <2>1, <2>2 DEF ParserInv, IsParser
<1>15. MarksInv(r) /\ RunInv(r)
  BY <1>11, <1>13, <1>14, NoMark DEF RunInv
<1>16. Looked(x, r)
  BY <1>2, <1>11, <1>13, <1>14, <1>15, GoesOnMarked
<1> QED
  BY <1>1, <1>3, <1>16

-----------------------------------------------------------------------------
(***************************************************************************)
(* The end of the headers, and bodies.                                     *)
(***************************************************************************)
\* A kind of text that may be marked is handed over by a call whose parser is
\* in order, and the byte done with, or looked at again.
LEMMA HandOnFrom ==
    ASSUME NEW x, AtByte(x), NEW y, CallInv(y), SameByte(x, y), y.ret = -1, y.run = 0,
           y.again = FALSE, Between(y.p, y.u),
           y.p.state \notin {"s_header_field", "s_chunk_size_start"},
           y.mark \in [P!MarkKinds -> Nat], NEW kind \in P!MarkKinds,
           \A k \in P!MarkKinds \ {kind} : y.mark[k] = 0,
           kind = "header_value" => HasHeaders(y.u), NEW last \in 0..Len(y.data), NEW er
    PROVE  /\ Looked(x, P!CALLBACK_DATA_(y, kind, last, er))
           /\ Rank(y.p.state) < Rank(x.p.state) =>
                Looked(x, P!Reexecute(P!CALLBACK_DATA_(y, kind, last, er), y.p.state))
<1> DEFINE d == P!CALLBACK_DATA_(y, kind, last, er)
           r == P!Reexecute(d, y.p.state)
<1>1. HandedOver(y, d, kind)
  BY DataIs DEF Between, ParserInv
<1> HIDE DEF d
<1>2. DOMAIN d = DOMAIN x /\ SameByte(x, d) /\ d.run = 0 /\ d.ret = -1 /\ d.failed = FALSE
      /\ d.again = FALSE /\ ConnInv(d.u) /\ d.p = y.p
      /\ d.mark \in [P!MarkKinds -> Nat] /\ \A k \in P!MarkKinds : d.mark[k] = 0
  BY <1>1 DEF HandedOver, Kept, Frame, SameByte, CallInv, AtByte
<1>3. Between(d.p, d.u)
  BY <1>1, <1>2 DEF Between, Named, HandedOver
<1>4. MarksInv(d) /\ RunInv(d)
  BY <1>2, NoMark DEF RunInv
<1>5. Looked(x, d)
  BY <1>2, <1>3, <1>4, GoesOnMarked
<1>6. DOMAIN r = DOMAIN d /\ SameByte(x, r) /\ r.run = 0 /\ r.ret = -1 /\ r.failed = FALSE
      /\ r.again = TRUE /\ r.u = d.u /\ r.mark = d.mark /\ Alike(d.p, r.p)
  BY <1>2, <1>3 DEF P!Reexecute, SameByte, AtByte, CallInv, Alike, Between, ParserInv, IsParser
<1> HIDE DEF r
<1>7. Between(r.p, r.u)
  <2>1. ParserInv(r.p)
    BY <1>3, <1>6, AlikeKeeps DEF Between
  <2> QED
    BY <1>2, <1>3, <1>6, <2>1 DEF Between, Named, Alike
<1>8. MarksInv(r) /\ RunInv(r) /\ r.p.state = y.p.state
  BY <1>2, <1>6, NoMark DEF RunInv, Alike
<1>9. Rank(y.p.state) < Rank(x.p.state) => Looked(x, r)
  BY <1>2, <1>6, <1>7, <1>8, GoesOnMarked
<1> QED
  BY <1>5, <1>9 DEF d, r

LEMMA AlmostDoneLooks ==
    ASSUME NEW x, AtByte(x), NEW ch, x.p.state = "s_headers_almost_done"
    PROVE  Looked(x, P!HeadersAlmostDone(x, ch))
<1> DEFINE s == "s_message_done"
           z == P!Goto(x, s)
           y == P!CALLBACK_NOTIFY_(z, "chunk_complete", z.i - 1)
           r == P!Reexecute(y, s)
           up == IF {"UPGRADE", "CONNECTION_UPGRADE"} \subseteq x.p.flags
                 THEN x.p.type = P!HTTP_REQUEST \/ x.p.status_code = 101
                 ELSE x.p.method = "CONNECT"
           u == [x EXCEPT !.p.upgrade = up]
<1>1. P!HeadersAlmostDone(x, ch) \in
        { P!Fail(x, "STRICT"), P!Fail(x, "UNEXPECTED_CONTENT_LENGTH"), r,
          P!Reexecute(u, "s_headers_done") }
  BY Zenon DEF P!HeadersAlmostDone, P!CALLBACK_NOTIFY_NOADVANCE
<1> HIDE DEF up
<1>2. x.p.state \notin MarkingStates /\ s \in PlainStates /\ "s_headers_done" \in PlainStates
      /\ s \notin AfterName /\ "s_headers_done" \notin AfterName
      /\ Rank(s) < Rank(x.p.state) /\ Rank("s_headers_done") < Rank(x.p.state)
  BY DEF AfterName, MarkingStates, PlainStates, HeaderLineStates, Rank
<1>3. Looked(x, P!Fail(x, "STRICT")) /\ Looked(x, P!Fail(x, "UNEXPECTED_CONTENT_LENGTH"))
  BY FailHere
<1>4. Looked(x, P!Reexecute(u, "s_headers_done"))
  <2>1. Untouched(x, u) /\ CallInv(u) /\ Alike(x.p, u.p)
    BY DEF Untouched, Kept, Frame, Alike, AtByte, CallInv, IsParser
  <2> HIDE DEF u
  <2>2. ParserInv(u.p)
    BY <2>1, AlikeKeeps DEF AtByte, Going
  <2> QED
    BY <1>2, <2>1, <2>2, ReexecutePlain
<1>5. Looked(x, r)
  <2>1. Untouched(x, z) /\ z.p = [x.p EXCEPT !.state = s] /\ CallInv(z)
    BY GotoIs DEF AtByte
  <2> HIDE DEF z
  <2>2. z.p.http_errno = "OK" /\ ParserInv(x.p)
    BY <2>1 DEF AtByte, Going, ParserInv, IsParser
  <2>3. Notified(z, y, "chunk_complete")
    BY <2>1, <2>2, NotifyIs
  <2> HIDE DEF y
  <2>4. Frame(x, y) /\ y.mark = x.mark /\ ConnInv(y.u) /\ y.p = [x.p EXCEPT !.state = s]
    BY <2>1, <2>3 DEF Notified, Untouched, Kept, Frame
  <2>5. Between(y.p, y.u)
    BY <1>2, <2>2, <2>4, PlainGoto
  <2>6. Frame(x, r) /\ r.mark = x.mark /\ r.u = y.u /\ r.again = TRUE
        /\ r.p = [y.p EXCEPT !.state = s]
    BY <2>4 DEF P!Reexecute, Frame, AtByte, CallInv
  <2> HIDE DEF r
  <2>7. Between(r.p, r.u) /\ r.p.state = s
    <3>1. Between(r.p, r.u)
      BY <1>2, <2>5, <2>6, PlainGoto DEF Between
    <3> QED
      BY <2>5, <2>6, <3>1 DEF Between, ParserInv, IsParser
  <2> QED
    BY <1>2, <2>4, <2>6, <2>7, GoesOn
<1> HIDE DEF r, u
<1> QED
  BY <1>1, <1>3, <1>4, <1>5

\* The end of a message, in a state without a mark.
LEMMA EndLooks ==
    ASSUME NEW x, AtByte(x), x.p.state \notin MarkingStates, NEW z, Untouched(x, z), CallInv(z),
           ParserInv(z.p)
    PROVE  LET y == P!MessageComplete(z)
           IN  y.ret = -1 /\ Looked(x, y) /\ Looked(x, P!Return(y, y.i))
<1> DEFINE y == P!MessageComplete(z)
           r == P!Return(y, y.i)
<1>1. /\ Kept(z, y) /\ y.mark = z.mark /\ ConnInv(y.u) /\ Between(y.p, y.u)
      /\ y.p.state \in {"s_start_res", "s_dead"}
  BY CompleteIs
<1> HIDE DEF y
<1>2. Frame(x, y) /\ y.mark = x.mark /\ y.again = FALSE /\ y.ret = -1
  BY <1>1 DEF Untouched, Kept, Frame, AtByte
<1>3. Looked(x, y)
  BY <1>1, <1>2, GoesOn
<1>4. DOMAIN r = DOMAIN x /\ SameByte(x, r) /\ r.ret = y.i /\ r.failed = FALSE
      /\ r.u = y.u /\ r.p = y.p
  BY <1>2 DEF P!Return, Frame, AtByte, CallInv, SameByte
<1> HIDE DEF r
<1>5. y.i # -1
  BY <1>2 DEF Frame, AtByte, CallInv
<1>6. CallInv(r) /\ Stopped(r)
  BY <1>1, <1>4, <1>5 DEF AtByte, CallInv, SameByte, Stopped, Between, ParserInv
<1>7. Looked(x, r)
  BY <1>4, <1>6 DEF Looked
<1> QED
  BY <1>2, <1>3, <1>7 DEF y, r

LEMMA MessageDoneLooks ==
    ASSUME NEW x, AtByte(x), x.p.state = "s_message_done"
    PROVE  Looked(x, P!MessageDone(x))
<1>1. Untouched(x, x) /\ CallInv(x) /\ ParserInv(x.p) /\ x.p.state \notin MarkingStates
  BY DEF Untouched, Kept, Frame, AtByte, Going, MarkingStates
<1>2. Looked(x, P!MessageComplete(x))
      /\ Looked(x, P!Return(P!MessageComplete(x), P!MessageComplete(x).i))
  BY <1>1, EndLooks
<1> QED
  BY <1>2, Zenon DEF P!MessageDone

LEMMA HeadersDoneLooks ==
    ASSUME NEW x, AtByte(x), NEW ch, x.p.state = "s_headers_done"
    PROVE  Looked(x, P!HeadersDone(x, ch))
<1> DEFINE y == P!HeadersRead(x)
           done == P!MessageComplete(y)
           chunked == P!Goto(y, "s_chunk_size_start")
           body == P!Goto(y, "s_body_identity")
           eof == P!Goto(y, "s_body_identity_eof")
           length == x.p.content_length
<1>1. \/ P!HeadersDone(x, ch) \in
           { P!Fail(x, "STRICT"), done, eof,
             IF done.ret = -1 THEN P!Return(done, done.i) ELSE done }
      \/ P!HeadersDone(x, ch) = chunked /\ "CHUNKED" \in x.p.flags
      \/ P!HeadersDone(x, ch) = body /\ length # 0 /\ length # UllongMax
  BY Zenon DEF P!HeadersDone
<1>2. Untouched(x, y) /\ CallInv(y) /\ Alike(x.p, y.p) /\ y.p.nread = 0
  BY DEF P!HeadersRead, Untouched, Kept, Frame, Alike, AtByte, CallInv, IsParser
<1> HIDE DEF y
<1>3. ParserInv(x.p) /\ ParserInv(y.p) /\ x.p.state \notin MarkingStates
  BY <1>2, AlikeKeeps DEF AtByte, Going, MarkingStates
<1>4. Looked(x, done) /\ Looked(x, P!Return(done, done.i))
  BY <1>2, <1>3, EndLooks
<1>5. Looked(x, eof)
  BY <1>2, <1>3, ChangeGotoPlain DEF PlainStates, AfterName
<1>6. ASSUME "CHUNKED" \in x.p.flags PROVE Looked(x, chunked)
  <2>1. Untouched(y, chunked) /\ chunked.p = [y.p EXCEPT !.state = "s_chunk_size_start"]
    BY <1>2, GotoIs
  <2> HIDE DEF chunked
  <2>2. IsParser(chunked.p) /\ chunked.p.type = y.p.type /\ chunked.p.nread = 0
        /\ chunked.p.http_errno = y.p.http_errno /\ chunked.p.flags = y.p.flags
        /\ chunked.p.content_length = y.p.content_length
        /\ chunked.p.state = "s_chunk_size_start"
    BY <1>2, <1>3, <2>1 DEF ParserInv, IsParser
  <2>3. LengthInv(chunked.p)
    BY <1>3, <2>2 DEF LengthInv, ParserInv, SizeStates, CountedStates
  <2>4. "s_chunk_size_start" \in StatesOf(HTTP_RESPONSE) /\ "s_chunk_size_start" \notin AfterName
    BY DEF StatesOf, ChunkLineStates, AfterName
  <2>5. Between(chunked.p, x.u)
    BY <1>2, <1>3, <1>6, <2>2, <2>3, <2>4 DEF Between, ParserInv, Named, Alike
  <2>6. Untouched(x, chunked)
    BY <1>2, <2>1 DEF Untouched, Kept, Frame
  <2> QED
    BY <1>3, <2>2, <2>5, <2>6, ChangeGoesOn
<1>7. ASSUME length # 0, length # UllongMax PROVE Looked(x, body)
  <2>1. Untouched(y, body) /\ body.p = [y.p EXCEPT !.state = "s_body_identity"]
    BY <1>2, GotoIs
  <2> HIDE DEF body
  <2>2. IsParser(body.p) /\ body.p.type = y.p.type
        /\ body.p.http_errno = y.p.http_errno /\ body.p.flags = y.p.flags
        /\ body.p.content_length = length /\ body.p.state = "s_body_identity"
    BY <1>2, <1>3, <2>1 DEF ParserInv, IsParser, Alike
  <2>3. length \in 1..(UllongMax - 1)
    BY <1>3, <1>7, HttpMessageAssumption DEF ParserInv, LengthInv
  <2>4. LengthInv(body.p)
    BY <2>2, <2>3, HttpMessageAssumption DEF LengthInv, SizeStates, CountedStates
  <2>5. "s_body_identity" \in StatesOf(HTTP_RESPONSE)
        /\ "s_body_identity" \notin AfterName \cup P!ChunkStates
    BY DEF StatesOf, BodyStates, AfterName, P!ChunkStates, P!ChunkLineStates
  <2>6. Between(body.p, x.u)
    BY <1>3, <2>2, <2>4, <2>5 DEF Between, ParserInv, Named
  <2>7. Untouched(x, body)
    BY <1>2, <2>1 DEF Untouched, Kept, Frame
  <2> QED
    BY <1>3, <2>2, <2>6, <2>7, ChangeGoesOn
<1>8. Looked(x, P!Fail(x, "STRICT"))
  BY FailHere
<1> HIDE DEF done, chunked, body, eof
<1> QED
  BY <1>1, <1>4, <1>5, <1>6, <1>7, <1>8

\* An assertion that holds changes nothing.
LEMMA AssertIs ==
    ASSUME NEW x, CallInv(x), NEW cond, cond
    PROVE  LET a == P!assert(x, cond)
           IN  Untouched(x, a) /\ a.p = x.p /\ CallInv(a)
<1> DEFINE a == P!assert(x, cond)
<1>1. Untouched(x, a) /\ a.p = x.p
  BY DEF P!assert, Untouched, Kept, Frame, CallInv
<1> HIDE DEF a
<1> QED
  BY <1>1 DEF Untouched, Kept, Frame, CallInv, a

\* One byte of a body of known length, or of a chunk.
LEMMA BodyByteIs ==
    ASSUME NEW x, AtByte(x), x.p.state \in CountedStates
    PROVE  LET y == P!OneByteLess(P!MARK(P!assert(x, P!LengthKnown(x.p)), "body"))
           IN  /\ DOMAIN y = DOMAIN x /\ SameByte(x, y) /\ y.ret = -1 /\ y.failed = FALSE
               /\ y.again = FALSE /\ y.run = 0 /\ y.u = x.u /\ CallInv(y) /\ IsParser(y.p)
               /\ y.mark \in [P!MarkKinds -> Nat]
               /\ \A k \in P!MarkKinds \ {"body"} : y.mark[k] = 0
               /\ y.p.type = x.p.type /\ y.p.http_errno = x.p.http_errno
               /\ y.p.state = x.p.state /\ y.p.flags = x.p.flags
               /\ y.p.content_length = x.p.content_length - 1
               /\ x.p.content_length \in 1..(UllongMax - 1)
<1> DEFINE a == P!assert(x, P!LengthKnown(x.p))
           m == P!MARK(a, "body")
           y == P!OneByteLess(m)
<1>1. x.p.content_length \in 1..(UllongMax - 1)
  BY DEF AtByte, Going, ParserInv, LengthInv
<1>2. P!LengthKnown(x.p)
  BY <1>1, HttpMessageAssumption DEF P!LengthKnown
<1>3. Untouched(x, a) /\ a.p = x.p /\ CallInv(a)
  BY <1>2, AssertIs DEF AtByte
<1> HIDE DEF a
<1>4. "body" \in P!MarkKinds /\ a.mark \in [P!MarkKinds -> Nat]
      /\ x.p.state \in MarkStates["body"]
  BY <1>3 DEF P!MarkKinds, Untouched, AtByte, Going, MarksInv, CountedStates, MarkStates
<1>5. Marked(a, m, "body")
  BY <1>3, <1>4, MarkIs
<1> HIDE DEF m
<1>6. x.run = 0 /\ \A k \in P!MarkKinds \ {"body"} : x.mark[k] = 0
  <2>1. \A k \in P!MarkKinds \ {"body"} : x.mark[k] = 0
    BY <1>4, OthersUnmarked DEF AtByte, Going
  <2> QED
    BY <2>1 DEF AtByte, Going, RunInv, CountedStates
<1>7. DOMAIN m = DOMAIN x /\ SameByte(x, m) /\ m.ret = -1 /\ m.failed = FALSE
      /\ m.again = FALSE /\ m.run = 0 /\ m.u = x.u /\ m.p = x.p /\ CallInv(m)
      /\ m.mark \in [P!MarkKinds -> Nat] /\ \A k \in P!MarkKinds \ {"body"} : m.mark[k] = 0
  BY <1>3, <1>5, <1>6 DEF Marked, Untouched, Kept, Frame, SameByte, AtByte, CallInv
<1>8. DOMAIN y = DOMAIN m /\ y.data = m.data /\ y.i = m.i /\ y.ret = m.ret
      /\ y.failed = m.failed /\ y.again = m.again /\ y.run = m.run /\ y.u = m.u
      /\ y.mark = m.mark /\ IsParser(y.p) /\ y.p.type = m.p.type
      /\ y.p.http_errno = m.p.http_errno /\ y.p.state = m.p.state
      /\ y.p.flags = m.p.flags /\ y.p.content_length = m.p.content_length - 1
  BY <1>7 DEF P!OneByteLess, CallInv, IsParser
<1> HIDE DEF y
<1>9. CallInv(y) /\ SameByte(x, y)
  BY <1>7, <1>8 DEF CallInv, SameByte
<1> QED
  BY <1>1, <1>7, <1>8, <1>9 DEF y, m, a

LEMMA BodyIdentityLooks ==
    ASSUME NEW x, AtByte(x), x.p.state = "s_body_identity"
    PROVE  Looked(x, P!BodyIdentity(x))
<1> DEFINE y == P!OneByteLess(P!MARK(P!assert(x, P!LengthKnown(x.p)), "body"))
           g == P!Goto(y, "s_message_done")
           r == P!Reexecute(P!CALLBACK_DATA_(g, "body", y.i, y.i - 1), "s_message_done")
<1>1. P!BodyIdentity(x) = IF y.p.content_length # 0 THEN y ELSE r
  BY Zenon DEF P!BodyIdentity
<1>2. x.p.state \in CountedStates /\ x.p.state \in MarkStates["body"]
      /\ "body" \in P!MarkKinds
  BY DEF CountedStates, MarkStates, P!MarkKinds
<1>3. /\ DOMAIN y = DOMAIN x /\ SameByte(x, y) /\ y.ret = -1 /\ y.failed = FALSE
      /\ y.again = FALSE /\ y.run = 0 /\ y.u = x.u /\ CallInv(y) /\ IsParser(y.p)
      /\ y.mark \in [P!MarkKinds -> Nat]
      /\ \A k \in P!MarkKinds \ {"body"} : y.mark[k] = 0
      /\ y.p.type = x.p.type /\ y.p.http_errno = x.p.http_errno
      /\ y.p.state = x.p.state /\ y.p.flags = x.p.flags
      /\ y.p.content_length = x.p.content_length - 1
      /\ x.p.content_length \in 1..(UllongMax - 1)
  BY <1>2, BodyByteIs
<1> HIDE DEF y
<1>4. ASSUME y.p.content_length # 0 PROVE Looked(x, y)
  <2>1. LengthInv(y.p)
    BY <1>3, <1>4, HttpMessageAssumption DEF LengthInv, SizeStates
  <2>2. Between(y.p, y.u)
    BY <1>3, <2>1 DEF Between, ParserInv, Named, AfterName, AtByte, Going, P!ChunkStates,
                      P!ChunkLineStates
  <2>3. MarksInv(y) /\ RunInv(y)
    BY <1>2, <1>3, OneMark DEF RunInv
  <2> QED
    BY <1>3, <2>2, <2>3, GoesOnMarked DEF AtByte, CallInv
<1>5. Looked(x, r)
  <2>1. Untouched(y, g) /\ g.p = [y.p EXCEPT !.state = "s_message_done"] /\ CallInv(g)
    BY <1>3, GotoIs
  <2> HIDE DEF g
  <2>2. IsParser(g.p) /\ g.p.type = x.p.type /\ g.p.http_errno = x.p.http_errno
        /\ g.p.state = "s_message_done" /\ g.p.content_length = x.p.content_length - 1
    BY <1>3, <2>1 DEF IsParser
  <2>3. LengthInv(g.p)
    BY <1>3, <2>2, HttpMessageAssumption DEF LengthInv, SizeStates, CountedStates
  <2>4. "s_message_done" \in StatesOf(HTTP_RESPONSE)
        /\ "s_message_done" \notin AfterName \cup P!ChunkStates
    BY DEF StatesOf, BodyStates, AfterName, P!ChunkStates, P!ChunkLineStates
  <2>5. Between(g.p, g.u)
    BY <2>2, <2>3, <2>4 DEF Between, ParserInv, Named, AtByte, Going
  <2>6. SameByte(x, g) /\ g.ret = -1 /\ g.run = 0 /\ g.again = FALSE
        /\ g.mark \in [P!MarkKinds -> Nat] /\ \A k \in P!MarkKinds \ {"body"} : g.mark[k] = 0
    BY <1>3, <2>1 DEF Untouched, Kept, Frame, SameByte
  <2>7. y.i \in 0..Len(g.data) /\ Rank("s_message_done") < Rank(x.p.state)
    BY <1>3, <2>1 DEF Untouched, Kept, Frame, SameByte, AtByte, CallInv, Rank
  <2> QED
    BY <1>2, <2>1, <2>2, <2>5, <2>6, <2>7, HandOnFrom
<1> HIDE DEF r
<1> QED
  BY <1>1, <1>4, <1>5

LEMMA BodyEofLooks ==
    ASSUME NEW x, AtByte(x), x.p.state = "s_body_identity_eof"
    PROVE  Looked(x, P!MARK(x, "body"))
<1> DEFINE m == P!MARK(x, "body")
<1>1. "body" \in P!MarkKinds /\ x.p.state \in MarkStates["body"]
      /\ x.mark \in [P!MarkKinds -> Nat]
  BY DEF P!MarkKinds, MarkStates, AtByte, Going, MarksInv
<1>2. Marked(x, m, "body")
  BY <1>1, MarkIs DEF AtByte
<1> HIDE DEF m
<1>3. \A k \in P!MarkKinds \ {"body"} : m.mark[k] = 0
  BY <1>1, <1>2, OthersUnmarked DEF AtByte, Going, Marked
<1>4. Between(m.p, m.u)
  BY <1>2 DEF Marked, Between, AtByte, Going
<1>5. MarksInv(m) /\ RunInv(m)
  BY <1>1, <1>2, <1>3, OneMark DEF Marked, Kept, Frame, RunInv, AtByte, Going
<1>6. Looked(x, m)
  BY <1>2, <1>4, <1>5, GoesOnMarked DEF Marked, Kept, Frame, AtByte, CallInv, SameByte
<1> QED
  BY <1>6 DEF m

-----------------------------------------------------------------------------
(***************************************************************************)
(* Chunks.                                                                 *)
(***************************************************************************)
\* A parser that is at another place of the same chunk.
InChunk(p, q) ==
    /\ IsParser(q) /\ q.type = p.type /\ q.http_errno = p.http_errno
    /\ p.flags \subseteq q.flags /\ q.state \in P!ChunkStates /\ LengthInv(q)
    /\ q.state = "s_chunk_size_start" => q.nread = 0

LEMMA InChunkKeeps ==
    ASSUME NEW p, ParserInv(p), p.state \in P!ChunkStates, NEW q, InChunk(p, q), NEW u
    PROVE  Between(q, u) /\ q.state # "s_header_field"
<1>1. q.state \in StatesOf(HTTP_RESPONSE) /\ q.state \notin AfterName
      /\ q.state # "s_header_value" /\ q.state # "s_header_field"
  BY DEF InChunk, StatesOf, P!ChunkStates, P!ChunkLineStates, ChunkLineStates, BodyStates,
         AfterName
<1> QED
  BY <1>1 DEF InChunk, Between, ParserInv, Named

LEMMA ChunkGoesOn ==
    ASSUME NEW x, AtByte(x), x.p.state \in P!ChunkStates \ MarkingStates, NEW z,
           Untouched(x, z), InChunk(x.p, z.p)
    PROVE  Looked(x, z)
<1>1. Between(z.p, x.u) /\ z.p.state # "s_header_field"
  BY InChunkKeeps DEF AtByte, Going
<1> QED
  BY <1>1, ChangeGoesOn

LEMMA ChunkGoto ==
    ASSUME NEW x, AtByte(x), x.p.state \in P!ChunkStates \ MarkingStates, NEW z,
           Untouched(x, z), CallInv(z), z.p.type = x.p.type, z.p.http_errno = x.p.http_errno,
           x.p.flags \subseteq z.p.flags, NEW s \in P!ChunkStates \ {"s_chunk_size_start"},
           z.p.content_length \in 0..UllongMax,
           s \in SizeStates => z.p.content_length < UllongMax,
           s \in CountedStates => z.p.content_length \in 1..(UllongMax - 1),
           s = "s_chunk_data_almost_done" => z.p.content_length = 0
    PROVE  LET g == P!Goto(z, s)
           IN  Untouched(x, g) /\ CallInv(g) /\ InChunk(x.p, g.p) /\ Looked(x, g)
<1> DEFINE g == P!Goto(z, s)
<1>1. Untouched(z, g) /\ g.p = [z.p EXCEPT !.state = s] /\ CallInv(g)
  BY GotoIs
<1> HIDE DEF g
<1>2. IsParser(g.p) /\ g.p.type = z.p.type /\ g.p.http_errno = z.p.http_errno
      /\ g.p.flags = z.p.flags /\ g.p.content_length = z.p.content_length /\ g.p.state = s
  BY <1>1 DEF CallInv, IsParser
<1>3. LengthInv(g.p)
  BY <1>2 DEF LengthInv
<1>4. InChunk(x.p, g.p)
  BY <1>2, <1>3 DEF InChunk
<1>5. Untouched(x, g)
  BY <1>1 DEF Untouched, Kept, Frame
<1> QED
  BY <1>1, <1>4, <1>5, ChunkGoesOn DEF g

LEMMA SizeStartLooks ==
    ASSUME NEW x, AtByte(x), NEW ch, x.p.state = "s_chunk_size_start"
    PROVE  Looked(x, P!ChunkSizeStart(x, ch))
<1> DEFINE y == P!assert(x, x.p.nread = 1)
           z == [y EXCEPT !.p.content_length = P!Unhex[ch]]
<1>1. P!ChunkSizeStart(x, ch) = IF ch \notin P!Hex THEN P!Fail(y, "INVALID_CHUNK_SIZE")
                                ELSE P!Goto(z, "s_chunk_size")
  BY Zenon DEF P!ChunkSizeStart
<1>2. Untouched(x, y) /\ y.p = x.p /\ CallInv(y)
  BY AssertIs DEF AtByte
<1> HIDE DEF y
<1>3. Looked(x, P!Fail(y, "INVALID_CHUNK_SIZE"))
  BY <1>2, FailStops DEF Untouched, Kept, Frame, SameByte
<1>4. ASSUME ch \in P!Hex PROVE Looked(x, P!Goto(z, "s_chunk_size"))
  <2>1. Untouched(x, z) /\ CallInv(z) /\ z.p.type = x.p.type
        /\ z.p.http_errno = x.p.http_errno /\ z.p.flags = x.p.flags
        /\ z.p.content_length = P!Unhex[ch]
    BY <1>2 DEF Untouched, Kept, Frame, CallInv, IsParser
  <2> HIDE DEF z
  <2>2. z.p.content_length \in 0..UllongMax /\ z.p.content_length < UllongMax
    BY <1>4, <2>1, UnhexIs, HttpMessageAssumption
  <2>3. x.p.state \in P!ChunkStates \ MarkingStates
        /\ "s_chunk_size" \in P!ChunkStates \ {"s_chunk_size_start"}
        /\ "s_chunk_size" \notin CountedStates
    BY DEF P!ChunkStates, P!ChunkLineStates, MarkingStates, CountedStates
  <2> QED
    BY <2>1, <2>2, <2>3, ChunkGoto
<1> HIDE DEF z
<1> QED
  BY <1>1, <1>3, <1>4

\* A digit of a chunk size: the test is made before, so that nothing is cut off
\* and ULLONG_MAX is not reached.
LEMMA SizeDigit ==
    ASSUME NEW length \in 0..UllongMax, NEW digit \in 0..15,
           ~((UllongMax - 16) \div 16 < length)
    PROVE  (length * 16 + digit) % (UllongMax + 1) = length * 16 + digit
           /\ length * 16 + digit \in 0..(UllongMax - 1)
<1> DEFINE k == (UllongMax - 16) \div 16
           r == (UllongMax - 16) % 16
           n == length * 16 + digit
           m == UllongMax + 1
<1>1. UllongMax \in Nat /\ UllongMax - 16 \in Nat /\ length \in Nat
  BY HttpMessageAssumption
<1>2. k \in Int /\ r \in 0..15 /\ UllongMax - 16 = 16 * k + r
  BY <1>1
<1>3. length <= k
  BY <1>1, <1>2
<1> HIDE DEF k, r
<1>4. n \in 0..(UllongMax - 1)
  BY <1>1, <1>2, <1>3
<1>5. n \in Nat /\ m \in Nat /\ n < m
  BY <1>1, <1>4
<1> HIDE DEF n, m
<1>6. n % m = n
  BY <1>5
<1> QED
  BY <1>4, <1>6 DEF n, m

LEMMA SizeLooks ==
    ASSUME NEW x, AtByte(x), NEW ch, x.p.state \in {"s_chunk_size", "s_chunk_parameters"}
    PROVE  /\ x.p.state = "s_chunk_size" => Looked(x, P!ChunkSize(x, ch))
           /\ x.p.state = "s_chunk_parameters" => Looked(x, P!ChunkParameters(x, ch))
<1> DEFINE digit == P!AddDigit(x, 16, P!Unhex[ch], "INVALID_CONTENT_LENGTH")
<1>1. Untouched(x, x) /\ CallInv(x) /\ x.p.content_length \in 0..UllongMax
      /\ x.p.content_length < UllongMax /\ IsParser(x.p)
  BY DEF Untouched, Kept, Frame, AtByte, Going, ParserInv, LengthInv, SizeStates
<1>2. x.p.state \in P!ChunkStates \ MarkingStates
      /\ {"s_chunk_size_almost_done", "s_chunk_parameters"}
           \subseteq P!ChunkStates \ {"s_chunk_size_start"}
      /\ "s_chunk_size_almost_done" \notin CountedStates
      /\ "s_chunk_parameters" \notin CountedStates
  BY DEF P!ChunkStates, P!ChunkLineStates, MarkingStates, CountedStates
<1>3. Looked(x, P!Goto(x, "s_chunk_size_almost_done"))
  BY <1>1, <1>2, ChunkGoto
<1>4. Looked(x, P!Goto(x, "s_chunk_parameters"))
  BY <1>1, <1>2, ChunkGoto
<1>5. Looked(x, x) /\ Looked(x, P!Fail(x, "INVALID_CHUNK_SIZE"))
      /\ Looked(x, P!Fail(x, "INVALID_CONTENT_LENGTH"))
  BY StaysOn, FailHere
<1>6. ASSUME ch \in P!Hex, x.p.state = "s_chunk_size" PROVE Looked(x, digit)
  <2> DEFINE t == (x.p.content_length * 16 + P!Unhex[ch]) % (UllongMax + 1)
             y == [x EXCEPT !.p.content_length = t]
  <2>1. digit = IF (UllongMax - 16) \div 16 < x.p.content_length
                THEN P!Fail(x, "INVALID_CONTENT_LENGTH") ELSE y
    BY DEF P!AddDigit
  <2>2. P!Unhex[ch] \in 0..15
    BY <1>6, UnhexIs
  <2>3. ASSUME ~((UllongMax - 16) \div 16 < x.p.content_length)
        PROVE  t \in 0..UllongMax /\ t < UllongMax
    <3>1. t = x.p.content_length * 16 + P!Unhex[ch]
          /\ x.p.content_length * 16 + P!Unhex[ch] \in 0..(UllongMax - 1)
      BY <1>1, <2>2, <2>3, SizeDigit
    <3> HIDE DEF t
    <3> QED
      BY <3>1, HttpMessageAssumption
  <2> HIDE DEF t
  <2>4. ASSUME t \in 0..UllongMax, t < UllongMax PROVE Looked(x, y)
    <3>1. Untouched(x, y) /\ IsParser(y.p) /\ y.p.type = x.p.type /\ y.p.flags = x.p.flags
          /\ y.p.http_errno = x.p.http_errno /\ y.p.state = x.p.state
          /\ y.p.content_length = t
      BY <1>1 DEF Untouched, Kept, Frame, CallInv, IsParser
    <3> HIDE DEF y
    <3>2. LengthInv(y.p)
      BY <1>6, <2>4, <3>1 DEF LengthInv, CountedStates
    <3>3. InChunk(x.p, y.p)
      BY <1>2, <1>6, <3>1, <3>2 DEF InChunk
    <3> QED
      BY <1>2, <3>1, <3>3, ChunkGoesOn
  <2> HIDE DEF y
  <2> QED
    BY <1>5, <2>1, <2>3, <2>4
<1>7. x.p.state = "s_chunk_size" => Looked(x, P!ChunkSize(x, ch))
  BY <1>3, <1>4, <1>5, <1>6, Zenon DEF P!ChunkSize
<1>8. x.p.state = "s_chunk_parameters" => Looked(x, P!ChunkParameters(x, ch))
  BY <1>3, <1>5, Zenon DEF P!ChunkParameters
<1> QED
  BY <1>7, <1>8

LEMMA SizeAlmostDoneLooks ==
    ASSUME NEW x, AtByte(x), NEW ch, x.p.state = "s_chunk_size_almost_done"
    PROVE  Looked(x, P!ChunkSizeAlmostDone(x, ch))
<1> DEFINE y == [x EXCEPT !.p.nread = 0]
           f == P!Flag(y, "TRAILING")
           last == P!Goto(f, "s_header_field_start")
           data == P!Goto(y, "s_chunk_data")
           z == IF x.p.content_length = 0 THEN last ELSE data
<1>1. P!ChunkSizeAlmostDone(x, ch) = IF ch # "\n" THEN P!Fail(x, "STRICT")
                                     ELSE P!CALLBACK_NOTIFY_(z, "chunk_header", z.i)
  BY Zenon DEF P!ChunkSizeAlmostDone, P!CALLBACK_NOTIFY
<1>2. Untouched(x, y) /\ CallInv(y) /\ Alike(x.p, y.p)
  BY DEF Untouched, Kept, Frame, Alike, AtByte, CallInv, IsParser
<1> HIDE DEF y
<1>3. x.p.state \in P!ChunkStates \ MarkingStates /\ x.p.state \notin MarkingStates
      /\ ParserInv(x.p) /\ x.p.content_length \in 0..UllongMax
      /\ x.p.content_length < UllongMax
  BY DEF P!ChunkStates, P!ChunkLineStates, MarkingStates, AtByte, Going, ParserInv,
         LengthInv, SizeStates
<1>4. CASE x.p.content_length = 0
  <2>1. Untouched(x, f) /\ CallInv(f) /\ IsParser(f.p) /\ f.p.type = y.p.type
        /\ f.p.http_errno = y.p.http_errno /\ f.p.state = y.p.state
        /\ f.p.content_length = y.p.content_length /\ y.p.flags \subseteq f.p.flags
    BY <1>2 DEF P!Flag, Untouched, Kept, Frame, CallInv, IsParser
  <2> HIDE DEF f
  <2>2. ParserInv(f.p)
    <3>1. ParserInv(y.p) /\ y.p.state = "s_chunk_size_almost_done"
      BY <1>2, <1>3, AlikeKeeps DEF Alike
    <3> QED
      BY <2>1, <3>1 DEF ParserInv, LengthInv
  <2>3. Untouched(f, last) /\ last.p = [f.p EXCEPT !.state = "s_header_field_start"]
        /\ CallInv(last)
    BY <2>1, GotoIs
  <2> HIDE DEF last
  <2>4. "s_header_field_start" \in PlainStates /\ "s_header_field_start" \notin AfterName
    BY DEF PlainStates, HeaderLineStates, AfterName
  <2>5. Between(last.p, last.u)
    BY <2>2, <2>3, <2>4, PlainGoto
  <2>6. last.p.state = "s_header_field_start" /\ Untouched(x, last)
    BY <2>1, <2>3 DEF IsParser, Untouched, Kept, Frame
  <2>7. Looked(x, P!CALLBACK_NOTIFY_(last, "chunk_header", last.i))
    BY <1>3, <2>3, <2>5, <2>6, NotifyGoesOn
  <2> QED
    BY <1>1, <1>4, <2>7, FailHere
<1>5. CASE x.p.content_length # 0
  <2>1. "s_chunk_data" \in P!ChunkStates \ {"s_chunk_size_start"}
        /\ "s_chunk_data" \notin SizeStates
    BY DEF P!ChunkStates, P!ChunkLineStates, SizeStates
  <2>2. y.p.content_length \in 1..(UllongMax - 1) /\ y.p.content_length \in 0..UllongMax
    BY <1>2, <1>3, <1>5, HttpMessageAssumption DEF Alike
  <2>3. Untouched(x, data) /\ CallInv(data) /\ InChunk(x.p, data.p)
    <3>1. Untouched(x, y) /\ CallInv(y) /\ y.p.type = x.p.type
          /\ y.p.http_errno = x.p.http_errno /\ x.p.flags \subseteq y.p.flags
      BY <1>2 DEF Alike
    <3> QED
      BY <1>3, <2>1, <2>2, <3>1, ChunkGoto
  <2> HIDE DEF data
  <2>4. Between(data.p, data.u) /\ data.p.state # "s_header_field"
    BY <1>3, <2>3, InChunkKeeps
  <2>5. Looked(x, P!CALLBACK_NOTIFY_(data, "chunk_header", data.i))
    BY <1>3, <2>3, <2>4, NotifyGoesOn
  <2> QED
    BY <1>1, <1>5, <2>5, FailHere
<1> QED
  BY <1>4, <1>5

LEMMA DataLooks ==
    ASSUME NEW x, AtByte(x), x.p.state = "s_chunk_data"
    PROVE  Looked(x, P!ChunkData(x))
<1> DEFINE y == P!OneByteLess(P!MARK(P!assert(x, P!LengthKnown(x.p)), "body"))
           g == P!Goto(y, "s_chunk_data_almost_done")
<1>1. P!ChunkData(x) = IF y.p.content_length = 0 THEN g ELSE y
  BY Zenon DEF P!ChunkData
<1>2. x.p.state \in CountedStates /\ "body" \in P!MarkKinds /\ x.p.state \in P!ChunkStates
      /\ ParserInv(x.p)
  BY DEF CountedStates, P!MarkKinds, P!ChunkStates, AtByte, Going
<1>3. /\ DOMAIN y = DOMAIN x /\ SameByte(x, y) /\ y.ret = -1 /\ y.failed = FALSE
      /\ y.again = FALSE /\ y.run = 0 /\ y.u = x.u /\ CallInv(y) /\ IsParser(y.p)
      /\ y.mark \in [P!MarkKinds -> Nat]
      /\ \A k \in P!MarkKinds \ {"body"} : y.mark[k] = 0
      /\ y.p.type = x.p.type /\ y.p.http_errno = x.p.http_errno
      /\ y.p.state = x.p.state /\ y.p.flags = x.p.flags
      /\ y.p.content_length = x.p.content_length - 1
      /\ x.p.content_length \in 1..(UllongMax - 1)
  BY <1>2, BodyByteIs
<1> HIDE DEF y
<1>4. Untouched(y, g) /\ g.p = [y.p EXCEPT !.state = "s_chunk_data_almost_done"] /\ CallInv(g)
  BY <1>3, GotoIs
<1> HIDE DEF g
<1>5. ASSUME NEW z \in {y, g}, IsParser(z.p), z.p.type = x.p.type,
             z.p.http_errno = x.p.http_errno, z.p.flags = x.p.flags,
             z.p.state \in {"s_chunk_data", "s_chunk_data_almost_done"}, LengthInv(z.p)
      PROVE  Looked(x, z)
  <2>1. InChunk(x.p, z.p)
    BY <1>5 DEF InChunk, P!ChunkStates
  <2>2. Between(z.p, z.u)
    BY <1>2, <2>1, InChunkKeeps
  <2>3. z.p.state \in MarkStates["body"] /\ z.p.state # "s_header_field"
        /\ z.p.state # "s_chunk_size_start"
    BY <1>5 DEF MarkStates
  <2>4. DOMAIN z = DOMAIN x /\ SameByte(x, z) /\ z.ret = -1 /\ z.failed = FALSE
        /\ z.again = FALSE /\ z.run = 0 /\ z.u = x.u /\ z.mark = y.mark
    <3>1. CASE z = y
      BY <1>3, <3>1
    <3>2. CASE z = g
      BY <1>3, <1>4, <3>2 DEF Untouched, Kept, Frame, SameByte
    <3> QED
      BY <3>1, <3>2
  <2>5. MarksInv(z) /\ RunInv(z) /\ ConnInv(z.u)
    BY <1>2, <1>3, <2>3, <2>4, OneMark DEF RunInv, AtByte, CallInv
  <2> QED
    BY <2>2, <2>3, <2>4, <2>5, GoesOnMarked
<1>6. ASSUME y.p.content_length = 0 PROVE Looked(x, g)
  <2>1. IsParser(g.p) /\ g.p.type = x.p.type /\ g.p.http_errno = x.p.http_errno
        /\ g.p.flags = x.p.flags /\ g.p.state = "s_chunk_data_almost_done"
        /\ g.p.content_length = 0
    BY <1>3, <1>4, <1>6 DEF IsParser
  <2>2. LengthInv(g.p)
    BY <2>1, HttpMessageAssumption DEF LengthInv, SizeStates, CountedStates
  <2> QED
    BY <1>5, <2>1, <2>2
<1>7. ASSUME y.p.content_length # 0 PROVE Looked(x, y)
  <2>1. LengthInv(y.p)
    BY <1>3, <1>7, HttpMessageAssumption DEF LengthInv, SizeStates, CountedStates
  <2> QED
    BY <1>3, <1>5, <2>1
<1> QED
  BY <1>1, <1>6, <1>7

LEMMA DataAlmostDoneLooks ==
    ASSUME NEW x, AtByte(x), NEW ch, x.p.state = "s_chunk_data_almost_done"
    PROVE  Looked(x, P!ChunkDataAlmostDone(x, ch))
<1> DEFINE y == P!assert(x, x.p.content_length = 0)
           g == P!Goto(y, "s_chunk_data_done")
           d == P!CALLBACK_DATA_(g, "body", g.i - 1, g.i)
<1>1. P!ChunkDataAlmostDone(x, ch) = IF ch # "\r" THEN P!Fail(y, "STRICT") ELSE d
  BY Zenon DEF P!ChunkDataAlmostDone, P!CALLBACK_DATA
<1>2. x.p.content_length = 0 /\ ParserInv(x.p) /\ x.p.state \in P!ChunkStates
      /\ "body" \in P!MarkKinds /\ x.p.state \in MarkStates["body"]
      /\ x.mark \in [P!MarkKinds -> Nat]
  BY DEF AtByte, Going, MarksInv, ParserInv, LengthInv, P!ChunkStates, P!MarkKinds, MarkStates
<1>3. Untouched(x, y) /\ y.p = x.p /\ CallInv(y)
  BY <1>2, AssertIs DEF AtByte
<1> HIDE DEF y
<1>4. Looked(x, P!Fail(y, "STRICT"))
  BY <1>3, FailStops DEF Untouched, Kept, Frame, SameByte
<1>5. Untouched(y, g) /\ g.p = [y.p EXCEPT !.state = "s_chunk_data_done"] /\ CallInv(g)
  BY <1>3, GotoIs
<1> HIDE DEF g
<1>6. IsParser(g.p) /\ g.p.type = x.p.type /\ g.p.http_errno = x.p.http_errno
      /\ g.p.flags = x.p.flags /\ g.p.state = "s_chunk_data_done" /\ g.p.content_length = 0
  BY <1>2, <1>3, <1>5 DEF ParserInv, IsParser
<1>7. InChunk(x.p, g.p)
  BY <1>6, HttpMessageAssumption
  DEF InChunk, LengthInv, SizeStates, CountedStates, P!ChunkStates
<1>8. Between(g.p, g.u)
  BY <1>2, <1>7, InChunkKeeps
<1>9. \A k \in P!MarkKinds \ {"body"} : x.mark[k] = 0
  BY <1>2, OthersUnmarked DEF AtByte, Going
<1>10. SameByte(x, g) /\ g.ret = -1 /\ g.run = 0 /\ g.again = FALSE /\ g.mark = x.mark
       /\ g.i - 1 \in 0..Len(g.data)
  BY <1>3, <1>5 DEF Untouched, Kept, Frame, SameByte, AtByte, Going, RunInv, CallInv
<1>11. Looked(x, d)
  <2> DEFINE last == g.i - 1
  <2>1. CallInv(g) /\ SameByte(x, g) /\ g.ret = -1 /\ g.run = 0 /\ g.again = FALSE
        /\ g.p.state \notin {"s_header_field", "s_chunk_size_start"}
        /\ last \in 0..Len(g.data)
    BY <1>5, <1>6, <1>10
  <2>2. g.mark \in [P!MarkKinds -> Nat] /\ "body" \in P!MarkKinds
        /\ \A k \in P!MarkKinds \ {"body"} : g.mark[k] = 0
    BY <1>2, <1>9, <1>10
  <2> HIDE DEF last
  <2>3. Looked(x, P!CALLBACK_DATA_(g, "body", last, g.i))
    BY <1>8, <2>1, <2>2, HandOnFrom
  <2> QED
    BY <2>3 DEF last
<1> QED
  BY <1>1, <1>4, <1>11

LEMMA DataDoneLooks ==
    ASSUME NEW x, AtByte(x), NEW ch, x.p.state = "s_chunk_data_done"
    PROVE  Looked(x, P!ChunkDataDone(x, ch))
<1> DEFINE y == [x EXCEPT !.p.nread = 0]
           g == P!Goto(y, "s_chunk_size_start")
<1>1. P!ChunkDataDone(x, ch) = IF ch # "\n" THEN P!Fail(x, "STRICT")
                               ELSE P!CALLBACK_NOTIFY_(g, "chunk_complete", g.i)
  BY Zenon DEF P!ChunkDataDone, P!CALLBACK_NOTIFY
<1>2. Untouched(x, y) /\ CallInv(y) /\ Alike(x.p, y.p) /\ y.p.nread = 0
  BY DEF Untouched, Kept, Frame, Alike, AtByte, CallInv, IsParser
<1> HIDE DEF y
<1>3. Untouched(y, g) /\ g.p = [y.p EXCEPT !.state = "s_chunk_size_start"] /\ CallInv(g)
  BY <1>2, GotoIs
<1> HIDE DEF g
<1>4. IsParser(g.p) /\ g.p.type = x.p.type /\ g.p.http_errno = x.p.http_errno
      /\ g.p.flags = x.p.flags /\ g.p.state = "s_chunk_size_start" /\ g.p.nread = 0
      /\ g.p.content_length = x.p.content_length
  BY <1>2, <1>3 DEF IsParser, Alike
<1>5. ParserInv(x.p) /\ x.p.state \in P!ChunkStates /\ x.p.state \notin MarkingStates
      /\ x.p.content_length \in 0..UllongMax
  BY DEF AtByte, Going, ParserInv, LengthInv, P!ChunkStates, MarkingStates
<1>6. LengthInv(g.p)
  BY <1>4, <1>5 DEF LengthInv, SizeStates, CountedStates
<1>7. InChunk(x.p, g.p)
  BY <1>4, <1>6 DEF InChunk, P!ChunkStates, P!ChunkLineStates
<1>8. Between(g.p, g.u) /\ g.p.state # "s_header_field"
  BY <1>5, <1>7, InChunkKeeps
<1>9. Untouched(x, g)
  BY <1>2, <1>3 DEF Untouched, Kept, Frame
<1>10. Looked(x, P!CALLBACK_NOTIFY_(g, "chunk_complete", g.i))
  BY <1>3, <1>5, <1>8, <1>9, NotifyGoesOn
<1> QED
  BY <1>1, <1>10, FailHere

LEMMA ChunkLooks ==
    ASSUME NEW x, AtByte(x), NEW ch, x.p.state \in P!ChunkStates
    PROVE  Looked(x, P!ChunkByte(x, ch))
<1> DEFINE a == P!assert(x, "CHUNKED" \in x.p.flags)
           s == a.p.state
<1>1. "CHUNKED" \in x.p.flags
  BY DEF AtByte, Going, ParserInv
<1>2. Untouched(x, a) /\ a.p = x.p /\ CallInv(a)
  BY <1>1, AssertIs DEF AtByte
<1>3. /\ s = "s_chunk_size_start" => P!ChunkByte(x, ch) = P!ChunkSizeStart(a, ch)
      /\ s = "s_chunk_size" => P!ChunkByte(x, ch) = P!ChunkSize(a, ch)
      /\ s = "s_chunk_parameters" => P!ChunkByte(x, ch) = P!ChunkParameters(a, ch)
      /\ s = "s_chunk_size_almost_done" => P!ChunkByte(x, ch) = P!ChunkSizeAlmostDone(a, ch)
      /\ s = "s_chunk_data" => P!ChunkByte(x, ch) = P!ChunkData(a)
      /\ s = "s_chunk_data_almost_done" => P!ChunkByte(x, ch) = P!ChunkDataAlmostDone(a, ch)
      /\ s = "s_chunk_data_done" => P!ChunkByte(x, ch) = P!ChunkDataDone(a, ch)
  BY DEF P!ChunkByte
<1> HIDE DEF a
<1>4. AtByte(a) /\ \A y : Looked(a, y) => Looked(x, y)
  <2>1. MarksInv(a) /\ RunInv(a)
    BY <1>2 DEF Untouched, Kept, Frame, AtByte, Going, MarksInv, RunInv
  <2>2. AtByte(a)
    BY <1>2, <2>1 DEF Untouched, Kept, Frame, AtByte, Going
  <2> QED
    BY <1>2, <2>2 DEF Looked, Untouched, Kept, Frame, SameByte
<1>5. s \in { "s_chunk_size_start", "s_chunk_size", "s_chunk_parameters",
              "s_chunk_size_almost_done", "s_chunk_data", "s_chunk_data_almost_done",
              "s_chunk_data_done" }
  BY <1>2 DEF P!ChunkStates, P!ChunkLineStates
<1>6. Looked(a, P!ChunkByte(x, ch))
  BY <1>3, <1>4, <1>5, SizeStartLooks, SizeLooks, SizeAlmostDoneLooks, DataLooks,
     DataAlmostDoneLooks, DataDoneLooks
<1> QED
  BY <1>4, <1>6

-----------------------------------------------------------------------------
(***************************************************************************)
(* The loop.                                                               *)
(***************************************************************************)
LEMMA DispatchLooks ==
    ASSUME NEW x, AtByte(x)
    PROVE  Looked(x, P!Dispatch(x))
<1> DEFINE ch == P!At(x.data, x.i)
           s == x.p.state
<1>1. s \in StatesOf(HTTP_RESPONSE)
  BY DEF AtByte, Going, ParserInv
<1>2. s \in { "s_dead", "s_start_res", "s_res_H", "s_res_HT", "s_res_HTT", "s_res_HTTP",
              "s_res_http_major", "s_res_http_dot", "s_res_http_minor", "s_res_http_end",
              "s_res_first_status_code", "s_res_status_code", "s_res_status_start",
              "s_res_status", "s_res_line_almost_done", "s_header_field_start",
              "s_header_field", "s_header_value_discard_ws",
              "s_header_value_discard_ws_almost_done", "s_header_value_discard_lws",
              "s_header_value_start", "s_header_value", "s_header_value_lws",
              "s_header_almost_done", "s_headers_almost_done", "s_headers_done",
              "s_body_identity", "s_body_identity_eof", "s_message_done" }
      \/ s \in P!ChunkStates
  BY <1>1 DEF StatesOf, HTTP_RESPONSE, HTTP_REQUEST, ResponseLineStates, HeaderLineStates,
              ChunkLineStates, BodyStates, P!ChunkStates, P!ChunkLineStates
<1>3. s \notin DOMAIN P!UrlTable /\ s \notin {"s_start_req", "s_req_method"}
      /\ s \notin {"s_req_http_start", "s_req_http_end"}
  BY <1>2 DEF P!UrlTable, P!ChunkStates, P!ChunkLineStates
<1>4. \/ s \in DOMAIN P!Expected \/ s \in P!VersionStates
      \/ s \in {"s_res_first_status_code", "s_res_status_code"}
      \/ s \in {"s_res_status_start", "s_res_status"} \/ s \in P!ChunkStates
      \/ s = "s_dead" \/ s = "s_start_res" \/ s = "s_header_field_start"
      \/ s = "s_header_field" \/ s = "s_header_value_discard_ws"
      \/ s = "s_header_value_start" \/ s = "s_header_value" \/ s = "s_header_value_lws"
      \/ s = "s_header_value_discard_lws" \/ s = "s_headers_almost_done"
      \/ s = "s_headers_done" \/ s = "s_body_identity" \/ s = "s_body_identity_eof"
      \/ s = "s_message_done"
  BY <1>2 DEF P!Expected, P!VersionStates
<1>5. s \in P!VersionStates => Looked(x, P!VersionDigit(x, ch))
  BY <1>2, VersionLooks DEF P!VersionStates, P!ChunkStates, P!ChunkLineStates
<1>6. /\ s = "s_dead" => Looked(x, P!Dead(x, ch))
      /\ s = "s_start_res" => Looked(x, P!StartResponse(x, ch))
      /\ s \in DOMAIN P!Expected => Looked(x, P!Expect(x, ch))
      /\ s \in {"s_res_first_status_code", "s_res_status_code"} =>
           Looked(x, P!StatusCode(x, ch))
      /\ s \in {"s_res_status_start", "s_res_status"} => Looked(x, P!StatusText(x, ch))
  BY DeadLooks, StartLooks, ExpectLooks, StatusCodeLooks, StatusTextLooks
<1>7. /\ s = "s_header_field_start" => Looked(x, P!HeaderFieldStart(x, ch))
      /\ s = "s_header_field" => Looked(x, P!HeaderField(x, ch))
      /\ s = "s_header_value_discard_ws" => Looked(x, P!HeaderValueDiscardWs(x, ch))
      /\ s = "s_header_value_start" => Looked(x, P!HeaderValueStart(x, ch))
      /\ s = "s_header_value" => Looked(x, P!HeaderValue(x, ch))
      /\ s = "s_header_value_lws" => Looked(x, P!HeaderValueLws(x, ch))
      /\ s = "s_header_value_discard_lws" => Looked(x, P!HeaderValueDiscardLws(x, ch))
  BY FieldStartLooks, FieldLooks, DiscardWsLooks, ValueStartLooks, ValueLooks, LwsLooks,
     DiscardLwsLooks
<1>8. /\ s = "s_headers_almost_done" => Looked(x, P!HeadersAlmostDone(x, ch))
      /\ s = "s_headers_done" => Looked(x, P!HeadersDone(x, ch))
      /\ s = "s_body_identity" => Looked(x, P!BodyIdentity(x))
      /\ s = "s_body_identity_eof" => Looked(x, P!MARK(x, "body"))
      /\ s = "s_message_done" => Looked(x, P!MessageDone(x))
      /\ s \in P!ChunkStates => Looked(x, P!ChunkByte(x, ch))
  BY AlmostDoneLooks, HeadersDoneLooks, BodyIdentityLooks, BodyEofLooks, MessageDoneLooks,
     ChunkLooks
<1> QED
  BY <1>3, <1>4, <1>5, <1>6, <1>7, <1>8 DEF P!Dispatch

\* The call y after some looks at byte x.i, with fewer than r more to come.
Within(x, y, r) == CallInv(y) /\ SameByte(x, y) /\ (Stopped(y) \/ Goes(y, r))

LEMMA RankIs == \A s : Rank(s) \in 0..3
BY DEF Rank

\* A look at a byte to which REEXECUTE came back has a lower rank.
LEMMA AgainIs ==
    ASSUME NEW x, x.i <= Len(x.data), NEW r \in 1..3, NEW y, Within(x, y, r)
    PROVE  Within(x, P!Again(y), r - 1)
<1>1. CASE y.again /\ y.ret = -1
  <2> DEFINE z == [y EXCEPT !.again = FALSE]
  <2>1. P!Again(y) = P!Dispatch(z)
    BY <1>1 DEF P!Again
  <2>2. CallInv(y) /\ SameByte(x, y) /\ Goes(y, r) /\ Rank(y.p.state) < r
        /\ y.p.state # "s_chunk_size_start"
    BY <1>1 DEF Within, Stopped, Goes
  <2>3. DOMAIN z = DOMAIN y /\ z.p = y.p /\ z.u = y.u /\ z.data = y.data /\ z.i = y.i
        /\ z.run = y.run /\ z.mark = y.mark /\ z.ret = y.ret /\ z.failed = y.failed
        /\ z.again = FALSE
    BY <2>2 DEF CallInv
  <2> HIDE DEF z
  <2>4. CallInv(z) /\ MarksInv(z) /\ RunInv(z)
    BY <2>2, <2>3 DEF CallInv, Goes, Going, MarksInv, RunInv
  <2>5. AtByte(z)
    BY <2>2, <2>3, <2>4 DEF AtByte, Goes, Going, SameByte
  <2>6. Looked(z, P!Dispatch(z))
    BY <2>5, DispatchLooks
  <2> DEFINE d == P!Dispatch(z)
  <2> HIDE DEF d
  <2>7. CallInv(d) /\ SameByte(x, d) /\ (Stopped(d) \/ Goes(d, Rank(y.p.state)))
    BY <2>2, <2>3, <2>6 DEF Looked, SameByte, d
  <2>8. Goes(d, Rank(y.p.state)) => Goes(d, r - 1)
    BY <2>2, RankIs DEF Goes
  <2> QED
    BY <2>1, <2>7, <2>8 DEF Within, d
<1>2. CASE ~(y.again /\ y.ret = -1)
  <2>1. P!Again(y) = y
    BY <1>2 DEF P!Again
  <2> QED
    BY <1>2, <2>1 DEF Within, Goes
<1> QED
  BY <1>1, <1>2

\* A call between two turns of the loop.
Turned(x) ==
    /\ CallInv(x)
    /\ \/ Stopped(x)
       \/ /\ x.ret = -1 /\ Going(x) /\ x.again = FALSE
          /\ x.p.state = "s_chunk_size_start" => x.p.nread = 0

LEMMA ByteTurns ==
    ASSUME NEW x, Turned(x), x.ret = -1 => x.i <= Len(x.data)
    PROVE  LET y == P!Byte(x)
           IN  Turned(y) /\ y.data = x.data /\ (y.ret = -1 => x.ret = -1 /\ y.i = x.i + 1)
<1>1. CASE x.ret # -1
  BY <1>1 DEF P!Byte
<1>2. CASE x.ret = -1
  <2> DEFINE v == IF x.run = 0 /\ P!PARSING_HEADER(x.p.state) THEN 1 ELSE 0
             c == P!COUNT_HEADER_SIZE(x, v)
             a == [c EXCEPT !.again = TRUE]
             b == P!Again(a)
             e == P!Again(P!Again(P!Again(b)))
             y == P!NextByte(e)
  <2>1. P!Byte(x) = y
    BY <1>2 DEF P!Byte
  <2>2. CallInv(x) /\ Going(x) /\ x.i <= Len(x.data) /\ x.again = FALSE
        /\ (x.p.state = "s_chunk_size_start" => x.p.nread = 0)
    BY <1>2 DEF Turned, Stopped
  <2>3. PICK w : /\ Counted(x, w) /\ w.p.nread = x.p.nread + v
                 /\ c \in {w, P!Fail(w, "HEADER_OVERFLOW")}
    BY <2>2, CountIs
  <2>4. x.p.state = "s_chunk_size_start" => w.p.nread = 1
    BY <2>2, <2>3 DEF Going, RunInv, P!PARSING_HEADER, P!BodyStates
  <2> HIDE DEF v, c
  <2>5. ASSUME c = P!Fail(w, "HEADER_OVERFLOW")
        PROVE  Turned(y) /\ y.data = x.data /\ y.ret # -1
    <3>1. DOMAIN c = DOMAIN w /\ c.data = w.data /\ c.i = w.i /\ c.failed = w.failed
          /\ c.u = w.u /\ IsParser(c.p) /\ c.p.http_errno = "HEADER_OVERFLOW"
          /\ c.ret = w.i - 1
      BY <2>3, <2>5 DEF P!Fail, Counted, CallInv, IsParser
    <3>2. DOMAIN a = DOMAIN w /\ a.data = w.data /\ a.i = w.i /\ a.failed = w.failed
          /\ a.u = w.u /\ a.p = c.p /\ a.ret = w.i - 1
      BY <2>3, <3>1 DEF Counted, CallInv
    <3> HIDE DEF a
    <3>3. CallInv(a) /\ a.ret # -1 /\ a.p.http_errno # "OK" /\ a.data = x.data
      BY <2>3, <3>1, <3>2 DEF Counted, CallInv
    <3>4. y = a
      BY <3>3 DEF P!Again, P!NextByte
    <3> QED
      BY <3>3, <3>4 DEF Turned, Stopped
  <2>6. ASSUME c = w
        PROVE  Turned(y) /\ y.data = x.data /\ (y.ret = -1 => y.i = x.i + 1)
    <3> DEFINE z == [a EXCEPT !.again = FALSE]
    <3>1. DOMAIN a = DOMAIN x /\ a.again = TRUE /\ a.ret = -1
      BY <1>2, <2>3, <2>6 DEF Counted, CallInv
    <3>2. DOMAIN z = DOMAIN x /\ z.p = w.p /\ z.u = x.u /\ z.data = x.data /\ z.i = x.i
          /\ z.run = x.run /\ z.mark = x.mark /\ z.ret = -1 /\ z.failed = x.failed
          /\ z.again = FALSE
      BY <1>2, <2>3, <2>6 DEF Counted, CallInv
    <3>3. b = P!Dispatch(z)
      BY <3>1 DEF P!Again
    <3> HIDE DEF a, z
    <3>4. ParserInv(w.p) /\ w.p.state = x.p.state /\ IsParser(w.p)
      BY <2>2, <2>3, AlikeKeeps DEF Counted, Going, Alike
    <3>5. CallInv(z) /\ MarksInv(z) /\ RunInv(z)
      BY <2>2, <3>2, <3>4 DEF CallInv, Going, MarksInv, RunInv
    <3>6. AtByte(z)
      BY <2>2, <2>4, <3>2, <3>4, <3>5 DEF AtByte, Going, Named
    <3>7. Looked(z, b)
      BY <3>3, <3>6, DispatchLooks
    <3> HIDE DEF b
    <3>8. Within(x, b, 3)
      BY <3>2, <3>7, RankIs DEF Looked, Within, Goes, SameByte
    <3> DEFINE b1 == P!Again(b)
               b2 == P!Again(b1)
    <3>9. Within(x, b1, 2)
      BY <2>2, <3>8, AgainIs
    <3> HIDE DEF b1
    <3>10. Within(x, b2, 1)
      BY <2>2, <3>9, AgainIs
    <3> HIDE DEF b2
    <3>11. e = P!Again(b2)
      BY DEF b1, b2
    <3> HIDE DEF e
    <3>12. Within(x, e, 0)
      BY <2>2, <3>10, <3>11, AgainIs
    <3>13. CASE e.ret # -1
      BY <3>12, <3>13 DEF Within, Goes, Turned, SameByte, P!NextByte
    <3>14. CASE e.ret = -1
      <4>1. CallInv(e) /\ SameByte(x, e) /\ Goes(e, 0) /\ e.again = FALSE
        BY <3>12, <3>14, RankIs DEF Within, Stopped, Goes
      <4>2. DOMAIN y = DOMAIN e /\ y.p = e.p /\ y.u = e.u /\ y.data = e.data /\ y.i = e.i + 1
            /\ y.run = e.run /\ y.mark = e.mark /\ y.ret = e.ret /\ y.failed = FALSE
            /\ y.again = e.again
        BY <3>14, <4>1 DEF P!NextByte, P!assert, CallInv
      <4> HIDE DEF y
      <4>3. CallInv(y) /\ MarksInv(y) /\ RunInv(y)
        BY <2>2, <4>1, <4>2 DEF CallInv, Goes, Going, MarksInv, RunInv, SameByte
      <4> QED
        BY <3>14, <4>1, <4>2, <4>3 DEF Turned, Goes, Going, SameByte
    <3> QED
      BY <3>13, <3>14
  <2> HIDE DEF y
  <2> QED
    BY <1>2, <2>1, <2>3, <2>5, <2>6
<1> QED
  BY <1>1, <1>2

\* A set of natural numbers has a least element.
LEMMA LeastOf ==
    ASSUME NEW S, S \subseteq Nat, S # {}
    PROVE  \E x \in S : \A y \in S : x <= y
<1>1. PICK Q : IsWellFoundedOn(Q, Nat) /\ \A x, y \in Nat : <<y, x>> \in Q <=> y < x
  <2>1. \A x, y \in Nat : <<y, x>> \in OpToRel(<, Nat) <=> y < x
    BY DEF OpToRel
  <2> WITNESS OpToRel(<, Nat)
  <2> QED
    BY <2>1, NatLessThanWellFounded, Zenon
<1>2. PICK x \in S : \A y \in S : ~(<<y, x>> \in Q)
  BY <1>1, WFMin
<1>3. ASSUME NEW y \in S PROVE x <= y
  <2>1. ~(<<y, x>> \in Q) /\ x \in Nat /\ y \in Nat
    BY <1>2
  <2>2. ~(y < x)
    BY <1>1, <2>1, Zenon
  <2> QED
    BY <2>1, <2>2
<1> QED
  BY <1>3

\* f holds the call after each of n bytes.
Turns(f, start, n) == f = [k \in 0..n |-> IF k = 0 THEN start ELSE P!Byte(f[k - 1])]

LEMMA TurnsExist ==
    ASSUME NEW start, NEW n \in Nat
    PROVE  \E f : Turns(f, start, n)
<1> DEFINE T == {m \in Nat : ~\E f : Turns(f, start, m)}
<1>1. SUFFICES ASSUME T # {} PROVE FALSE
  OBVIOUS
<1>2. PICK m \in T : \A l \in T : m <= l
  BY <1>1, LeastOf
<1>3. m \in Nat /\ ~\E f : Turns(f, start, m)
  OBVIOUS
<1>4. CASE m = 0
  <2> DEFINE g == [k \in 0..m |-> start]
  <2>1. \A k \in 0..m : start = IF k = 0 THEN start ELSE P!Byte(g[k - 1])
    BY <1>4
  <2>2. g = [k \in 0..m |-> IF k = 0 THEN start ELSE P!Byte(g[k - 1])]
    BY <2>1, Zenon
  <2> QED
    BY <1>3, <2>2 DEF Turns
<1>5. CASE m # 0
  <2>1. m - 1 \in Nat /\ m - 1 \notin T
    BY <1>2, <1>3, <1>5
  <2>2. PICK f : Turns(f, start, m - 1)
    BY <2>1
  <2>3. \A k \in 0..(m - 1) : f[k] = IF k = 0 THEN start ELSE P!Byte(f[k - 1])
    BY <2>2 DEF Turns
  <2> DEFINE g == [k \in 0..m |-> IF k = m THEN P!Byte(f[m - 1]) ELSE f[k]]
  <2>4. \A k \in 0..m : g[k] = IF k = m THEN P!Byte(f[m - 1]) ELSE f[k]
    BY Zenon
  <2>5. \A k \in 0..m : k # m => k \in 0..(m - 1)
    BY <1>3
  <2>6. \A k \in 0..m : k # 0 => k - 1 \in 0..m /\ k - 1 # m
    BY <1>3
  <2> HIDE DEF g
  <2>7. \A k \in 0..m : g[k] = IF k = 0 THEN start ELSE P!Byte(g[k - 1])
    <3> TAKE k \in 0..m
    <3>1. CASE k = m
      BY <1>5, <2>4, <2>6, <3>1
    <3>2. CASE k # m
      BY <2>3, <2>4, <2>5, <2>6, <3>2
    <3> QED
      BY <3>1, <3>2
  <2>8. g = [k \in 0..m |-> g[k]]
    BY DEF g
  <2>9. g = [k \in 0..m |-> IF k = 0 THEN start ELSE P!Byte(g[k - 1])]
    BY <2>7, <2>8
  <2> QED
    BY <1>3, <2>9 DEF Turns
<1> QED
  BY <1>4, <1>5

\* After k bytes the call is at the next one, or has stopped.
LEMMA LoopTurns ==
    ASSUME NEW p, NEW u, NEW data \in Seq(Char), Turned(P!Call(p, u, data))
    PROVE  LET y == P!Loop(p, u, data)
           IN  Turned(y) /\ y.data = data /\ (y.ret = -1 => y.i = Len(data) + 1)
<1> DEFINE start == P!Call(p, u, data)
           n == Len(data)
<1>1. n \in Nat
  OBVIOUS
<1>2. PICK f : Turns(f, start, n) /\ P!Loop(p, u, data) = f[n]
  <2> DEFINE h == CHOOSE g : g = [k \in 0..Len(data) |-> IF k = 0 THEN P!Call(p, u, data)
                                                        ELSE P!Byte(g[k - 1])]
  <2>1. P!Loop(p, u, data) = h[Len(data)]
    BY Zenon DEF P!Loop
  <2>2. \E g : g = [k \in 0..Len(data) |-> IF k = 0 THEN P!Call(p, u, data)
                                           ELSE P!Byte(g[k - 1])]
    BY <1>1, TurnsExist DEF Turns
  <2>3. h = [k \in 0..Len(data) |-> IF k = 0 THEN P!Call(p, u, data) ELSE P!Byte(h[k - 1])]
    BY <2>2, Zenon
  <2> HIDE DEF h
  <2> QED
    BY <2>1, <2>3 DEF Turns
<1>3. \A k \in 0..n : f[k] = IF k = 0 THEN start ELSE P!Byte(f[k - 1])
  BY <1>2 DEF Turns
<1>4. start.data = data /\ start.i = 1
  BY DEF P!Call
<1> HIDE DEF start, n
<1> DEFINE Good(k) == Turned(f[k]) /\ f[k].data = data /\ (f[k].ret = -1 => f[k].i = k + 1)
           T == {k \in 0..n : ~Good(k)}
<1>5. ASSUME T # {} PROVE FALSE
  <2>1. T \subseteq Nat
    BY <1>1
  <2>2. PICK m \in T : \A l \in T : m <= l
    BY <1>5, <2>1, LeastOf
  <2>3. m \in 0..n /\ ~Good(m)
    OBVIOUS
  <2>4. m # 0
    BY <1>3, <1>4, <2>3 DEF start
  <2>5. m - 1 \in 0..n /\ ~(m <= m - 1)
    BY <1>1, <2>3, <2>4
  <2>6. Good(m - 1)
    BY <2>2, <2>5
  <2>7. f[m] = P!Byte(f[m - 1])
    BY <1>3, <2>3, <2>4
  <2>8. f[m - 1].ret = -1 => f[m - 1].i <= Len(f[m - 1].data)
    BY <1>1, <2>3, <2>6 DEF n
  <2>9. Good(m)
    <3>1. Turned(f[m]) /\ f[m].data = data
          /\ (f[m].ret = -1 => f[m - 1].ret = -1 /\ f[m].i = f[m - 1].i + 1)
      BY <2>6, <2>7, <2>8, ByteTurns
    <3> QED
      BY <2>3, <2>6, <3>1
  <2> QED
    BY <2>3, <2>9
<1>6. Good(n)
  BY <1>1, <1>5
<1> QED
  BY <1>2, <1>6 DEF n

-----------------------------------------------------------------------------
(***************************************************************************)
(* A call from its first byte to its end.                                  *)
(***************************************************************************)
LEMMA NoUrlState == \A s \in StatesOf(HTTP_RESPONSE) : s \notin P!UrlStates
<1>1. \A s \in StatesOf(HTTP_RESPONSE) : s \notin DOMAIN P!UrlTable
  BY DEF StatesOf, HTTP_RESPONSE, HTTP_REQUEST, ResponseLineStates, HeaderLineStates,
         ChunkLineStates, BodyStates, P!UrlTable
<1> QED
  BY <1>1 DEF P!UrlStates

LEMMA CallStarts ==
    ASSUME NEW p, NEW u, Between(p, u), ConnInv(u), NEW data \in Seq(Char)
    PROVE  Turned(P!Call(p, u, data))
<1> DEFINE x == P!Call(p, u, data)
           f == P!FirstMarks(p)
<1>1. DOMAIN x = {"p", "u", "data", "i", "run", "fast", "again", "mark", "ret", "failed"}
      /\ x.p = p /\ x.u = u /\ x.data = data /\ x.i = 1 /\ x.run = 0 /\ x.again = FALSE
      /\ x.mark = f /\ x.ret = -1 /\ x.failed = FALSE
  BY DEF P!Call
<1>2. p.state \notin P!UrlStates
  BY NoUrlState DEF Between, ParserInv
<1>3. /\ f["header_field"] = IF p.state = "s_header_field" THEN 1 ELSE 0
      /\ f["header_value"] = IF p.state = "s_header_value" THEN 1 ELSE 0
      /\ f["status"] = IF p.state = "s_res_status" THEN 1 ELSE 0
      /\ f["url"] = 0 /\ f["body"] = 0 /\ f = [kind \in P!MarkKinds |-> f[kind]]
  BY <1>2 DEF P!FirstMarks, P!MarkKinds
<1> HIDE DEF x, f
<1>4. f \in [P!MarkKinds -> Nat]
  <2>1. \A kind \in P!MarkKinds : f[kind] \in Nat
    BY <1>3 DEF P!MarkKinds
  <2> QED
    BY <1>3, <2>1
<1>5. MarksInv(x)
  <2>1. \A kind \in P!MarkKinds : f[kind] # 0 => p.state \in MarkStates[kind]
    BY <1>3 DEF P!MarkKinds, MarkStates
  <2> QED
    BY <1>1, <1>3, <1>4, <2>1 DEF MarksInv
<1>6. CallInv(x)
  BY <1>1 DEF CallInv, Between, ParserInv
<1> QED
  BY <1>1, <1>5, <1>6 DEF Turned, Going, RunInv, Between, x

LEMMA LeftoverStops ==
    ASSUME NEW x, Turned(x), x.ret = -1
    PROVE  CallInv(P!Leftover(x)) /\ Stopped(P!Leftover(x))
<1> DEFINE set == {kind \in P!MarkKinds : x.mark[kind] # 0}
           y == IF x.run # 0 THEN P!EndRun(x) ELSE x
           z == P!assert(y, \A k, l \in set : k = l)
           kind == CHOOSE k \in set : TRUE
           w == P!CALLBACK_DATA_(z, kind, z.i - 1, z.i - 1)
           n == Len(x.data)
<1>1. P!Leftover(x) = IF y.ret # -1 THEN y
                      ELSE IF set = {} THEN P!Return(z, n)
                      ELSE IF w.ret # -1 THEN w ELSE P!Return(w, n)
  BY Zenon DEF P!Leftover, P!CALLBACK_DATA_NOADVANCE
<1>2. CallInv(x) /\ Going(x) /\ (x.p.state = "s_chunk_size_start" => x.p.nread = 0)
  BY DEF Turned, Stopped
<1>3. \A k, l \in set : k = l
  BY <1>2 DEF Going, MarksInv, MarkStates, P!MarkKinds
<1>4. set # {} => kind \in P!MarkKinds /\ x.mark[kind] # 0
                  /\ x.p.state \in MarkStates[kind]
  BY <1>2 DEF Going, MarksInv
<1> HIDE DEF set, kind
\* The state of x with what the inner loop has read counted.
<1>5. PICK v : /\ CallInv(v) /\ v.ret = -1 /\ v.data = x.data /\ v.i = x.i
               /\ v.u = x.u /\ v.mark = x.mark
               /\ Between(v.p, v.u) /\ v.p.state = x.p.state
               /\ y \in {v, P!Fail(v, "HEADER_OVERFLOW")}
  <2>1. CASE x.run # 0
    <3>1. PICK v : RunEnded(x, v) /\ P!EndRun(x) \in {v, P!Fail(v, "HEADER_OVERFLOW")}
      BY <1>2, EndRunIs
    <3>2. ParserInv(v.p) /\ v.p.state = x.p.state
      BY <1>2, <3>1, AlikeKeeps DEF RunEnded, Going, Alike
    <3>3. x.p.state # "s_chunk_size_start"
      BY <1>2, <2>1 DEF Going, RunInv
    <3>4. Between(v.p, v.u)
      BY <1>2, <3>1, <3>2, <3>3 DEF Between, Named, Going, RunEnded
    <3> QED
      BY <2>1, <3>1, <3>2, <3>4 DEF RunEnded
  <2>2. CASE x.run = 0
    <3>1. Between(x.p, x.u)
      BY <1>2 DEF Between, Going
    <3> QED
      BY <1>2, <2>2, <3>1
  <2> QED
    BY <2>1, <2>2
<1> HIDE DEF y
<1>6. CASE y = P!Fail(v, "HEADER_OVERFLOW")
  <2>1. Looked(v, y)
    BY <1>5, <1>6, FailStops DEF SameByte
  <2>2. y.ret # -1
    BY <1>5, <1>6 DEF P!Fail, CallInv
  <2> QED
    BY <1>1, <2>1, <2>2 DEF Looked, Goes
<1>7. CASE y = v
  <2>1. Untouched(y, z) /\ z.p = y.p /\ CallInv(z)
    BY <1>3, <1>5, <1>7, AssertIs
  <2> HIDE DEF z
  <2>2. n \in Nat /\ n # -1
    BY <1>2 DEF CallInv
  <2> HIDE DEF n
  <2>3. \A c : CallInv(c) => /\ DOMAIN P!Return(c, n) = DOMAIN c /\ P!Return(c, n).p = c.p
                             /\ P!Return(c, n).u = c.u /\ P!Return(c, n).data = c.data
                             /\ P!Return(c, n).i = c.i /\ P!Return(c, n).failed = c.failed
                             /\ P!Return(c, n).ret = n
    BY DEF P!Return, CallInv
  <2>4. ASSUME NEW c, CallInv(c), Between(c.p, c.u)
        PROVE  CallInv(P!Return(c, n)) /\ Stopped(P!Return(c, n))
    <3> DEFINE r == P!Return(c, n)
    <3>1. DOMAIN r = DOMAIN c /\ r.p = c.p /\ r.u = c.u /\ r.data = c.data
          /\ r.i = c.i /\ r.failed = c.failed /\ r.ret = n
      BY <2>3, <2>4
    <3> HIDE DEF r
    <3> QED
      BY <2>2, <2>4, <3>1 DEF CallInv, Stopped, r
  <2>5. Between(z.p, z.u) /\ z.mark = x.mark /\ z.data = x.data /\ z.i = x.i /\ z.ret = -1
    BY <1>5, <1>7, <2>1 DEF Untouched, Kept, Frame
  <2>6. y.ret = -1
    BY <1>5, <1>7
  <2>7. CASE set = {}
    BY <1>1, <2>1, <2>4, <2>5, <2>6, <2>7
  <2>8. CASE set # {}
    <3> DEFINE last == z.i - 1
    <3>1. z.p.http_errno = "OK" /\ z.mark \in [P!MarkKinds -> Nat] /\ kind \in P!MarkKinds
          /\ last \in 0..Len(z.data)
      BY <1>2, <1>4, <2>1, <2>5, <2>8 DEF Between, ParserInv, Going, MarksInv, CallInv
    <3>2. kind = "header_value" => HasHeaders(z.u)
      BY <1>4, <1>5, <1>7, <2>1, <2>5, <2>8
      DEF MarkStates, Between, Named, AfterName, Untouched
    <3> HIDE DEF last
    <3>3. HandedOver(z, P!CALLBACK_DATA_(z, kind, last, last), kind)
      BY <2>1, <3>1, <3>2, DataIs
    <3>4. HandedOver(z, w, kind)
      BY <3>3 DEF last
    <3> HIDE DEF w
    <3>5. CallInv(w) /\ w.ret = -1 /\ w.p = z.p
      BY <2>1, <2>5, <3>4 DEF HandedOver, Kept, Frame, CallInv
    <3>6. Between(w.p, w.u)
      BY <2>5, <3>4 DEF Between, Named, HandedOver
    <3> QED
      BY <1>1, <2>4, <2>6, <2>8, <3>5, <3>6
  <2> QED
    BY <2>7, <2>8
<1> QED
  BY <1>5, <1>6, <1>7

LEMMA EofStops ==
    ASSUME NEW p, NEW u, Between(p, u), ConnInv(u), NoBytes \in Seq(Char)
    PROVE  CallInv(P!ExecuteEof(p, u)) /\ Stopped(P!ExecuteEof(p, u))
<1> DEFINE x == P!Call(p, u, NoBytes)
           y == P!CALLBACK_NOTIFY_(x, "message_complete", x.i - 1)
           bad == [x EXCEPT !.p.http_errno = "INVALID_EOF_STATE"]
<1>1. P!ExecuteEof(p, u) \in {IF y.ret # -1 THEN y ELSE P!Return(y, 0), P!Return(x, 0),
                              P!Return(bad, 1)}
  BY Zenon DEF P!ExecuteEof, P!CALLBACK_NOTIFY_NOADVANCE, NoBytes
<1>2. CallInv(x) /\ x.p = p /\ x.u = u /\ x.ret = -1
  BY CallStarts DEF Turned, P!Call
<1> HIDE DEF x
<1>3. ASSUME NEW c, CallInv(c), c.p.http_errno = "OK" => Between(c.p, c.u), NEW v \in {0, 1}
      PROVE  CallInv(P!Return(c, v)) /\ Stopped(P!Return(c, v))
  <2> DEFINE r == P!Return(c, v)
  <2>1. DOMAIN r = DOMAIN c /\ r.p = c.p /\ r.u = c.u /\ r.data = c.data
        /\ r.i = c.i /\ r.failed = c.failed /\ r.ret = v
    BY <1>3 DEF P!Return, CallInv
  <2>2. v # -1
    BY <1>3
  <2> HIDE DEF r
  <2> QED
    BY <1>3, <2>1, <2>2 DEF CallInv, Stopped, r
<1>4. CallInv(P!Return(x, 0)) /\ Stopped(P!Return(x, 0))
  BY <1>2, <1>3
<1>5. CallInv(P!Return(bad, 1)) /\ Stopped(P!Return(bad, 1))
  <2>1. CallInv(bad) /\ bad.p.http_errno # "OK"
    BY <1>2 DEF CallInv, IsParser
  <2> QED
    BY <1>3, <2>1
<1>6. y.ret = -1 /\ CallInv(P!Return(y, 0)) /\ Stopped(P!Return(y, 0))
  <2>1. Notified(x, y, "message_complete")
    BY <1>2, NotifyIs DEF Between, ParserInv
  <2> HIDE DEF y
  <2>2. Between(y.p, y.u)
    <3>1. CASE y.p = x.p
      BY <1>2, <2>1, <3>1 DEF Between, Named, Notified
    <3>2. CASE y.p # x.p
      BY <2>1, <3>2, NewParser DEF Notified
    <3> QED
      BY <3>1, <3>2
  <2>3. CallInv(y) /\ y.ret = -1
    BY <1>2, <2>1, <2>2 DEF Notified, Kept, Frame, CallInv, Between, ParserInv
  <2> QED
    BY <1>3, <2>2, <2>3
<1> HIDE DEF y, bad
<1> QED
  BY <1>1, <1>4, <1>5, <1>6

\* Between two calls.  A parser with an error stays as it is.
Resting(p, u) == ConnInv(u) /\ IsParser(p) /\ (p.http_errno = "OK" => Between(p, u))

LEMMA ExecuteKeeps ==
    ASSUME NEW p, NEW u, Resting(p, u), NEW data \in Seq(Char), NoBytes \in Seq(Char)
    PROVE  LET y == P!http_parser_execute(p, u, data)
           IN  Resting(y.p, y.u) /\ y.failed = FALSE
<1> DEFINE y == P!http_parser_execute(p, u, data)
<1>1. CASE p.http_errno # "OK"
  BY <1>1 DEF P!http_parser_execute, P!Return, P!Call, Resting
<1>2. CASE p.http_errno = "OK"
  <2>1. CallInv(y) /\ Stopped(y)
    <3>1. Between(p, u) /\ ConnInv(u)
      BY <1>2 DEF Resting
    <3>2. CallInv(P!ExecuteEof(p, u)) /\ Stopped(P!ExecuteEof(p, u))
      BY <3>1, EofStops
    <3> DEFINE l == P!Loop(p, u, data)
    <3>3. Turned(l)
      BY <3>1, CallStarts, LoopTurns
    <3> HIDE DEF l
    <3>4. CallInv(P!Ended(l)) /\ Stopped(P!Ended(l))
      BY <3>3, LeftoverStops DEF P!Ended, Turned
    <3> QED
      BY <1>2, <3>2, <3>4, Zenon DEF P!http_parser_execute, l
  <2> HIDE DEF y
  <2> QED
    BY <2>1 DEF Resting, CallInv, Stopped, y
<1> QED
  BY <1>1, <1>2

-----------------------------------------------------------------------------
(***************************************************************************)
(* The connection.                                                         *)
(***************************************************************************)
ResponseInv ==
    /\ IsStream(stream) /\ pos \in 0..Len(stream.text)
    /\ Resting(parser, conn)
    /\ fault = FALSE

LEMMA InvInit ==
    ASSUME StreamsAreText, Init
    PROVE  ResponseInv
<1>1. IsStream(stream) /\ pos = 0 /\ fault = FALSE /\ stream.text \in Seq(Char)
      /\ parser = http_parser_init(HTTP_RESPONSE) /\ conn = NewConn
  BY DEF StreamsAreText, Init, IsStream
<1>2. BufferInv(EmptyBuffer)
  <2>1. EmptyBuffer = [mem |-> << >>, cursor |-> 0, length |-> 0, over |-> FALSE]
    BY DEF EmptyBuffer
  <2>2. << >> \in Seq(Cell) /\ Len(<< >>) = 0
    OBVIOUS
  <2> QED
    BY <2>1, <2>2 DEF BufferInv, Fits, RoomForNul
<1>3. ConnInv(NewConn)
  BY <1>2 DEF NewConn, ConnInv, FIELD, VALUE
<1>4. Between(parser, conn)
  BY <1>1, NewParser
<1> QED
  BY <1>1, <1>3, <1>4 DEF ResponseInv, Resting, Between, ParserInv

\* One pass of the loop of socket_readable.
LEMMA PassKeeps ==
    ASSUME StreamsAreText, ResponseInv, NEW data \in Seq(Char), ReadPass(data)
    PROVE  Resting(parser', conn') /\ fault' = FALSE
<1> DEFINE y == P!http_parser_execute(parser, conn, data)
<1>1. Resting(y.p, y.u) /\ y.failed = FALSE
  BY ExecuteKeeps DEF ResponseInv, StreamsAreText
<1>2. parser' = y.p /\ conn' = y.u /\ fault' = (fault \/ y.failed)
  BY Zenon DEF ReadPass, ReadEnds
<1> HIDE DEF y
<1> QED
  BY <1>1, <1>2 DEF ResponseInv

LEMMA InvNext ==
    ASSUME StreamsAreText, ResponseInv, [Next]_vars
    PROVE  ResponseInv'
<1>1. IsStream(stream) /\ stream.text \in Seq(Char) /\ pos \in 0..Len(stream.text)
      /\ Len(stream.text) \in Nat
  BY DEF ResponseInv, IsStream
<1>2. ASSUME NEW n \in Nat, Read(n) PROVE ResponseInv'
  <2> DEFINE data == SubSeq(stream.text, pos + 1, pos + n)
  <2>1. pos + n <= Len(stream.text) /\ ReadPass(data) /\ pos' = pos + n /\ stream' = stream
    BY <1>2 DEF Read
  <2>2. pos + 1 \in Nat \ {0} /\ pos + n \in 0..Len(stream.text)
    BY <1>1, <2>1
  <2>3. data \in Seq(Char)
    BY <1>1, <2>2, Part
  <2> HIDE DEF data
  <2>4. Resting(parser', conn') /\ fault' = FALSE
    BY <2>1, <2>3, PassKeeps
  <2> QED
    BY <1>1, <2>1, <2>2, <2>4 DEF ResponseInv
<1>3. CASE \E n \in stream.reads : Read(n)
  BY <1>1, <1>2, <1>3 DEF IsStream
<1>4. CASE ReadRest
  <2>1. Len(stream.text) - pos \in Nat /\ Read(Len(stream.text) - pos)
    BY <1>1, <1>4 DEF ReadRest
  <2> QED
    BY <1>2, <2>1
<1>5. CASE ReadEof
  <2>1. ReadPass(NoBytes) /\ stream' = stream /\ pos' = pos
    BY <1>5, Zenon DEF ReadEof, NoBytes
  <2>2. Resting(parser', conn') /\ fault' = FALSE
    BY <2>1, PassKeeps DEF StreamsAreText
  <2> QED
    BY <1>1, <2>1, <2>2 DEF ResponseInv
<1>6. ASSUME NEW ch \in stream.damage, DamageByte(ch) PROVE ResponseInv'
  <2> DEFINE head == SubSeq(stream.text, 1, pos)
             tail == SubSeq(stream.text, pos + 2, Len(stream.text))
             text == head \o ch \o tail
  <2>1. ch \in Seq(Char)
    BY <1>1, <1>6 DEF IsStream
  <2>2. head \in Seq(Char) /\ Len(head) = pos
    BY <1>1, Part
  <2>3. tail \in Seq(Char)
    BY <1>1, Part
  <2>4. stream' = [stream EXCEPT !.clean = FALSE, !.declared = -1, !.text = text]
        /\ pos' = pos /\ parser' = parser /\ conn' = conn /\ fault' = fault
    BY <1>6 DEF DamageByte
  <2> HIDE DEF head, tail
  <2>5. text \in Seq(Char) /\ Len(text) = pos + Len(ch) + Len(tail)
    BY SMTT(60), <2>1, <2>2, <2>3
  <2> HIDE DEF text
  <2>6. IsStream(stream') /\ stream'.text = text
    BY <1>1, <2>4, <2>5 DEF IsStream
  <2>7. pos \in 0..Len(text)
    BY <1>1, <2>1, <2>3, <2>5
  <2> QED
    BY <2>4, <2>6, <2>7 DEF ResponseInv
<1>7. CASE Reconnect
  <2>1. stream' \in LaterStreams /\ pos' = 0 /\ parser' = http_parser_init(HTTP_RESPONSE)
        /\ fault' = fault
    BY <1>7 DEF Reconnect
  <2>2. IsStream(stream') /\ stream'.text \in Seq(Char)
    BY <2>1 DEF StreamsAreText, IsStream
  <2>3. DOMAIN conn' = DOMAIN conn /\ conn'.headers = conn.headers /\ conn'.body = conn.body
        /\ conn'.state = conn.state
    BY <1>7 DEF Reconnect, ResponseInv, Resting, ConnInv
  <2>4. ConnInv(conn')
    BY <2>3 DEF ResponseInv, Resting, ConnInv, HasHeaders
  <2>5. Between(parser', conn')
    BY <2>1, NewParser
  <2> QED
    BY <2>1, <2>2, <2>4, <2>5 DEF ResponseInv, Resting, Between, ParserInv
<1>8. CASE UNCHANGED vars
  BY <1>8 DEF vars, ResponseInv
<1> QED
  BY <1>3, <1>4, <1>5, <1>6, <1>7, <1>8 DEF Next

\* Whatever a server sends, whatever becomes of it on the way and however it is
\* cut into reads, the parser, the marks and the buffers are in order between
\* two reads (http_parser_execute, and the callbacks of wrk.c).
THEOREM ParserInOrder == StreamsAreText => (Spec => []ResponseInv)
<1> SUFFICES ASSUME StreamsAreText PROVE Spec => []ResponseInv
  OBVIOUS
<1>1. Init => ResponseInv
  BY InvInit
<1>2. ResponseInv /\ [Next]_vars => ResponseInv'
  BY InvNext
<1> QED
  BY <1>1, <1>2, PTL DEF Spec

\* None of the assertions of http_parser.c fails: callbacks run without an error
\* pending, at most one mark is left at the end of a call, a chunk size starts
\* with nread at 1, chunks are only read of a chunked message, a value is not
\* compared with a header's name, REEXECUTE comes to an end, and a length counts
\* down neither from 0 nor from ULLONG_MAX.
THEOREM ParserAssertionsHold == StreamsAreText => (Spec => []AssertionsHold)
<1> SUFFICES ASSUME StreamsAreText PROVE Spec => []AssertionsHold
  OBVIOUS
<1>1. ResponseInv => AssertionsHold
  BY DEF ResponseInv, AssertionsHold
<1> QED
  BY <1>1, ParserInOrder, PTL

\* The header and body callbacks of wrk.c write within the memory their buffers
\* have, the NUL behind a header's name or value included, for which they do not
\* ask: buffer_append leaves a byte, and a value comes only after a name.
THEOREM WritesStayWithin == StreamsAreText => (Spec => []WithinBuffer)
<1> SUFFICES ASSUME StreamsAreText PROVE Spec => []WithinBuffer
  OBVIOUS
<1>1. ResponseInv => WithinBuffer
  BY DEF ResponseInv, Resting, ConnInv, BufferInv, Fits, WithinBuffer
<1> QED
  BY <1>1, ParserInOrder, PTL
=============================================================================
