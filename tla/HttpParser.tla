----------------------------- MODULE HttpParser -----------------------------
(***************************************************************************)
(* http_parser_execute of http_parser.c, one byte after the other.         *)
(*                                                                         *)
(* A parser is a record with the fields of struct http_parser.  A call of  *)
(* http_parser_execute is a record x: the parser x.p, what its callbacks   *)
(* act on x.u, the bytes of the call x.data, the byte being looked at x.i, *)
(* the marks, and the value returned, -1 while the loop goes on.  The two  *)
(* inner loops, which run through a header's name or value, are unrolled   *)
(* into the outer one; x.run is the byte where the inner loop started (0   *)
(* outside it), because the size of what it read is counted when it ends.  *)
(*                                                                         *)
(* A family of header_states that match a word letter by letter is one     *)
(* header_state and p.cand, the words that still match.                    *)
(*                                                                         *)
(* HTTP_BOTH and http_parser_pause are not used by wrk, and neither of its *)
(* two users sets on_headers_complete: they are left out.                  *)
(***************************************************************************)
EXTENDS HttpMessage

CONSTANTS
    MaxHeaderSize,      \* HTTP_MAX_HEADER_SIZE
    OnNotify(_, _, _),  \* the embedder's callbacks: (name, parser, state), and
    OnData(_, _, _, _)  \* (name, text, parser, state), to [p, u, rc]

CrLf == {"\r", "\n"}
Blank == {" ", "\t"}

\* The characters without the bit 0x20, and what they are with it: DEL, like
\* all control characters, is "\f", and "~" stands for the back quote, which is
\* a token character no word has either.
BitClear == "ABCDEFGHIJKLMNOPQRSTUVWXYZ@[\\]^_\t"
BitSet   == "abcdefghijklmnopqrstuvwxyz~{|}~\f)"

\* c | 0x20: lower case for a letter, another character for some others.
LOWER(c) == IF c \in Chars(BitClear)
            THEN At(BitSet, CHOOSE k \in 1..Len(BitClear) : At(BitClear, k) = c)
            ELSE c

\* tokens[]: lower case for a letter, itself for another token character.
tokens(c) == IF c \in Upper THEN LOWER(c) ELSE c

\* "\f" stands for the control characters.
IS_HEADER_CHAR(c) == c # "\f"

\* The method names, by their numbers; M-SEARCH is the one whose constant differs.
method_strings == <<
    "DELETE", "GET", "HEAD", "POST", "PUT", "CONNECT", "OPTIONS", "TRACE", "COPY",
    "LOCK", "MKCOL", "MOVE", "PROPFIND", "PROPPATCH", "SEARCH", "UNLOCK", "BIND",
    "REBIND", "UNBIND", "ACL", "REPORT", "MKACTIVITY", "CHECKOUT", "MERGE", "M-SEARCH",
    "NOTIFY", "SUBSCRIBE", "UNSUBSCRIBE", "PATCH", "PURGE", "MKCALENDAR", "LINK", "UNLINK" >>

Methods == {method_strings[k] : k \in DOMAIN method_strings}

PARSING_HEADER(s) == s \notin BodyStates

MarkKinds == {"header_field", "header_value", "url", "body", "status"}

-----------------------------------------------------------------------------
(***************************************************************************)
(* The macros.                                                             *)
(***************************************************************************)
Goto(x, s) == [x EXCEPT !.p.state = s]
Reexecute(x, s) == [x EXCEPT !.p.state = s, !.again = TRUE]
Return(x, v) == [x EXCEPT !.ret = v]
Fail(x, e) == [x EXCEPT !.p.http_errno = e, !.ret = x.i - 1]
Flag(x, f) == [x EXCEPT !.p.flags = @ \cup {f}]
assert(x, cond) == [x EXCEPT !.failed = @ \/ ~cond]
MARK(x, kind) == IF x.mark[kind] = 0 THEN [x EXCEPT !.mark[kind] = x.i] ELSE x

COUNT_HEADER_SIZE_NoLimit(x, v) == [x EXCEPT !.p.nread = @ + v]

COUNT_HEADER_SIZE(x, v) ==
    LET y == [x EXCEPT !.p.nread = @ + v]
    IN  IF y.p.nread > MaxHeaderSize THEN Fail(y, "HEADER_OVERFLOW") ELSE y

\* What a callback returned: er is what the call returns when it failed.
Called(x, kind, r, er) ==
    LET y == assert([x EXCEPT !.p = r.p, !.u = r.u], x.p.http_errno = "OK")
    IN  IF r.rc # 0 THEN Return([y EXCEPT !.p.http_errno = "CB_" \o kind], er) ELSE y

CALLBACK_NOTIFY_(x, kind, er) == Called(x, kind, OnNotify(kind, x.p, x.u), er)

CALLBACK_NOTIFY(x, kind) == CALLBACK_NOTIFY_(x, kind, x.i)
CALLBACK_NOTIFY_NOADVANCE(x, kind) == CALLBACK_NOTIFY_(x, kind, x.i - 1)

\* CALLBACK_DATA_: the text from the mark up to byte last, and the mark is gone.
CALLBACK_DATA_(x, kind, last, er) ==
    IF x.mark[kind] = 0 THEN assert(x, x.p.http_errno = "OK")
    ELSE Called([x EXCEPT !.mark[kind] = 0], kind,
                OnData(kind, SubSeq(x.data, x.mark[kind], last), x.p, x.u), er)

CALLBACK_DATA(x, kind) == CALLBACK_DATA_(x, kind, x.i - 1, x.i)
CALLBACK_DATA_NOADVANCE(x, kind) == CALLBACK_DATA_(x, kind, x.i - 1, x.i - 1)

\* The states that accept one character only: it, the next state, the error.
Expected == [
    s_res_H    |-> <<"T", "s_res_HT", "STRICT">>,
    s_res_HT   |-> <<"T", "s_res_HTT", "STRICT">>,
    s_res_HTT  |-> <<"P", "s_res_HTTP", "STRICT">>,
    s_res_HTTP |-> <<"/", "s_res_http_major", "STRICT">>,
    s_res_http_dot |-> <<".", "s_res_http_minor", "INVALID_VERSION">>,
    s_res_http_end |-> <<" ", "s_res_first_status_code", "INVALID_VERSION">>,
    s_res_line_almost_done |-> <<"\n", "s_header_field_start", "STRICT">>,
    s_req_http_H    |-> <<"T", "s_req_http_HT", "STRICT">>,
    s_req_http_HT   |-> <<"T", "s_req_http_HTT", "STRICT">>,
    s_req_http_HTT  |-> <<"P", "s_req_http_HTTP", "STRICT">>,
    s_req_http_HTTP |-> <<"/", "s_req_http_major", "STRICT">>,
    s_req_http_dot  |-> <<".", "s_req_http_minor", "INVALID_VERSION">>,
    s_req_line_almost_done |-> <<"\n", "s_header_field_start", "LF_EXPECTED">>,
    s_header_almost_done |-> <<"\n", "s_header_value_lws", "LF_EXPECTED">>,
    s_header_value_discard_ws_almost_done |->
        <<"\n", "s_header_value_discard_lws", "STRICT">> ]

Expect(x, ch) ==
    LET e == Expected[x.p.state] IN IF ch = e[1] THEN Goto(x, e[2]) ELSE Fail(x, e[3])

BeginMessage(x) == [x EXCEPT !.p.flags = {}, !.p.content_length = UllongMax]

-----------------------------------------------------------------------------
(***************************************************************************)
(* The status line of a response.                                          *)
(***************************************************************************)
StartResponse(x, ch) ==
    LET y == BeginMessage(x)
    IN  IF ch = "H" THEN CALLBACK_NOTIFY(Goto(y, "s_res_H"), "message_begin")
        ELSE IF ch \in CrLf THEN CALLBACK_NOTIFY(y, "message_begin")
        ELSE Fail(y, "INVALID_CONSTANT")

\* One digit each for the major and the minor version.
VersionDigit(x, ch) ==
    LET s == x.p.state
        y == IF s \in {"s_res_http_major", "s_req_http_major"}
             THEN [x EXCEPT !.p.http_major = Unhex[ch]]
             ELSE [x EXCEPT !.p.http_minor = Unhex[ch]]
        next == [s_res_http_major |-> "s_res_http_dot", s_res_http_minor |-> "s_res_http_end",
                 s_req_http_major |-> "s_req_http_dot", s_req_http_minor |-> "s_req_http_end"]
    IN  IF ch \in Num THEN Goto(y, next[s]) ELSE Fail(x, "INVALID_VERSION")

StatusCode(x, ch) ==
    LET first == x.p.state = "s_res_first_status_code"
        code == (IF first THEN 0 ELSE x.p.status_code * 10) + Unhex[ch]
        y == [x EXCEPT !.p.status_code = code]
    IN  IF ch \in Num THEN
            IF first THEN Goto(y, "s_res_status_code")
            ELSE IF code > 999 THEN Fail(y, "INVALID_STATUS") ELSE y
        ELSE IF first /\ ch = " " THEN x
        ELSE IF ~first /\ ch = " " THEN Goto(x, "s_res_status_start")
        ELSE IF ~first /\ ch \in CrLf THEN Reexecute(x, "s_res_status_start")
        ELSE Fail(x, "INVALID_STATUS")

\* The reason phrase: anything up to the end of the line.
StatusText(x, ch) ==
    IF x.p.state = "s_res_status_start"
    THEN LET y == [MARK(x, "status") EXCEPT !.p.index = 0]
         IN  IF ch \in CrLf THEN Reexecute(y, "s_res_status") ELSE Goto(y, "s_res_status")
    ELSE CASE ch = "\r" -> CALLBACK_DATA(Goto(x, "s_res_line_almost_done"), "status")
           [] ch = "\n" -> CALLBACK_DATA(Goto(x, "s_header_field_start"), "status")
           [] OTHER -> x

-----------------------------------------------------------------------------
(***************************************************************************)
(* The request line.                                                       *)
(***************************************************************************)
FirstMethod ==
    [c \in Chars("ABCDGHLMNOPRSTU") |->
        CASE c = "A" -> "ACL" [] c = "B" -> "BIND" [] c = "C" -> "CONNECT"
          [] c = "D" -> "DELETE" [] c = "G" -> "GET" [] c = "H" -> "HEAD"
          [] c = "L" -> "LOCK" [] c = "M" -> "MKCOL" [] c = "N" -> "NOTIFY"
          [] c = "O" -> "OPTIONS" [] c = "P" -> "POST" [] c = "R" -> "REPORT"
          [] c = "S" -> "SUBSCRIBE" [] c = "T" -> "TRACE" [] c = "U" -> "UNLOCK"]

StartRequest(x, ch) ==
    LET y == BeginMessage(x)
        z == [y EXCEPT !.p.method = FirstMethod[ch], !.p.index = 1]
    IN  IF ch \in CrLf THEN x
        ELSE IF ch \in DOMAIN FirstMethod
        THEN CALLBACK_NOTIFY(Goto(z, "s_req_method"), "message_begin")
        ELSE Fail(y, "INVALID_METHOD")

\* Where the guess at the method is corrected: method, position, letter, method.
MethodSwitch == {
    <<"POST", 1, "U", "PUT">>, <<"POST", 1, "A", "PATCH">>, <<"POST", 1, "R", "PROPFIND">>,
    <<"PUT", 2, "R", "PURGE">>, <<"CONNECT", 1, "H", "CHECKOUT">>,
    <<"CONNECT", 2, "P", "COPY">>, <<"MKCOL", 1, "O", "MOVE">>, <<"MKCOL", 1, "E", "MERGE">>,
    <<"MKCOL", 1, "-", "M-SEARCH">>, <<"MKCOL", 2, "A", "MKACTIVITY">>,
    <<"MKCOL", 3, "A", "MKCALENDAR">>, <<"SUBSCRIBE", 1, "E", "SEARCH">>,
    <<"REPORT", 2, "B", "REBIND">>, <<"PROPFIND", 4, "P", "PROPPATCH">>,
    <<"LOCK", 1, "I", "LINK">>, <<"UNLOCK", 2, "S", "UNSUBSCRIBE">>,
    <<"UNLOCK", 2, "B", "UNBIND">>, <<"UNLOCK", 3, "I", "UNLINK">> }

Method(x, ch) ==
    LET m == x.p.method
        k == x.p.index
        y == [x EXCEPT !.p.index = k + 1]
        switch == {w \in MethodSwitch : w[1] = m /\ w[2] = k /\ w[3] = ch}
    IN  IF ch = " " /\ k = Len(m) THEN Goto(y, "s_req_spaces_before_url")
        ELSE IF k < Len(m) /\ ch = At(m, k + 1) THEN y
        ELSE IF switch # {} THEN [y EXCEPT !.p.method = (CHOOSE w \in switch : TRUE)[4]]
        ELSE Fail(x, "INVALID_METHOD")

UrlByte(x, ch) ==
    LET s == parse_url_char(x.p.state, ch)
    IN  IF s = "s_dead" THEN Fail(Goto(x, s), "INVALID_URL") ELSE Goto(x, s)

\* A request for CONNECT names a server, every other one starts a URL.
RequestUrl(x, ch) ==
    LET s == x.p.state
        marked == MARK(x, "url")
    IN  CASE s = "s_req_spaces_before_url" ->
               IF ch = " " THEN x
               ELSE IF x.p.method = "CONNECT"
               THEN UrlByte(Goto(marked, "s_req_server_start"), ch)
               ELSE UrlByte(marked, ch)
          [] s \in {"s_req_schema", "s_req_schema_slash", "s_req_schema_slash_slash",
                    "s_req_server_start"} ->
               IF ch \in CrLf \cup {" "} THEN Fail(x, "INVALID_URL") ELSE UrlByte(x, ch)
          [] OTHER ->
               IF ch = " " THEN CALLBACK_DATA(Goto(x, "s_req_http_start"), "url")
               ELSE IF ch \in CrLf
               THEN CALLBACK_DATA(
                      [x EXCEPT !.p.http_major = 0, !.p.http_minor = 9,
                                !.p.state = IF ch = "\r" THEN "s_req_line_almost_done"
                                            ELSE "s_header_field_start"], "url")
               ELSE UrlByte(x, ch)

RequestVersion(x, ch) ==
    IF x.p.state = "s_req_http_start"
    THEN CASE ch = "H" -> Goto(x, "s_req_http_H")
           [] ch = " " -> x
           [] OTHER -> Fail(x, "INVALID_CONSTANT")
    ELSE CASE ch = "\r" -> Goto(x, "s_req_line_almost_done")
           [] ch = "\n" -> Goto(x, "s_header_field_start")
           [] OTHER -> Fail(x, "INVALID_VERSION")

-----------------------------------------------------------------------------
(***************************************************************************)
(* Header names.  The words the parser looks for, and the header_state a   *)
(* complete match leads to.                                                *)
(***************************************************************************)
HeaderNames == {
    <<"connection", "h_connection">>, <<"proxy-connection", "h_connection">>,
    <<"content-length", "h_content_length">>, <<"transfer-encoding", "h_transfer_encoding">>,
    <<"upgrade", "h_upgrade">> }

ChunkedWord == { <<"chunked", "h_transfer_encoding_chunked">> }

OptionWords == { <<"keep-alive", "h_connection_keep_alive">>,
                 <<"close", "h_connection_close">>, <<"upgrade", "h_connection_upgrade">> }

Begin(words, c) == {w \in words : At(w[1], 1) = c}

Match_Late(p, c, lost) ==
    LET k == p.index + 1
        left == {w \in p.cand : At(w[1], k) = c}
        whole == {w \in left : Len(w[1]) = k}
    IN  [p EXCEPT !.index = k, !.cand = left \ whole,
                  !.header_state = IF whole # {} THEN (CHOOSE w \in whole : TRUE)[2]
                                   ELSE IF left = {} THEN lost ELSE @]

\* One more letter c; a mismatch, or the end of the word, leads to the
\* header_state lost.
Match(p, c, lost) ==
    LET k == p.index + 1
        left == {w \in p.cand : k < Len(w[1]) /\ At(w[1], k + 1) = c}
        whole == {w \in left : Len(w[1]) = k + 1}
    IN  [p EXCEPT !.index = k, !.cand = left \ whole,
                  !.header_state = IF whole # {} THEN (CHOOSE w \in whole : TRUE)[2]
                                   ELSE IF left = {} THEN lost ELSE @]

General(p) == [p EXCEPT !.header_state = "h_general", !.cand = {}]

HeaderFieldStart(x, ch) ==
    LET c == tokens(ch)
        words == Begin(HeaderNames, c)
        y == MARK([x EXCEPT !.p.index = 0, !.p.state = "s_header_field"], "header_field")
    IN  CASE ch = "\r" -> Goto(x, "s_headers_almost_done")
          [] ch = "\n" -> Reexecute(x, "s_headers_almost_done")
          [] ch \notin Token \cup CrLf -> Fail(x, "INVALID_HEADER_TOKEN")
          [] OTHER -> [y EXCEPT !.p.cand = words,
                                !.p.header_state = IF words = {} THEN "h_general"
                                                   ELSE "h_matching"]

\* The inner loop has come to byte x.i, or past the last one: count what it read.
EndRun(x) == COUNT_HEADER_SIZE([x EXCEPT !.run = 0, !.fast = FALSE], x.i - x.run)

HeaderField(x, ch) ==
    LET in == IF x.run = 0 THEN [x EXCEPT !.run = x.i] ELSE x
        out == EndRun(in)
    IN  IF ch \in Token THEN
            [in EXCEPT !.p = IF @.header_state = "h_matching"
                             THEN Match(@, tokens(ch), "h_general") ELSE General(@)]
        ELSE IF out.ret # -1 THEN out
        ELSE IF ch = ":"
        THEN CALLBACK_DATA(Goto(out, "s_header_value_discard_ws"), "header_field")
        ELSE Fail(out, "INVALID_HEADER_TOKEN")

-----------------------------------------------------------------------------
(***************************************************************************)
(* Header values.                                                          *)
(***************************************************************************)
\* The words of Connection, after its name or after a comma.
OptionStart(p, c) ==
    LET words == Begin(OptionWords, c)
    IN  IF words = {} THEN [p EXCEPT !.header_state = "h_matching_connection_token", !.cand = {}]
        ELSE [p EXCEPT !.header_state = "h_matching_connection_word", !.cand = words]

HeaderValueStart(x, ch) ==
    LET y == MARK([x EXCEPT !.p.state = "s_header_value", !.p.index = 0], "header_value")
        c == LOWER(ch)
        h == x.p.header_state
    IN  CASE h = "h_upgrade" -> [Flag(y, "UPGRADE") EXCEPT !.p = General(@)]
          [] h = "h_transfer_encoding" ->
               IF c = "c" THEN [y EXCEPT !.p.header_state = "h_matching_chunked",
                                         !.p.cand = ChunkedWord]
               ELSE [y EXCEPT !.p = General(@)]
          [] h = "h_content_length" ->
               IF ch \notin Num THEN Fail(y, "INVALID_CONTENT_LENGTH")
               ELSE IF "CONTENTLENGTH" \in x.p.flags THEN Fail(y, "UNEXPECTED_CONTENT_LENGTH")
               ELSE [Flag(y, "CONTENTLENGTH") EXCEPT !.p.content_length = Unhex[ch]]
          [] h = "h_connection" -> [y EXCEPT !.p = OptionStart(@, c)]
          [] h = "h_matching_connection_token_start" -> y
          [] OTHER -> [y EXCEPT !.p = General(@)]

AddDigit_TestAfter(x, base, digit, e) ==
    LET t == (x.p.content_length * base + digit) % (UllongMax + 1)
    IN  IF t < x.p.content_length THEN Fail(x, e) ELSE [x EXCEPT !.p.content_length = t]

\* One more digit of a length in the given base.  The test is made on the
\* old value, so that the new one neither wraps nor reaches ULLONG_MAX.
AddDigit(x, base, digit, e) ==
    LET t == (x.p.content_length * base + digit) % (UllongMax + 1)
    IN  IF (UllongMax - base) \div base < x.p.content_length THEN Fail(x, e)
        ELSE [x EXCEPT !.p.content_length = t]

FlagOf == [h_connection_keep_alive |-> "CONNECTION_KEEP_ALIVE",
           h_connection_close |-> "CONNECTION_CLOSE",
           h_connection_upgrade |-> "CONNECTION_UPGRADE",
           h_transfer_encoding_chunked |-> "CHUNKED"]

OptionFlags == DOMAIN FlagOf \ {"h_transfer_encoding_chunked"}

NextOption(p) == [p EXCEPT !.header_state = "h_matching_connection_token_start", !.index = 0]

\* The switch on h_state for one character of a value.
ValueChar(x, ch) ==
    LET h == x.p.header_state
        c == LOWER(ch)
        token == [x EXCEPT !.p.header_state = "h_matching_connection_token"]
    IN  CASE h \in {"h_connection", "h_transfer_encoding"} -> assert(x, FALSE)
          [] h = "h_content_length" ->
               IF ch = " " THEN x
               ELSE IF ch \notin Num THEN Fail(x, "INVALID_CONTENT_LENGTH")
               ELSE AddDigit(x, 10, Unhex[ch], "INVALID_CONTENT_LENGTH")
          [] h = "h_matching_chunked" -> [x EXCEPT !.p = Match(@, c, "h_general")]
          [] h = "h_matching_connection_token_start" ->
               IF c \in Token THEN [x EXCEPT !.p = OptionStart(@, c)]
               ELSE IF c \in Blank THEN x ELSE [x EXCEPT !.p = General(@)]
          [] h = "h_matching_connection_word" ->
               [x EXCEPT !.p = Match(@, c, "h_matching_connection_token")]
          [] h = "h_matching_connection_token" ->
               IF ch = "," THEN [x EXCEPT !.p = NextOption(@)] ELSE x
          [] h = "h_transfer_encoding_chunked" -> IF ch = " " THEN x ELSE [x EXCEPT !.p = General(@)]
          [] h \in OptionFlags ->
               IF ch = "," THEN [Flag(x, FlagOf[h]) EXCEPT !.p = NextOption(@)]
               ELSE IF ch = " " THEN x ELSE token
          [] OTHER -> [x EXCEPT !.p = General(@)]

\* In h_general the first character is looked at and memchr skips the others
\* up to the end of the line: x.fast says that it has begun to skip.
HeaderValue(x, ch) ==
    LET in == IF x.run = 0 THEN [x EXCEPT !.run = x.i] ELSE x
        out == EndRun(in)
        done == CALLBACK_DATA(Goto(in, "s_header_almost_done"), "header_value")
    IN  CASE ch = "\r" -> IF done.ret = -1 THEN EndRun(done) ELSE done
          [] ch = "\n" ->
               IF out.ret # -1 THEN out
               ELSE Reexecute(CALLBACK_DATA_NOADVANCE(Goto(out, "s_header_almost_done"),
                                                      "header_value"),
                              "s_header_almost_done")
          [] in.fast /\ ch \notin CrLf -> in
          [] ~in.fast /\ ch \notin CrLf /\ ~IS_HEADER_CHAR(ch) -> Fail(in, "INVALID_HEADER_TOKEN")
          [] OTHER -> IF in.p.header_state = "h_general" THEN [in EXCEPT !.fast = TRUE]
                      ELSE ValueChar(in, ch)

\* What an option or a coding found in the value means is noted at its end.
NoteValue(x) == LET h == x.p.header_state
                IN  IF h \in DOMAIN FlagOf THEN Flag(x, FlagOf[h]) ELSE x

\* After the line: a line that starts with a blank continues the value.
HeaderValueLws(x, ch) ==
    IF ch \in Blank THEN Reexecute(x, "s_header_value_start")
    ELSE Reexecute(NoteValue(x), "s_header_field_start")

\* Before the value: blanks, possibly the end of the line.
HeaderValueDiscardWs(x, ch) ==
    CASE ch \in Blank -> x
      [] ch = "\r" -> Goto(x, "s_header_value_discard_ws_almost_done")
      [] ch = "\n" -> Goto(x, "s_header_value_discard_lws")
      [] OTHER -> HeaderValueStart(x, ch)

\* An empty value, unless the next line continues it.
HeaderValueDiscardLws(x, ch) ==
    LET y == Goto(MARK(NoteValue(x), "header_value"), "s_header_field_start")
    IN  IF ch \in Blank THEN Goto(x, "s_header_value_discard_ws")
        ELSE Reexecute(CALLBACK_DATA_NOADVANCE(y, "header_value"), "s_header_field_start")

-----------------------------------------------------------------------------
(***************************************************************************)
(* The end of the headers, and what follows them.                          *)
(***************************************************************************)
HeadersAlmostDone(x, ch) ==
    LET upgrade == IF {"UPGRADE", "CONNECTION_UPGRADE"} \subseteq x.p.flags
                   THEN x.p.type = HTTP_REQUEST \/ x.p.status_code = 101
                   ELSE x.p.method = "CONNECT"
    IN  CASE ch # "\n" -> Fail(x, "STRICT")
          [] ch = "\n" /\ "TRAILING" \in x.p.flags ->
               Reexecute(CALLBACK_NOTIFY_NOADVANCE(Goto(x, "s_message_done"), "chunk_complete"),
                         "s_message_done")
          [] ch = "\n" /\ "TRAILING" \notin x.p.flags ->
               IF {"CHUNKED", "CONTENTLENGTH"} \subseteq x.p.flags
               THEN Fail(x, "UNEXPECTED_CONTENT_LENGTH")
               ELSE Reexecute([x EXCEPT !.p.upgrade = upgrade], "s_headers_done")

\* The message ends here: the next state is chosen before the callback runs.
MessageComplete(x) == CALLBACK_NOTIFY(Goto(x, NEW_MESSAGE(x.p)), "message_complete")

HeadersRead_KeepCount(x) == x
HeadersRead(x) == [x EXCEPT !.p.nread = 0]

HeadersDone(x, ch) ==
    LET y == HeadersRead(x)
        done == MessageComplete(y)
        hasBody == "CHUNKED" \in x.p.flags \/ x.p.content_length \in 1..(UllongMax - 1)
    IN  CASE ch # "\n" -> Fail(x, "STRICT")
          [] ch = "\n" /\ x.p.upgrade /\ (x.p.method = "CONNECT" \/ ~hasBody) ->
               IF done.ret = -1 THEN Return(done, done.i) ELSE done
          [] OTHER ->
               IF "CHUNKED" \in x.p.flags THEN Goto(y, "s_chunk_size_start")
               ELSE IF x.p.content_length = 0 THEN done
               ELSE IF x.p.content_length # UllongMax THEN Goto(y, "s_body_identity")
               ELSE IF http_message_needs_eof(x.p) THEN Goto(y, "s_body_identity_eof")
               ELSE done

MessageDone(x) ==
    LET done == MessageComplete(x)
    IN  IF done.ret = -1 /\ done.p.upgrade THEN Return(done, done.i) ELSE done

LengthKnown(p) == p.content_length \notin {0, UllongMax}
OneByteLess(x) == [x EXCEPT !.p.content_length = @ - 1]

\* A body of known length: the last byte is handed over and the message is done.
BodyIdentity(x) ==
    LET y == OneByteLess(MARK(assert(x, LengthKnown(x.p)), "body"))
    IN  IF y.p.content_length # 0 THEN y
        ELSE Reexecute(CALLBACK_DATA_(Goto(y, "s_message_done"), "body", y.i, y.i - 1),
                       "s_message_done")

-----------------------------------------------------------------------------
(***************************************************************************)
(* Chunks.                                                                 *)
(***************************************************************************)
ChunkSizeStart(x, ch) ==
    LET y == assert(x, x.p.nread = 1)
    IN  IF ch \notin Hex THEN Fail(y, "INVALID_CHUNK_SIZE")
        ELSE Goto([y EXCEPT !.p.content_length = Unhex[ch]], "s_chunk_size")

ChunkSize(x, ch) ==
    CASE ch = "\r" -> Goto(x, "s_chunk_size_almost_done")
      [] ch \in Hex -> AddDigit(x, 16, Unhex[ch], "INVALID_CONTENT_LENGTH")
      [] ch \in {";", " "} -> Goto(x, "s_chunk_parameters")
      [] OTHER -> Fail(x, "INVALID_CHUNK_SIZE")

ChunkParameters(x, ch) == IF ch = "\r" THEN Goto(x, "s_chunk_size_almost_done") ELSE x

\* A chunk of size zero is the last; trailing headers may follow it.
ChunkSizeAlmostDone(x, ch) ==
    LET y == [x EXCEPT !.p.nread = 0]
    IN  IF ch # "\n" THEN Fail(x, "STRICT")
        ELSE CALLBACK_NOTIFY(IF x.p.content_length = 0
                             THEN Goto(Flag(y, "TRAILING"), "s_header_field_start")
                             ELSE Goto(y, "s_chunk_data"), "chunk_header")

ChunkData(x) ==
    LET y == OneByteLess(MARK(assert(x, LengthKnown(x.p)), "body"))
    IN  IF y.p.content_length = 0 THEN Goto(y, "s_chunk_data_almost_done") ELSE y

ChunkDataAlmostDone(x, ch) ==
    LET y == assert(x, x.p.content_length = 0)
    IN  IF ch # "\r" THEN Fail(y, "STRICT")
        ELSE CALLBACK_DATA(Goto(y, "s_chunk_data_done"), "body")

ChunkDataDone(x, ch) ==
    IF ch # "\n" THEN Fail(x, "STRICT")
    ELSE CALLBACK_NOTIFY(Goto([x EXCEPT !.p.nread = 0], "s_chunk_size_start"), "chunk_complete")

ChunkByte(x0, ch) ==
    LET x == assert(x0, "CHUNKED" \in x0.p.flags)
        s == x.p.state
    IN  CASE s = "s_chunk_size_start" -> ChunkSizeStart(x, ch)
          [] s = "s_chunk_size" -> ChunkSize(x, ch)
          [] s = "s_chunk_parameters" -> ChunkParameters(x, ch)
          [] s = "s_chunk_size_almost_done" -> ChunkSizeAlmostDone(x, ch)
          [] s = "s_chunk_data" -> ChunkData(x)
          [] s = "s_chunk_data_almost_done" -> ChunkDataAlmostDone(x, ch)
          [] s = "s_chunk_data_done" -> ChunkDataDone(x, ch)

-----------------------------------------------------------------------------
(***************************************************************************)
(* http_parser_execute.                                                    *)
(***************************************************************************)
ChunkStates == ChunkLineStates \cup {"s_chunk_data", "s_chunk_data_almost_done",
                                     "s_chunk_data_done"}

VersionStates == {"s_res_http_major", "s_res_http_minor", "s_req_http_major",
                  "s_req_http_minor"}

\* After a message that ends the connection only line ends may follow.
Dead(x, ch) == IF ch \in CrLf THEN x ELSE Fail(x, "CLOSED_CONNECTION")

\* The switch on the state.
Dispatch(x) ==
    LET ch == At(x.data, x.i)
        s  == x.p.state
    IN  CASE s = "s_dead" -> Dead(x, ch)
          [] s = "s_start_res" -> StartResponse(x, ch)
          [] s \in DOMAIN Expected -> Expect(x, ch)
          [] s \in VersionStates -> VersionDigit(x, ch)
          [] s \in {"s_res_first_status_code", "s_res_status_code"} -> StatusCode(x, ch)
          [] s \in {"s_res_status_start", "s_res_status"} -> StatusText(x, ch)
          [] s = "s_start_req" -> StartRequest(x, ch)
          [] s = "s_req_method" -> Method(x, ch)
          [] s \in DOMAIN UrlTable -> RequestUrl(x, ch)
          [] s \in {"s_req_http_start", "s_req_http_end"} -> RequestVersion(x, ch)
          [] s = "s_header_field_start" -> HeaderFieldStart(x, ch)
          [] s = "s_header_field" -> HeaderField(x, ch)
          [] s = "s_header_value_discard_ws" -> HeaderValueDiscardWs(x, ch)
          [] s = "s_header_value_start" -> HeaderValueStart(x, ch)
          [] s = "s_header_value" -> HeaderValue(x, ch)
          [] s = "s_header_value_lws" -> HeaderValueLws(x, ch)
          [] s = "s_header_value_discard_lws" -> HeaderValueDiscardLws(x, ch)
          [] s = "s_headers_almost_done" -> HeadersAlmostDone(x, ch)
          [] s = "s_headers_done" -> HeadersDone(x, ch)
          [] s = "s_body_identity" -> BodyIdentity(x)
          [] s = "s_body_identity_eof" -> MARK(x, "body")
          [] s = "s_message_done" -> MessageDone(x)
          [] s \in ChunkStates -> ChunkByte(x, ch)

\* REEXECUTE(): the same byte again in the new state, never more than three times.
Again(x) == IF x.again /\ x.ret = -1 THEN Dispatch([x EXCEPT !.again = FALSE]) ELSE x

NextByte(x) == IF x.ret # -1 THEN x ELSE [assert(x, ~x.again) EXCEPT !.i = @ + 1]

\* One turn of the loop.  Inside an inner loop the byte is counted at its end.
Byte(x) ==
    IF x.ret # -1 THEN x
    ELSE NextByte(Again(Again(Again(Again(
           [COUNT_HEADER_SIZE(x, IF x.run = 0 /\ PARSING_HEADER(x.p.state) THEN 1 ELSE 0)
            EXCEPT !.again = TRUE])))))

FirstMarks_NoValue(p) ==
    [kind \in MarkKinds |->
        CASE kind = "header_field" -> IF p.state = "s_header_field" THEN 1 ELSE 0
          [] kind = "url" -> IF p.state \in UrlStates THEN 1 ELSE 0
          [] kind = "status" -> IF p.state = "s_res_status" THEN 1 ELSE 0
          [] kind \in {"body", "header_value"} -> 0]

\* The marks a call starts with: what the previous call left unfinished.
FirstMarks(p) ==
    [kind \in MarkKinds |->
        CASE kind = "header_field" -> IF p.state = "s_header_field" THEN 1 ELSE 0
          [] kind = "header_value" -> IF p.state = "s_header_value" THEN 1 ELSE 0
          [] kind = "url" -> IF p.state \in UrlStates THEN 1 ELSE 0
          [] kind = "status" -> IF p.state = "s_res_status" THEN 1 ELSE 0
          [] kind = "body" -> 0]

\* The bytes are used up: what was marked is handed over.
Leftover(x) ==
    LET set == {kind \in MarkKinds : x.mark[kind] # 0}
        y == IF x.run # 0 THEN EndRun(x) ELSE x
        z == assert(y, \A k, l \in set : k = l)
    IN  IF y.ret # -1 THEN y
        ELSE IF set = {} THEN Return(z, Len(x.data))
        ELSE LET w == CALLBACK_DATA_NOADVANCE(z, CHOOSE k \in set : TRUE)
             IN  IF w.ret # -1 THEN w ELSE Return(w, Len(x.data))

Call(p, u, data) == [p |-> p, u |-> u, data |-> data, i |-> 1, run |-> 0, fast |-> FALSE,
                     again |-> FALSE, mark |-> FirstMarks(p), ret |-> -1, failed |-> FALSE]

\* The end of the stream, a call with no bytes.
ExecuteEof(p, u) ==
    LET x == Call(p, u, "")
    IN  CASE p.state = "s_body_identity_eof" ->
               LET y == CALLBACK_NOTIFY_NOADVANCE(x, "message_complete")
               IN  IF y.ret # -1 THEN y ELSE Return(y, 0)
          [] p.state \in {"s_dead", "s_start_res", "s_start_req"} -> Return(x, 0)
          [] OTHER -> Return([x EXCEPT !.p.http_errno = "INVALID_EOF_STATE"], 1)

Ended(x) == IF x.ret = -1 THEN Leftover(x) ELSE x

\* The loop over the bytes: turn[k] is the call after k of them.
Loop(p, u, data) ==
    LET turn[k \in 0..Len(data)] == IF k = 0 THEN Call(p, u, data) ELSE Byte(turn[k - 1])
    IN  turn[Len(data)]

http_parser_execute(p, u, data) ==
    IF p.http_errno # "OK" THEN Return(Call(p, u, data), 0)
    ELSE IF data = "" THEN ExecuteEof(p, u)
    ELSE Ended(Loop(p, u, data))
=============================================================================
