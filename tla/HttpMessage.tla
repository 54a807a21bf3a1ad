---------------------------- MODULE HttpMessage ----------------------------
(***************************************************************************)
(* The state of a parser, struct http_parser, and the questions that       *)
(* http_parser.c answers about it between two calls of                     *)
(* http_parser_execute.                                                    *)
(***************************************************************************)
EXTENDS HttpUrl

CONSTANT UllongMax      \* ULLONG_MAX, also "no length given"

ASSUME HttpMessageAssumption == UllongMax \in Nat /\ UllongMax > 32

HTTP_REQUEST  == "request"
HTTP_RESPONSE == "response"

(***************************************************************************)
(* The enumerations of the parser.  The states only HTTP_BOTH can be in    *)
(* are left out, and the header_states that spell a word letter by letter  *)
(* are one, h_matching and its like (see HttpParser).                      *)
(***************************************************************************)
ResponseLineStates == {
    "s_start_res", "s_res_H", "s_res_HT", "s_res_HTT", "s_res_HTTP", "s_res_http_major",
    "s_res_http_dot", "s_res_http_minor", "s_res_http_end", "s_res_first_status_code",
    "s_res_status_code", "s_res_status_start", "s_res_status", "s_res_line_almost_done" }

RequestLineStates ==
    {"s_start_req", "s_req_method"} \cup DOMAIN UrlTable \cup
    { "s_req_http_start", "s_req_http_H", "s_req_http_HT", "s_req_http_HTT",
      "s_req_http_HTTP", "s_req_http_major", "s_req_http_dot", "s_req_http_minor",
      "s_req_http_end", "s_req_line_almost_done" }

HeaderLineStates == {
    "s_header_field_start", "s_header_field", "s_header_value_discard_ws",
    "s_header_value_discard_ws_almost_done", "s_header_value_discard_lws",
    "s_header_value_start", "s_header_value", "s_header_value_lws",
    "s_header_almost_done", "s_headers_almost_done", "s_headers_done" }

ChunkLineStates == {"s_chunk_size_start", "s_chunk_size", "s_chunk_parameters",
                    "s_chunk_size_almost_done"}

BodyStates == {"s_chunk_data", "s_chunk_data_almost_done", "s_chunk_data_done",
               "s_body_identity", "s_body_identity_eof", "s_message_done"}

StatesOf(t) ==
    {"s_dead"} \cup HeaderLineStates \cup ChunkLineStates \cup BodyStates \cup
    IF t = HTTP_REQUEST THEN RequestLineStates ELSE ResponseLineStates

HeaderStates == {
    "h_general", "h_matching", "h_connection", "h_content_length", "h_transfer_encoding",
    "h_upgrade", "h_matching_chunked", "h_matching_connection_token_start",
    "h_matching_connection_word", "h_matching_connection_token",
    "h_transfer_encoding_chunked", "h_connection_keep_alive", "h_connection_close",
    "h_connection_upgrade" }

FlagNames == {"CHUNKED", "CONNECTION_KEEP_ALIVE", "CONNECTION_CLOSE", "CONNECTION_UPGRADE",
              "TRAILING", "UPGRADE", "SKIPBODY", "CONTENTLENGTH"}

CallbackErrnos == {"CB_" \o kind : kind \in {
    "message_begin", "url", "header_field", "header_value", "headers_complete", "body",
    "message_complete", "status", "chunk_header", "chunk_complete"}}

ParsingErrnos == {
    "INVALID_EOF_STATE", "HEADER_OVERFLOW", "CLOSED_CONNECTION", "INVALID_VERSION",
    "INVALID_STATUS", "INVALID_METHOD", "INVALID_URL", "INVALID_HOST", "INVALID_PORT",
    "INVALID_PATH", "INVALID_QUERY_STRING", "INVALID_FRAGMENT", "LF_EXPECTED",
    "INVALID_HEADER_TOKEN", "INVALID_CONTENT_LENGTH", "UNEXPECTED_CONTENT_LENGTH",
    "INVALID_CHUNK_SIZE", "INVALID_CONSTANT", "INVALID_INTERNAL_STATE", "STRICT",
    "PAUSED", "UNKNOWN" }

\* struct http_parser with the widths of its bit fields; nread is bounded in Response.
FitsFields(p) ==
    /\ p.type \in {HTTP_REQUEST, HTTP_RESPONSE}
    /\ p.state \in StatesOf(p.type)
    /\ p.header_state \in HeaderStates
    /\ p.flags \subseteq FlagNames
    /\ p.index \in 0..127
    /\ p.content_length \in 0..UllongMax
    /\ p.http_major \in 0..65535 /\ p.http_minor \in 0..65535
    /\ p.status_code \in 0..65535
    /\ p.http_errno \in {"OK"} \cup CallbackErrnos \cup ParsingErrnos
    /\ p.upgrade \in BOOLEAN

-----------------------------------------------------------------------------

\* http_parser_init: everything zeroed but the data pointer, which is x.u here.
http_parser_init(t) ==
    [type |-> t, state |-> IF t = HTTP_REQUEST THEN "s_start_req" ELSE "s_start_res",
     flags |-> {}, header_state |-> "h_general", cand |-> {}, index |-> 0, nread |-> 0,
     content_length |-> 0, http_major |-> 0, http_minor |-> 0, status_code |-> 0,
     method |-> "DELETE", http_errno |-> "OK", upgrade |-> FALSE]

start_state(p) == IF p.type = HTTP_REQUEST THEN "s_start_req" ELSE "s_start_res"

http_message_needs_eof(p) ==
    /\ p.type = HTTP_RESPONSE
    /\ p.status_code \div 100 # 1
    /\ p.status_code \notin {204, 304}
    /\ "CHUNKED" \notin p.flags
    /\ p.content_length = UllongMax

\* Version 1.1 keeps the connection unless told otherwise, the others do not.
http_should_keep_alive(p) ==
    /\ IF p.http_major > 0 /\ p.http_minor > 0
       THEN "CONNECTION_CLOSE" \notin p.flags
       ELSE "CONNECTION_KEEP_ALIVE" \in p.flags
    /\ ~http_message_needs_eof(p)

http_body_is_final(p) == p.state = "s_message_done"

NEW_MESSAGE(p) == IF http_should_keep_alive(p) THEN start_state(p) ELSE "s_dead"
=============================================================================
