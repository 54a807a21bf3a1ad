------------------------------- MODULE HttpUrl -------------------------------
(***************************************************************************)
(* The character classes and the URL parser of http_parser.c: the table    *)
(* parse_url_char, which http_parser_execute also uses for the target of a *)
(* request, http_parser_parse_url, and http_parse_host.                    *)
(*                                                                         *)
(* Text is a string, which in TLA+ is the sequence of its characters; a    *)
(* pointer into it is an index, 0 the pointer to nowhere.  The classes are *)
(* those of a build with HTTP_PARSER_STRICT, the default; the back quote,  *)
(* which a TLA+ string cannot hold, is left out of them.                   *)
(***************************************************************************)
EXTENDS Integers, Sequences, SequencesExt

\* The i-th character of a text, and the characters a text consists of.
At(s, i) == SubSeq(s, i, i)
Chars(s) == {At(s, i) : i \in 1..Len(s)}

\* The digits, as they stand in unhex[]; the letters among them in either case.
HexDigits == <<"0", "1", "2", "3", "4", "5", "6", "7", "8", "9",
               "a", "b", "c", "d", "e", "f">>
HexUpper  == <<"A", "B", "C", "D", "E", "F">>

Num   == {HexDigits[i] : i \in 1..10}
Hex   == {HexDigits[i] : i \in 1..16} \cup {HexUpper[i] : i \in 1..6}
Upper == Chars("ABCDEFGHIJKLMNOPQRSTUVWXYZ")
Alpha == Chars("abcdefghijklmnopqrstuvwxyz") \cup Upper
Mark  == Chars("-_.!~*'()")
Userinfo == Alpha \cup Num \cup Mark \cup Chars("%;:&=+$,")
HostChar == Alpha \cup Num \cup Chars(".-")
ZoneChar == Alpha \cup Num \cup Chars("%.-_~")

\* tokens[]: what a header name is made of.
Token == Alpha \cup Num \cup Chars("!#$%&'*+-.^_|~")

\* normal_url_char[]: the visible characters but '?' and '#'.
UrlChar == Alpha \cup Num \cup Chars("!\"$%&'()*+,-./:;<=>@[\\]^_{|}~")

\* unhex[]: what a digit counts.
Unhex == [c \in Hex |->
            IF \E i \in 1..16 : HexDigits[i] = c
            THEN (CHOOSE i \in 1..16 : HexDigits[i] = c) - 1
            ELSE (CHOOSE i \in 1..6 : HexUpper[i] = c) + 9]

-----------------------------------------------------------------------------
(***************************************************************************)
(* A state table: from each state, the sets of characters that lead on.    *)
(* What is in no row leads to the dead state.                              *)
(***************************************************************************)
Follow(table, s, ch, dead) ==
    IF s \in DOMAIN table /\ \E r \in table[s] : ch \in r[1]
    THEN (CHOOSE r \in table[s] : ch \in r[1])[2]
    ELSE dead

ServerRows == { <<{"/"}, "s_req_path">>, <<{"?"}, "s_req_query_string_start">>,
                <<{"@"}, "s_req_server_with_at">>,
                <<Userinfo \cup {"[", "]"}, "s_req_server">> }

QueryRows == { <<UrlChar \cup {"?"}, "s_req_query_string">>,
               <<{"#"}, "s_req_fragment_start">> }

UrlTable == [
    s_req_spaces_before_url |-> { <<{"/", "*"}, "s_req_path">>, <<Alpha, "s_req_schema">> },
    s_req_schema |-> { <<Alpha, "s_req_schema">>, <<{":"}, "s_req_schema_slash">> },
    s_req_schema_slash |-> { <<{"/"}, "s_req_schema_slash_slash">> },
    s_req_schema_slash_slash |-> { <<{"/"}, "s_req_server_start">> },
    s_req_server_start |-> ServerRows,
    s_req_server |-> ServerRows,
    s_req_server_with_at |-> {r \in ServerRows : "@" \notin r[1]},
    s_req_path |-> { <<UrlChar, "s_req_path">>, <<{"?"}, "s_req_query_string_start">>,
                     <<{"#"}, "s_req_fragment_start">> },
    s_req_query_string_start |-> QueryRows,
    s_req_query_string |-> QueryRows,
    s_req_fragment_start |-> { <<UrlChar \cup {"?"}, "s_req_fragment">>,
                               <<{"#"}, "s_req_fragment_start">> },
    s_req_fragment |-> { <<UrlChar \cup {"?", "#"}, "s_req_fragment">> } ]

parse_url_char(s, ch) == Follow(UrlTable, s, ch, "s_dead")

\* The states in which a request's target is being read (url_mark is set).
UrlStates == DOMAIN UrlTable \ {"s_req_spaces_before_url"}

-----------------------------------------------------------------------------
(***************************************************************************)
(* A parsed URL, struct http_parser_url: the fields found, and for each    *)
(* the offset of its first character and its length.                       *)
(***************************************************************************)
UrlFields == {"schema", "host", "port", "path", "query", "fragment", "userinfo"}

NoUrl == [set |-> {}, off |-> [f \in UrlFields |-> 0], len |-> [f \in UrlFields |-> 0],
          port |-> 0]

FieldText(buf, u, f) ==
    IF f \in u.set THEN SubSeq(buf, u.off[f], u.off[f] + u.len[f] - 1) ELSE ""

StartField(u, f, i) == [u EXCEPT !.set = @ \cup {f}, !.off[f] = i, !.len[f] = 1]
GrowField(u, f) == [u EXCEPT !.len[f] = @ + 1]

UserinfoRows == { <<{"@"}, "s_http_host_start">>, <<Userinfo, "s_http_userinfo">> }
PortRows == { <<Num, "s_http_host_port">> }
ZoneRows == { <<ZoneChar, "s_http_host_v6_zone">> }
V6Rows   == { <<Hex \cup {":", "."}, "s_http_host_v6">> }

HostTable == [
    s_http_userinfo_start |-> UserinfoRows,
    s_http_userinfo |-> UserinfoRows,
    s_http_host_start |-> { <<{"["}, "s_http_host_v6_start">>, <<HostChar, "s_http_host">> },
    s_http_host |-> { <<HostChar, "s_http_host">>, <<{":"}, "s_http_host_port_start">> },
    s_http_host_v6_start |-> V6Rows,
    s_http_host_v6 |-> V6Rows \cup { <<{"]"}, "s_http_host_v6_end">>,
                                     <<{"%"}, "s_http_host_v6_zone_start">> },
    s_http_host_v6_end |-> { <<{":"}, "s_http_host_port_start">> },
    s_http_host_v6_zone_start |-> ZoneRows,
    s_http_host_v6_zone |-> ZoneRows \cup { <<{"]"}, "s_http_host_v6_end">> },
    s_http_host_port_start |-> PortRows,
    s_http_host_port |-> PortRows ]

http_parse_host_char(s, ch) == Follow(HostTable, s, ch, "s_http_host_dead")

\* The offset of the host moves to the first character of the name or address.
HostField(u, s, new, i) ==
    LET begins(f) == IF s = new THEN GrowField(u, f) ELSE StartField(u, f, i)
    IN  CASE new \in {"s_http_host", "s_http_host_v6"} ->
               IF s = new THEN GrowField(u, "host")
               ELSE [GrowField(u, "host") EXCEPT !.off["host"] = i]
          [] new \in {"s_http_host_v6_zone_start", "s_http_host_v6_zone"} -> GrowField(u, "host")
          [] new = "s_http_host_port" -> begins("port")
          [] new = "s_http_userinfo" -> begins("userinfo")
          [] OTHER -> u

HostMayEnd == {"s_http_host", "s_http_host_v6_end", "s_http_host_port"}

\* The authority of the URL, divided; ok is FALSE where the code returns 1.
http_parse_host(buf, u0, found_at) ==
    LET first == u0.off["host"]
        Char(a, i) ==
            LET new == http_parse_host_char(a.s, At(buf, i))
            IN  [s |-> new, u |-> IF new = "s_http_host_dead" THEN a.u
                                  ELSE HostField(a.u, a.s, new, i)]
        end == FoldLeft(Char,
                 [s |-> IF found_at THEN "s_http_userinfo_start" ELSE "s_http_host_start",
                  u |-> [u0 EXCEPT !.len["host"] = 0]],
                 [k \in 1..u0.len["host"] |-> first + k - 1])
    IN  [ok |-> end.s \in HostMayEnd, u |-> end.u]

-----------------------------------------------------------------------------
(***************************************************************************)
(* http_parser_parse_url: one pass that follows parse_url_char and opens a *)
(* field whenever the kind of text changes, then the host, then the port.  *)
(***************************************************************************)
FieldOf == [s_req_schema |-> "schema", s_req_server |-> "host",
            s_req_server_with_at |-> "host", s_req_path |-> "path",
            s_req_query_string |-> "query", s_req_fragment |-> "fragment"]

UrlStep(buf, a, i) ==
    LET s == parse_url_char(a.s, At(buf, i))
        b == [a EXCEPT !.s = s, !.at = @ \/ s = "s_req_server_with_at"]
    IN  IF s \notin DOMAIN FieldOf THEN b      \* a delimiter, or dead
        ELSE IF FieldOf[s] = a.old THEN [b EXCEPT !.u = GrowField(@, a.old)]
        ELSE [b EXCEPT !.u = StartField(@, FieldOf[s], i), !.old = FieldOf[s]]

\* strtoul of the digits of the port.
PortNumber(buf, u) ==
    FoldLeft(LAMBDA v, i : v * 10 + Unhex[At(buf, i)], 0,
             [k \in 1..u.len["port"] |-> u.off["port"] + k - 1])

MaxPort == 65535

\* The fields, once the authority is divided and the port is a number.
Parsed(dead, h, port) ==
    [ok |-> ~dead /\ h.ok /\ port <= MaxPort,
     u  |-> [h.u EXCEPT !.port = IF port <= MaxPort THEN port ELSE 0]]

Ported(buf, dead, h) ==
    Parsed(dead, h, IF "port" \in h.u.set THEN PortNumber(buf, h.u) ELSE 0)

Hosted(buf, a) ==
    Ported(buf, a.s = "s_dead",
           IF "host" \in a.u.set THEN http_parse_host(buf, a.u, a.at)
           ELSE [ok |-> "schema" \notin a.u.set, u |-> a.u])

http_parser_parse_url(buf) ==
    Hosted(buf, FoldLeft(LAMBDA b, i : UrlStep(buf, b, i),
                         [s |-> "s_req_spaces_before_url", old |-> "none", at |-> FALSE,
                          u |-> NoUrl],
                         [i \in 1..Len(buf) |-> i]))

\* script_parse_url: wrk's argument must also have a scheme and a host.
script_parse_url(url) ==
    LET r == http_parser_parse_url(url)
    IN  [ok |-> r.ok /\ {"schema", "host"} \subseteq r.u.set, u |-> r.u]
=============================================================================
