------------------------------- MODULE MCMain -------------------------------
(***************************************************************************)
(* Uses of wrk for Main: one varies the options, one the URL, one the      *)
(* script, one the answers.                                                *)
(***************************************************************************)
EXTENDS Main

Arg(n, unit) == [n |-> n, unit |-> unit]
Opt(o, arg) == [opt |-> o, arg |-> arg]
HeaderArg(name, value, spaced) == Opt("H", [name |-> name, value |-> value, spaced |-> spaced])

Url(scheme, userinfo, host, port, rest) ==
    [scheme |-> scheme, userinfo |-> userinfo, host |-> host, port |-> port, rest |-> rest]
PlainUrl == Url("http", "", "h", "", "/")

Script(method, path, body, calls) ==
    [method |-> method, path |-> path, body |-> body, calls |-> calls,
     leaves |-> << >>, done |-> FALSE]
NoScript == Script("-", "-", "-", << >>)

Accepting(text) == [text |-> text, accepts |-> TRUE]
Refusing(text) == [text |-> text, accepts |-> FALSE]

Use(opts, url, script, runs) ==
    [opts |-> opts, url |-> url, script |-> script, tls |-> url.userinfo = "",
     runs |-> IF runs THEN MaxRun ELSE 0, lookup |-> {<< >>, <<Accepting("v4")>>},
     lua |-> [calls |-> 0, values |-> {}, tables |-> FALSE]]

\* Options in any order of the three numbers, with and without units, repeated.
NumberArgs == {Arg(0, ""), Arg(1, ""), Arg(2, "k"), Arg(3, ""), Arg(1, "m"), Arg(1, "x"),
               Arg(2, "g"), Arg(NoNumber, "")}
TimeArgs == {Arg(0, "s"), Arg(2, "s"), Arg(90, ""), Arg(3, "m"), Arg(300, "h"), Arg(5, "k"), Arg(7, "")}

OptionUses ==
    {Use(<<Opt("t", a), Opt("L", "-"), Opt("c", b)>>, PlainUrl, NoScript, FALSE) :
       a \in NumberArgs, b \in NumberArgs}
    \cup {Use(<<Opt("d", a), Opt("T", b), Opt("d", Arg(1, "m")), Opt(o, "-")>>, PlainUrl,
              NoScript, FALSE) : a \in TimeArgs, b \in TimeArgs, o \in {"e", "v", "?"}}

UrlUses ==
    {Use(<<HeaderArg("a", "b", s), HeaderArg(n, "z", TRUE)>>, Url(scheme, user, host, port, rest),
         NoScript, FALSE) :
       s \in BOOLEAN, n \in {"Host", "Content-Length"}, scheme \in {"http", "https"},
       user \in {"", "u:p@"}, host \in {"h", "a.b-1", "[::1]", "[fe]", "[fe80::1%25e]", "_"},
       port \in {"", ":8", ":80", ":70000"}, rest \in {"", "/", "/p?q=1#f", "?q"}}

Request(method, target, tail) ==
    [method |-> method, whole |-> TRUE,
     text |-> method \o " " \o target \o " HTTP/1.1\r\nHost: h\r\n" \o tail]
Plain(method) == Request(method, IF method = "CONNECT" THEN "h:1" ELSE "/", "\r\n")
Posted == Request("POST", "/p", "Content-Length: 2\r\n\r\nab")
Cut(call) == [call EXCEPT !.whole = FALSE, !.text = SubSeq(@, 1, Len(@) - 2)]
Chunky == Request("PUT", "/", "Transfer-Encoding: chunked\r\n\r\n1\r\na\r\n0\r\n\r\n")

ScriptUses ==
    {Use(<< >>, PlainUrl, Script("-", "-", "-", <<Plain(P!method_strings[k])>>), FALSE) :
       k \in DOMAIN P!method_strings}
    \cup {Use(<< >>, PlainUrl, Script("-", "-", "-", calls), FALSE) :
            calls \in {<<Posted, Plain("GET")>>, <<Plain("GET"), Plain("GET"), Chunky>>,
                       <<Cut(Posted)>>, <<Cut(Plain("GET"))>>, <<Posted, Cut(Plain("GET"))>>,
                       <<[Plain("GET") EXCEPT !.text = "", !.whole = FALSE]>>}}
    \cup {Use(<< >>, PlainUrl, Script(m, p, b, << >>), FALSE) :
            m \in {"-", "PUT"}, p \in {"-", "/q"}, b \in {"-", "ab"}}

\* Two connections, one or two requests at a time; three, of which the two
\* threads use two, or one thread all for a shorter time.
RunUses ==
    LET single == NoScript
        double == Script("-", "-", "-", <<Plain("GET"), Plain("GET")>>)
        three  == <<Opt("c", Arg(3, ""))>>
    IN  {Use(<<Opt("c", Arg(2, ""))>>, PlainUrl, s, TRUE) : s \in {single, double}}
        \cup {Use(three, PlainUrl, single, TRUE)}
        \cup {[Use(three \o <<Opt("t", Arg(1, ""))>>, PlainUrl, single, TRUE) EXCEPT !.runs = 4]}

\* Scripts with setup() and done(), or with a file that returns a value; the
\* resolver finds no address, one, or several of which some refuse.
Flat == Table(<<<<String("k"), String("v")>>, <<Value("number", "2", << >>), Value("boolean", "b", << >>)>>>>)

LuaUse(lua, leaves) ==
    [Use(<<Opt("c", Arg(2, ""))>>, PlainUrl,
         [NoScript EXCEPT !.leaves = leaves, !.done = leaves = << >>], FALSE)
       EXCEPT !.runs = 1, !.lua = lua,
              !.lookup = {<<Refusing("v4")>>, <<Refusing("v6"), Accepting("v4"), Accepting("v6")>>}]

LuaUses ==
    {LuaUse([calls |-> 3, values |-> {Flat, Nil, String("s"), String("s|t"), Function},
             tables |-> FALSE], leaves) : leaves \in {<< >>, <<String("left")>>}}

\* ... and such that get tables from a thread.
TableUses ==
    {LuaUse([calls |-> 2, values |-> {Flat, Nil}, tables |-> TRUE], << >>)}

MCUses == LuaUses \cup OptionUses \cup UrlUses \cup ScriptUses \cup RunUses
=============================================================================
