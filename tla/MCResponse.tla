----------------------------- MODULE MCResponse -----------------------------
(***************************************************************************)
(* Streams for Response: messages written out the way servers write them,  *)
(* each with what was meant.                                               *)
(***************************************************************************)
EXTENDS Response

Line(name, value) == [text |-> name \o ": " \o value \o "\r\n", name |-> name, value |-> value]

\* A value on two lines, an empty one, one after line ends without CR.
FoldedLine == [text |-> "x: y\r\n z\r\n", name |-> "x", value |-> "y z"]
EmptyLine  == [text |-> "x:\r\n", name |-> "x", value |-> ""]
BareLine   == [text |-> "con: y\n", name |-> "con", value |-> "y"]

Close     == Line("connection", "close")
CloseToo  == Line("connection", "upgrade, close")
KeepAlive == Line("connection", "x, keep-alive")
\* LOWER makes the tab a parenthesis: the option behind it is not seen.
TabClose  == Line("connection", "x,\tclose")
Chunked   == Line("transfer-encoding", "chunked")

Text(lines) == FoldLeft(LAMBDA t, l : t \o l.text, "", lines)
Pairs(lines) == [k \in DOMAIN lines |-> [name |-> Cells(lines[k].name),
                                         value |-> Cells(lines[k].value)]]

\* A message; trail are the lines after the last chunk.
Message(minor, status, lines, tail, body, trail, keep, eof) ==
    [text |-> "HTTP/1." \o minor \o " " \o status[1] \o " A\r\n" \o Text(lines) \o "\r\n" \o tail,
     status |-> status[2], pairs |-> Pairs(lines \o trail), body |-> Cells(body),
     keep |-> keep, eof |-> eof]

OK200 == <<"200", 200>>
Bad404 == <<"404", 404>>
Empty204 == <<"204", 204>>
Switch101 == <<"101", 101>>

Keeps(minor, lines) ==
    LET opts == {lines[k] : k \in DOMAIN lines}
    IN  IF minor = "1" THEN opts \cap {Close, CloseToo} = {} ELSE KeepAlive \in opts

Lists == { << >>, <<FoldedLine, KeepAlive>>, <<EmptyLine, BareLine>>, <<Close>>, <<CloseToo>>, <<TabClose>> }

WithLength(minor, lines) ==
    LET all == lines \o <<Line("content-length", "2")>>
    IN  Message(minor, OK200, all, "ab", "ab", << >>, Keeps(minor, lines), FALSE)
WithoutBody(minor, status, lines) ==
    Message(minor, status, lines, "", "", << >>, Keeps(minor, lines), FALSE)
WithZero(minor, lines) ==
    Message(minor, Bad404, <<Line("content-length", "0")>> \o lines, "", "", << >>,
            Keeps(minor, lines), FALSE)
WithChunks(minor, lines, trail) ==
    Message(minor, OK200, <<Chunked>> \o lines,
            "2\r\nab\r\n1;q\r\nc\r\n0\r\n" \o Text(trail) \o "\r\n", "abc", trail,
            Keeps(minor, lines), FALSE)
UntilEof(minor, lines) == Message(minor, OK200, lines, "abc", "abc", << >>, FALSE, TRUE)
Upgraded ==
    Message("1", Switch101, <<Line("connection", "upgrade"), Line("upgrade", "x")>>, "", "",
            << >>, TRUE, FALSE)

\* Byte by byte, or in larger pieces, in any order.
Cuts == {1, 20}

Stream(msgs) == [msgs |-> msgs, clean |-> TRUE, declared |-> -1, damage |-> {}, reads |-> Cuts,
                 text |-> FoldLeft(LAMBDA t, m : t \o m.text, "", msgs)]

Singles ==
    UNION { {WithLength(v, l), WithoutBody(v, Empty204, l)} : v \in {"0", "1"}, l \in Lists }
    \cup UNION { {WithZero("1", l), WithChunks("1", l, << >>), UntilEof("1", l)} : l \in Lists }
    \cup {Upgraded}

First  == { WithLength("1", << >>), WithChunks("1", << >>, <<Line("t", "u")>>),
            WithoutBody("1", Switch101, <<FoldedLine>>) }
Second == { WithLength("1", << >>), WithoutBody("1", Empty204, << >>),
            UntilEof("1", << >>) }

\* Announced lengths around and past the largest number.
LengthText(n, text) ==
    [msgs |-> << >>, clean |-> FALSE, declared |-> n, damage |-> {}, reads |-> Cuts,
     text |-> "HTTP/1.1 200 A\r\ncontent-length: " \o text \o "\r\n\r\nabc"]
ChunkText(n, text) ==
    [msgs |-> << >>, clean |-> FALSE, declared |-> n, damage |-> {}, reads |-> Cuts,
     text |-> "HTTP/1.1 200 A\r\ntransfer-encoding: chunked\r\n\r\n" \o text \o "\r\nabc"]

Numbers == { LengthText(249, "249"), LengthText(250, "250"), LengthText(255, "255"),
             LengthText(300, "300"), LengthText(2560, "2560"), LengthText(9, "009"),
             ChunkText(239, "ef"), ChunkText(240, "f0"), ChunkText(255, "ff"),
             ChunkText(257, "101"), ChunkText(291, "123") }

\* One response that may be damaged anywhere: chunks, so that every kind of
\* state is in it.
Fragile(chars) ==
    [Stream(<<WithChunks("1", <<Line("x", "y")>>, << >>)>>) EXCEPT !.damage = chars, !.reads = {1}]

\* A header larger than the parser accepts.
TooLong ==
    [msgs |-> << >>, clean |-> FALSE, declared |-> -1, damage |-> {}, reads |-> {20},
     text |-> LET ten == "yyyyyyyyyy"  forty == ten \o ten \o ten \o ten \o ten
              IN  "HTTP/1.1 200 A\r\nx: " \o forty \o forty \o forty \o forty \o forty]

MCStreams == {Stream(<<m>>) : m \in Singles} \cup {Stream(<<m, n>>) : m \in First, n \in Second}
             \cup Numbers \cup {TooLong, Fragile({"\r", "\n", " ", "9"})}
MCLater == {Stream(<<WithLength("1", << >>)>>)}
=============================================================================
