---------------------------- MODULE ScriptBuffer ----------------------------
(***************************************************************************)
(* The growing buffer of script.c in which a connection collects the       *)
(* headers and the body of a response, and the way script_response takes   *)
(* the headers out of it again.                                            *)
(*                                                                         *)
(* mem is the memory as far as it has ever been written: what lies beyond  *)
(* the cursor is left from an earlier use.  A cell holds a character or    *)
(* NUL.  length is what was allocated, 0 as long as buffer is NULL; over   *)
(* says that memory beyond it was written at some time.                    *)
(***************************************************************************)
EXTENDS Integers, Sequences, SequencesExt

CONSTANT Step           \* buffer_append grows a buffer by this much, 1024

ASSUME ScriptBufferAssumption == Step \in Nat \ {0}

NUL == "NUL"

EmptyBuffer == [mem |-> << >>, cursor |-> 0, length |-> 0, over |-> FALSE]

\* Put cells at the cursor, over what may be there from before.
Put(b, cells) ==
    LET end == b.cursor + Len(cells)
    IN  [b EXCEPT !.cursor = end, !.over = @ \/ end > b.length,
                  !.mem = SubSeq(@, 1, b.cursor) \o cells \o SubSeq(@, end + 1, Len(@))]

Grown_NoSpare(length, need) ==
    IF need - 1 <= length THEN length
    ELSE length + Step * ((need - 2 - length) \div Step + 1)

\* The loop that grows: until used + len + 1 is below the length.
Grown(length, need) ==
    IF need < length THEN length
    ELSE length + Step * ((need - length) \div Step + 1)

buffer_append(b, cells) ==
    Put([b EXCEPT !.length = Grown(@, b.cursor + Len(cells) + 1)], cells)

buffer_reset(b) == [b EXCEPT !.cursor = 0]

\* *cursor++ = '\0', as the header callbacks do it, without asking for room.
PutNul(b) == Put(b, <<NUL>>)

\* The text from cell k up to the next NUL, and the cell after that.
\* "?" is a read of memory that was never written.
buffer_pushlstring(b, k) ==
    LET nuls == {m \in k..Len(b.mem) : b.mem[m] = NUL}
        end == CHOOSE m \in nuls : \A l \in nuls : m <= l
    IN  IF nuls = {} THEN [text |-> <<"?">>, next |-> Len(b.mem) + 2]
        ELSE [text |-> SubSeq(b.mem, k, end - 1), next |-> end + 1]

\* The pairs script_response puts into the table, from cell k on.
HeaderPairs(b) ==
    LET pairs[k \in Nat] ==
            IF k > b.cursor THEN << >>
            ELSE LET name  == buffer_pushlstring(b, k)
                     value == buffer_pushlstring(b, name.next)
                 IN  <<[name |-> name.text, value |-> value.text]>> \o pairs[value.next]
    IN  pairs[1]
=============================================================================
