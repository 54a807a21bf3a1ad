------------------------------ MODULE LuaBridge ------------------------------
(***************************************************************************)
(* What script.c lets the script's functions setup() and done() do with a  *)
(* thread: get and set the globals of its Lua state, and its address.      *)
(*                                                                         *)
(* Both Lua states keep a stack that C code has to leave as it found it.   *)
(* Indices count from the top, -1.  A copy of a value is a record          *)
(*   src, dst   the stacks of the state a value is taken from and of the   *)
(*              one it goes to, from the frame of the running C function   *)
(*   todo       what is left to do                                         *)
(*   status     "ok", "error" (luaL_error has been called on src) or       *)
(*              "undefined" (there is no such slot, or not a table in it)  *)
(* and a bridge is a record                                                *)
(*   stack      the stack of the thread's state                            *)
(*   globals    the thread's globals                                       *)
(*   status     "ok", "panic" (an error nobody catches: the program ends)  *)
(*              or "undefined"                                             *)
(*   given, got, last    what was last set, by name, the last value got    *)
(*              with the global it comes from, the value of the last call  *)
(*              (history)                                                  *)
(*   heap, text          the heap, and the address in each ai_addr block   *)
(*   clones              the ai_addr blocks of addresses in Lua's hands    *)
(*   addrs               those of wrk.addrs, in order                      *)
(*   addr, data          thread->addr and its ai_addr                      *)
(*   want                the address last assigned (history)               *)
(***************************************************************************)
EXTENDS Zmalloc, SequencesExt

Value(type, text, pairs) == [type |-> type, text |-> text, pairs |-> pairs]
Nil == Value("nil", "", << >>)
String(text) == Value("string", text, << >>)
Table(pairs) == Value("table", "", pairs)
Function == Value("function", "", << >>)
Userdata == Value("userdata", "", << >>)

\* The thread's script has a global that is a number and a function.
NoBridge ==
    LET globals == [id |-> Value("number", "1", << >>), delay |-> Function]
    IN  [stack |-> << >>, globals |-> globals, given |-> globals, got |-> <<Nil, Nil>>, last |-> Nil,
         status |-> "ok", heap |-> NoHeap, text |-> [p \in {} |-> ""], clones |-> {}, addrs |-> << >>,
         addr |-> NULL, data |-> NULL, want |-> ""]

InStack(s, index) == -index \in 1..Len(s)
Slot(s, index) == s[Len(s) + 1 + index]

\* lua_pushstring takes its text up to the first NUL byte, here a "|".
NulIn(text) == {k \in 1..Len(text) : SubSeq(text, k, k) = "|"}
CString(text) == IF NulIn(text) = {} THEN text ELSE SubSeq(text, 1, Min(NulIn(text)) - 1)

lua_pop(c, n) ==
    IF n > Len(c.src) THEN [c EXCEPT !.status = "undefined"]
    ELSE [c EXCEPT !.src = SubSeq(@, 1, Len(@) - n)]

lua_settable(c) ==
    LET n == Len(c.dst)
        table == Table(Append(c.dst[n - 2].pairs, <<c.dst[n - 1], c.dst[n]>>))
    IN  [c EXCEPT !.dst = Append(SubSeq(@, 1, n - 3), table)]

Place(pairs, key) == CHOOSE k \in DOMAIN pairs : pairs[k][1] = key

\* What a copy has still to do, in todo, is C's own stack: a call of
\* script_copy_value for a slot, the condition of its loop over a table there,
\* and what follows the copies of a pair.
Copy(index) == [do |-> "copy", index |-> index]
Loop(index) == [do |-> "loop", index |-> index]
Pair == [do |-> "pair", index |-> 0]

PairCopied_KeyTwice == <<Copy(-2), Copy(-2), Pair>>
PairCopied == <<Copy(-2), Copy(-1), Pair>>

\* A table starts empty on the other side, and the loop at nil.
CopySlot(c, index) ==
    LET v == Slot(c.src, index)
    IN  CASE v.type \in {"boolean", "nil", "number"} -> [c EXCEPT !.dst = Append(@, v)]
          [] v.type = "string" -> [c EXCEPT !.dst = Append(@, String(CString(v.text)))]
          [] v.type = "table" -> [c EXCEPT !.src = Append(@, Nil), !.dst = Append(@, Table(<< >>)),
                                           !.todo = <<Loop(index - 1)>> \o @]
          [] OTHER -> [c EXCEPT !.status = "error"]

\* lua_next takes a key off the stack and puts the pair after it there; after
\* the last pair it puts nothing, so that the lua_pop behind the loop removes
\* the table, or what is above it.
lua_next(c, index) ==
    IF ~InStack(c.src, index) \/ Slot(c.src, index).type # "table"
    THEN [c EXCEPT !.status = "undefined"]
    ELSE LET pairs == Slot(c.src, index).pairs
             key   == Last(c.src)
             place == IF key = Nil THEN 1 ELSE Place(pairs, key) + 1
         IN  IF place > Len(pairs) THEN lua_pop([c EXCEPT !.src = Front(@)], 1)
             ELSE [c EXCEPT !.src = Front(@) \o pairs[place],
                            !.todo = PairCopied \o <<Loop(index)>> \o @]

CopyStep(c) ==
    LET now == Head(c.todo)
        d   == [c EXCEPT !.todo = Tail(@)]
    IN  CASE now.do = "copy" -> CopySlot(d, now.index)
          [] now.do = "loop" -> lua_next(d, now.index)
          [] now.do = "pair" -> lua_pop(lua_settable(d), 1)

Copied(c) == c.todo = << >> \/ c.status # "ok"

\* The value in slot -1 of src, copied to dst: step[k] is the copy after k steps.
script_copy_value(src, dst) ==
    LET start == [src |-> src, dst |-> dst, status |-> "ok", todo |-> <<Copy(-1)>>]
        step[k \in Nat] == IF k = 0 THEN start ELSE CopyStep(step[k - 1])
        end[k \in Nat] == IF Copied(step[k]) THEN step[k] ELSE end[k + 1]
    IN  end[0]

-----------------------------------------------------------------------------
(* thread:get and thread:set *)

\* An error in get is raised in the thread's state, where no function runs that
\* could catch it.
script_thread_get_NoPop(b, name) ==
    LET c == script_copy_value(Append(b.stack, b.globals[name]), <<Userdata, String(name)>>)
    IN  [b EXCEPT !.stack = c.src, !.last = b.globals[name],
                  !.status = IF c.status = "error" THEN "panic" ELSE c.status,
                  !.got = IF c.status = "ok" THEN <<Last(c.dst), b.globals[name]>> ELSE @]

script_thread_get(b, name) ==
    LET c == script_copy_value(Append(b.stack, b.globals[name]), <<Userdata, String(name)>>)
        d == IF c.status = "ok" THEN lua_pop(c, 1) ELSE c
    IN  [b EXCEPT !.stack = d.src, !.last = b.globals[name],
                  !.status = IF d.status = "error" THEN "panic" ELSE d.status,
                  !.got = IF d.status = "ok" THEN <<Last(d.dst), b.globals[name]>> ELSE @]

\* An error in set is raised in main's state, where the script may catch it;
\* what has been pushed to the thread's stack stays there.
script_thread_set(b, name, value, caught) ==
    LET c == script_copy_value(<<Userdata, String(name), value>>, b.stack)
        called == [b EXCEPT !.last = value]
    IN  CASE c.status = "ok" -> [called EXCEPT !.globals[name] = Last(c.dst),
                                               !.given[name] = value, !.stack = Front(c.dst)]
          [] c.status = "error" -> [called EXCEPT !.stack = c.dst,
                                                  !.status = IF caught THEN "ok" ELSE "panic"]
          [] OTHER -> [called EXCEPT !.status = "undefined"]

-----------------------------------------------------------------------------
(* Addresses.  The length of an address depends on its family; an addrinfo   *)
(* in Lua's hands is a userdata, which Lua allocates itself.                 *)

ai_addrlen(text) == IF text = "v6" THEN 7 ELSE 4
addrinfo == 12

AddrIn(b, ptr) == IF ptr \in DOMAIN b.text THEN b.text[ptr] ELSE "?"

\* A block with an address in it, and a block given back.
NewAddr(b, text) ==
    LET r == zmalloc(b.heap, ai_addrlen(text))
    IN  [b |-> [b EXCEPT !.heap = r.heap,
                         !.text = [p \in DOMAIN @ \cup {r.ptr} |-> IF p = r.ptr THEN text ELSE @[p]]],
         ptr |-> r.ptr]
FreeAddr(b, ptr) == [b EXCEPT !.heap = zfree(@, ptr), !.text = Restrict(@, DOMAIN @ \ {ptr})]

script_addr_copy_Shared(b, from) == [b |-> b, ptr |-> from]

\* The address of block from, in a block of its own.
script_addr_copy(b, from) == NewAddr([b EXCEPT !.heap = zread(@, from)], AddrIn(b, from))

script_addr_clone(b, from) ==
    LET r == script_addr_copy(b, from)
    IN  [r.b EXCEPT !.clones = @ \cup {r.ptr}]

\* An address out of the resolver's list, which is freed after the last one.
script_wrk_lookup(b, text) ==
    LET r == NewAddr(b, text)
    IN  [r.b EXCEPT !.clones = @ \cup {r.ptr}, !.addrs = Append(@, r.ptr)]

script_addr_gc(b, ptr) ==
    [FreeAddr(b, ptr) EXCEPT !.clones = @ \ {ptr}]

\* thread.addr, read and assigned.
script_thread_index(b) == script_addr_clone(b, b.data)

script_thread_newindex(b, ptr) ==
    LET freed == IF b.addr # NULL THEN FreeAddr(b, b.data) ELSE b
        r == zrealloc(freed.heap, b.addr, addrinfo)
        s == script_addr_copy([freed EXCEPT !.heap = r.heap], ptr)
    IN  [s.b EXCEPT !.addr = r.ptr, !.data = s.ptr, !.want = AddrIn(b, ptr)]

-----------------------------------------------------------------------------
(* The summary that done() gets.  Indices from the bottom of the stack count *)
(* from 1.                                                                   *)

NewTable == [n \in {} |-> 0]
\* One lua_setfield for each field; no two have the same name.
set_fields(s, index, fields) ==
    [s EXCEPT ![index] = [n \in DOMAIN @ \cup DOMAIN fields |->
                             IF n \in DOMAIN fields THEN fields[n] ELSE @[n]]]
lua_setfield(s, index, name, value) == set_fields(s, index, [n \in {name} |-> value])

script_summary(s, fields) == set_fields(Append(s, NewTable), 1, fields)

\* The table errors goes to index 2 and from there into the summary.
script_errors(s, fields) ==
    LET t == set_fields(Append(s, NewTable), 2, fields)
    IN  lua_setfield(Front(t), 1, "errors", Last(t))

\* done()'s first argument; its call and the pop leave the stack without it.
script_done(s) == s[1]
==============================================================================
