-------------------------------- MODULE Main --------------------------------
(***************************************************************************)
(* main() of wrk.c from the command line to the report: the options, the   *)
(* URL, the Lua table wrk and the request made from it (script.c and       *)
(* wrk.lua), the check of that request by the HTTP parser, and, after the  *)
(* run, the correction of the latencies and what is read from them.        *)
(*                                                                         *)
(* The creation and the end of the threads are in Lifecycle; here there is *)
(* one thread, the first, whose script decides the configuration, with its *)
(* Lua state beside main's, which calls setup() and done().  A run is the  *)
(* answers each connection gets and how long each took.                    *)
(*                                                                         *)
(* What the user does, a use, is chosen in Init from Uses:                 *)
(*   opts     the options, records [opt, arg], the argument of a number as *)
(*            in Units, that of a header [name, value, spaced], spaced if  *)
(*            the colon is followed by a blank                             *)
(*   url      [scheme, userinfo, host, port, rest], concatenated           *)
(*   script   what the script file sets: method, path and body of wrk ("-" *)
(*            for not set), and calls, the requests that its request()     *)
(*            returns one behind the other, [method, text, whole]; the     *)
(*            values that the file returns, and whether there is a done()  *)
(*   tls      whether the TLS library can be initialised                   *)
(*   lookup   the resolver's answers, sequences of [text, accepts]         *)
(*   lua      what setup() and done() do with the thread: how many calls   *)
(*            each, of which values, and if they get tables                *)
(*   runs     the longest run; 0 if the use is over when the request has   *)
(*            been checked                                                 *)
(***************************************************************************)
EXTENDS HttpMessage, StatsCalc, Units, LuaBridge

CONSTANTS
    MaxHeaderSize, \* HTTP_MAX_HEADER_SIZE
    MaxLatency,    \* cfg.timeout * 1000, the largest latency recorded
    MaxRun,        \* bound on runtime_us
    Uses

\* The number at the front of an argument is read as a uint64_t.
ASSUME MainAssumption ==
    /\ MaxLatency \in Nat /\ MaxRun \in Nat
    /\ \A u \in Uses :
         /\ Len(u.opts) \in Nat
         /\ \A k \in 1..Len(u.opts) :
              u.opts[k].opt \in {"t", "c"} => u.opts[k].arg.n \in Nat \cup {NoNumber}

VARIABLES
    use, mpc,
    opt,     \* the options read so far
    cfg,     \* struct config
    parts,   \* of the URL
    headers, \* the -H arguments
    wrk,     \* the Lua table wrk
    bridge,  \* between main's Lua state and the thread's
    crossed, \* how often the script has crossed it in this function
    req,     \* the request the script's thread sends first
    x,       \* the call of http_parser_execute that checks it
    lat, complete, spent, runtime_us,
    sampled, \* lat as it was before the correction (history)
    report   \* what print_stats, print_stats_latency and done() read

setup == <<opt, cfg, parts, headers, wrk>>
check == <<req, x>>
lstates == <<bridge, crossed>>
run   == <<lat, complete, spent, runtime_us, sampled, lstates>>
vars  == <<use, mpc, setup, check, run, report>>

UrlText(u) == u.scheme \o "://" \o u.userinfo \o u.host \o u.port \o u.rest

NotSet == "-"
NoReport == [count |-> -1]

\* The callbacks of script_verify_request: on_message_complete counts, and what
\* it counted is remembered, with the text the parser found in it (history).
NoCount == [count |-> 0, seen |-> << >>, url |-> "", text |-> << >>]

verify_request(p, u) ==
    [u EXCEPT !.count = @ + 1, !.url = "", !.text = << >>,
              !.seen = Append(@, [method |-> p.method, url |-> u.url, headers |-> u.text])]

OnNotify(kind, p, u) ==
    [p |-> p, u |-> IF kind = "message_complete" THEN verify_request(p, u) ELSE u, rc |-> 0]
OnData(kind, text, p, u) ==
    [p |-> p, rc |-> 0,
     u |-> CASE kind = "url" -> [u EXCEPT !.url = text]
             [] kind \in {"header_field", "header_value"} -> [u EXCEPT !.text = Append(@, text)]
             [] OTHER -> u]

P == INSTANCE HttpParser

NoCall == P!Call(http_parser_init(HTTP_REQUEST), NoCount, "")

Init ==
    /\ use \in Uses
    /\ mpc = "args"
    /\ opt = 0
    /\ cfg = [threads |-> 2, connections |-> 10, duration |-> 10, timeout |-> 2000,
              latency |-> FALSE, use_offload |-> FALSE, tls |-> FALSE, pipeline |-> 0,
              dynamic |-> FALSE, each |-> 0]
    /\ parts = NoUrl
    /\ headers = << >>
    /\ wrk = << >>
    /\ bridge = NoBridge /\ crossed = 0
    /\ req = "" /\ x = NoCall
    /\ lat = stats_alloc(MaxLatency) /\ sampled = lat
    /\ complete = 0 /\ spent = << >> /\ runtime_us = 0
    /\ report = NoReport

Exit == mpc' = "exit"

-----------------------------------------------------------------------------
(***************************************************************************)
(* parse_args: the loop over getopt_long, then the tests on the result.    *)
(***************************************************************************)
Scan(letter, arg) ==
    IF letter \in {"t", "c"} THEN scan_metric(arg) ELSE scan_time(arg)

Numeric == [t |-> "threads", c |-> "connections", d |-> "duration", T |-> "timeout"]

\* The number of an option, of T in milliseconds.
NumberOption(o) ==
    LET r == Scan(o.opt, o.arg)
        n == IF o.opt = "T" THEN (r.n * 1000) % Word ELSE r.n
    IN  /\ o.opt \in DOMAIN Numeric
        /\ IF r.ok THEN cfg' = [cfg EXCEPT ![Numeric[o.opt]] = n] /\ mpc' = mpc
           ELSE Exit /\ cfg' = cfg
        /\ UNCHANGED headers

FlagOption(o) ==
    /\ o.opt \in {"L", "e", "v", "s"}
    /\ cfg' = [cfg EXCEPT !.latency = @ \/ o.opt = "L", !.use_offload = @ \/ o.opt = "e"]
    /\ UNCHANGED <<headers, mpc>>

HeaderOption(o) ==
    /\ o.opt = "H"
    /\ headers' = Append(headers, o.arg)
    /\ UNCHANGED <<cfg, mpc>>

UnknownOption(o) ==
    /\ o.opt \in {"h", "?"}
    /\ Exit
    /\ UNCHANGED <<headers, cfg>>

parse_option ==
    /\ mpc = "args" /\ opt < Len(use.opts)
    /\ opt' = opt + 1
    /\ LET o == use.opts[opt + 1]
       IN  NumberOption(o) \/ FlagOption(o) \/ HeaderOption(o) \/ UnknownOption(o)
    /\ UNCHANGED <<use, parts, wrk, check, run, report>>

ArgsGood(parsed) ==
    /\ cfg.threads # 0 /\ cfg.duration # 0
    /\ parsed.ok
    /\ cfg.connections # 0 /\ cfg.connections >= cfg.threads

\* The rest of parse_args.
args_done ==
    /\ mpc = "args" /\ opt = Len(use.opts)
    /\ LET parsed == script_parse_url(UrlText(use.url))
       IN  IF ArgsGood(parsed) THEN parts' = parsed.u /\ mpc' = "tls"
           ELSE Exit /\ UNCHANGED parts
    /\ UNCHANGED <<use, opt, cfg, headers, wrk, check, run, report>>

\* copy_url_part, and push_url_part, where "" is nil: no field found is empty.
Part(f) == FieldText(UrlText(use.url), parts, f)
service == IF "port" \in parts.set THEN Part("port") ELSE Part("schema")

\* "https" is compared with the first five characters of the scheme.
IsHttps(schema) == SubSeq(schema, 1, IF Len(schema) < 5 THEN Len(schema) ELSE 5) = "https"

init_tls ==
    /\ mpc = "tls"
    /\ LET https == IsHttps(Part("schema"))
       IN  /\ cfg' = [cfg EXCEPT !.tls = https /\ use.tls]
           /\ IF https /\ ~use.tls THEN Exit ELSE mpc' = "script"
    /\ UNCHANGED <<use, opt, parts, headers, wrk, check, run, report>>

-----------------------------------------------------------------------------
(***************************************************************************)
(* The Lua table wrk.                                                      *)
(***************************************************************************)
SetKey(table, name, value) ==
    [n \in DOMAIN table \cup {name} |-> IF n = name THEN value ELSE table[n]]
DropKey(table, name) == [n \in DOMAIN table \ {name} |-> table[n]]

\* The path is the rest of the URL from the field path on.
PathOfUrl == IF "path" \in parts.set
             THEN SubSeq(UrlText(use.url), parts.off["path"], Len(UrlText(use.url)))
             ELSE "/"

\* Headers not written "name: value" are left out.
HeadersGiven ==
    FoldLeft(LAMBDA t, h : IF h.spaced THEN SetKey(t, h.name, h.value) ELSE t,
             [n \in {} |-> ""], headers)

Or(value, other) == IF value = NotSet THEN other ELSE value

\* The fields, the headers, and what the script file does when it is loaded.
script_create ==
    /\ mpc = "script"
    /\ wrk' = [scheme |-> Part("schema"), host |-> Part("host"), port |-> Part("port"),
               path |-> Or(use.script.path, PathOfUrl), headers |-> HeadersGiven,
               method |-> Or(use.script.method, "GET"), body |-> use.script.body]
    /\ mpc' = "resolve"
    /\ UNCHANGED <<use, opt, cfg, parts, headers, check, run, report>>

\* wrk.resolve: the host may not be found, or no address may accept.  The
\* thread's Lua state has what its script file leaves on the stack.
script_resolve(answer) ==
    LET n == Len(answer)
        found[k \in 0..n] ==
            IF k = 0 THEN [NoBridge EXCEPT !.stack = use.script.leaves]
            ELSE script_wrk_lookup(found[k - 1], answer[k].text)
        \* addrs[n + 1 - k] is tried, from the last one down.
        kept[k \in 0..n] ==
            IF k = 0 THEN found[n].addrs
            ELSE IF answer[n + 1 - k].accepts THEN kept[k - 1]
            ELSE RemoveAt(kept[k - 1], n + 1 - k)
    IN  /\ mpc = "resolve"
        /\ bridge' = [found[n] EXCEPT !.addrs = kept[n]]
        /\ IF kept[n] # << >> THEN mpc' = "setup" ELSE Exit
        /\ UNCHANGED <<use, setup, check, lat, complete, spent, runtime_us, sampled, crossed, report>>

\* The first half of script_init up to setup(): the table wrk stays on the
\* thread's stack meanwhile.
wrk_setup ==
    /\ mpc = "setup"
    /\ bridge' = [script_thread_newindex(bridge, bridge.addrs[1]) EXCEPT !.stack = Append(@, Userdata)]
    /\ mpc' = "init"
    /\ UNCHANGED <<use, setup, check, lat, complete, spent, runtime_us, sampled, crossed, report>>

\* What setup() and done() do with the thread, and Lua's collector.
ThreadCall ==
    \/ \E name \in DOMAIN bridge.globals :
          /\ bridge.globals[name].type # "table" \/ use.lua.tables
          /\ bridge' = script_thread_get(bridge, name)
    \/ \E name \in DOMAIN bridge.globals, v \in use.lua.values, caught \in BOOLEAN :
          bridge' = script_thread_set(bridge, name, v, caught)
    \/ bridge' = script_thread_index(bridge)
    \/ \E ptr \in bridge.clones : bridge' = script_thread_newindex(bridge, ptr)
    \/ \E ptr \in bridge.clones \ Range(bridge.addrs) : bridge' = script_addr_gc(bridge, ptr)

ScriptCalls ==
    /\ mpc = "init" \/ (mpc = "done" /\ use.script.done)
    /\ bridge.status = "ok" /\ crossed < use.lua.calls
    /\ ThreadCall
    /\ crossed' = crossed + 1
    /\ UNCHANGED <<use, mpc, setup, check, lat, complete, spent, runtime_us, sampled, report>>

HasColon(host) == \E k \in 1..Len(host) : At(host, k) = ":"

HostHeader_NoBrackets ==
    IF "port" \in parts.set THEN wrk.host \o ":" \o wrk.port ELSE wrk.host

HostHeader ==
    LET host == IF HasColon(wrk.host) THEN "[" \o wrk.host \o "]" ELSE wrk.host
    IN  IF "port" \in parts.set THEN host \o ":" \o wrk.port ELSE host

\* wrk.format with no arguments, as wrk.init calls it; pairs() has no order.
Number(n) == At("0123456789", n + 1)
WithLength(table) ==
    IF wrk.body = NotSet THEN DropKey(table, "Content-Length")
    ELSE SetKey(table, "Content-Length", Number(Len(wrk.body)))

format(table, order) ==
    wrk.method \o " " \o wrk.path \o " HTTP/1.1\r\n"
      \o FoldLeft(LAMBDA t, n : t \o n \o ": " \o table[n] \o "\r\n", "", order)
      \o "\r\n" \o (IF wrk.body = NotSet THEN "" ELSE wrk.body)

Scripted == FoldLeft(LAMBDA t, call : t \o call.text, "", use.script.calls)

\* wrk.init, the first thread's configuration and script_request.  Every thread
\* gets the same number of connections.
script_init ==
    LET hosted == IF "Host" \in DOMAIN wrk.headers THEN wrk.headers
                  ELSE SetKey(wrk.headers, "Host", HostHeader)
        table == WithLength(hosted)
        p == http_parser_init(HTTP_REQUEST)
    IN  /\ mpc = "init" /\ bridge.status = "ok" /\ InStack(bridge.stack, -1)
        /\ bridge' = [bridge EXCEPT !.stack = Front(@)]
        /\ crossed' = 0
        /\ wrk' = [wrk EXCEPT !.headers = table]
        /\ cfg' = [cfg EXCEPT !.each = @ + cfg.connections \div cfg.threads,
                              !.dynamic = use.script.calls # << >>]
        /\ \E order \in SetToSeqs(DOMAIN table) :
              req' = IF use.script.calls # << >> THEN Scripted ELSE format(table, order)
        /\ x' = IF req' = "" THEN P!ExecuteEof(p, NoCount) ELSE P!Call(p, NoCount, req')
        /\ mpc' = "verify"
        /\ UNCHANGED <<use, opt, parts, headers, lat, complete, spent, runtime_us, sampled, report>>

-----------------------------------------------------------------------------
(***************************************************************************)
(* script_verify_request: http_parser_execute, then the test.              *)
(***************************************************************************)
VerifyByte ==
    /\ mpc = "verify" /\ x.ret = -1 /\ x.i <= Len(x.data)
    /\ x' = P!Byte(x)
    /\ UNCHANGED <<use, mpc, setup, req, run, report>>

Verified_AnyCount(y) == y.ret = Len(req)
Verified(y) == y.ret = Len(req) /\ y.u.count # 0

VerifyEnd ==
    /\ mpc = "verify" /\ (x.ret # -1 \/ x.i > Len(x.data))
    /\ x' = P!Ended(x)
    /\ cfg' = [cfg EXCEPT !.pipeline = x'.u.count]
    /\ IF Verified(x') THEN mpc' = "run" ELSE Exit
    /\ UNCHANGED <<use, opt, parts, headers, wrk, req, run, report>>

-----------------------------------------------------------------------------
(***************************************************************************)
(* The run and the report.                                                 *)
(***************************************************************************)
\* The connections of all threads; some of those asked for are left over when
\* their number is not a multiple of that of the threads.
Connections == 1..(cfg.threads * cfg.each)

\* What a connection has spent waiting; spent has those that have got answers.
SpentBy(c) == IF c \in DOMAIN spent THEN spent[c] ELSE 0

\* A connection has got the answers to what it wrote, n after it began.
Answered(c, n) ==
    /\ mpc = "run"
    /\ SpentBy(c) + n <= use.runs
    /\ spent' = [d \in DOMAIN spent \cup {c} |-> IF d = c THEN SpentBy(c) + n ELSE spent[d]]
    /\ lat' = stats_record(lat, n)
    /\ complete' = complete + cfg.pipeline
    /\ UNCHANGED <<use, mpc, setup, check, runtime_us, sampled, lstates, report>>

\* The time between the start of the threads and main's is not counted.
EndRun(time) ==
    /\ mpc = "run" /\ time <= use.runs
    /\ \A c \in DOMAIN spent : spent[c] <= time
    /\ runtime_us' = time
    /\ mpc' = "correct"
    /\ UNCHANGED <<use, setup, check, lat, complete, spent, sampled, lstates, report>>

\* When it is 0 stats_correct does not end: no step follows here.
interval == runtime_us \div (complete \div cfg.connections)

Correct ==
    /\ mpc = "correct"
    /\ sampled' = lat
    /\ \/ complete \div cfg.connections > 0 /\ interval > 0
         /\ lat' = stats_correct(lat, interval)
       \/ complete \div cfg.connections = 0 /\ UNCHANGED lat
    /\ mpc' = "report"
    /\ UNCHANGED <<use, setup, check, complete, spent, runtime_us, lstates, report>>

\* print_stats, print_stats_latency, and done() with latency(i) for all its i.
Percentiles == {50, 75, 90, 99}

\* The other counters, by the names they have in main.
Errors == [connect |-> "errors.connect", read |-> "errors.read", write |-> "errors.write",
           status |-> "errors.status", timeout |-> "errors.timeout"]

Summary ==
    script_done(script_errors(script_summary(use.script.leaves,
        [duration |-> runtime_us, requests |-> complete]), Errors))

Report ==
    LET mean == stats_mean(lat)
    IN  /\ mpc = "report"
        /\ report' = [count |-> lat.count, mean |-> mean, max |-> lat.max,
                      within |-> stats_within_stdev(lat, mean, stats_stdev(lat, mean)),
                      percentile |-> [p \in Percentiles |-> stats_percentile(lat, p)],
                      entries |-> [k \in 1..stats_popcount(lat) |-> stats_value_at(lat, k - 1)],
                      summary |-> IF use.script.done THEN Summary ELSE NewTable]
        /\ mpc' = "done"
        /\ UNCHANGED <<use, setup, check, run>>

Next ==
    \/ parse_option \/ args_done \/ init_tls \/ script_create
    \/ \E answer \in use.lookup : script_resolve(answer)
    \/ wrk_setup \/ ScriptCalls \/ script_init \/ VerifyByte \/ VerifyEnd
    \/ \E n \in 1..MaxRun : n <= use.runs /\ \E c \in Connections : Answered(c, n)
    \/ \E time \in 1..MaxRun : EndRun(time)
    \/ Correct \/ Report

Spec == Init /\ [][Next]_vars

-----------------------------------------------------------------------------
\* The last argument of an option, in full.
UnitValue == [t |-> [k |-> 1000, m |-> 1000000, g |-> 1000000000], d |-> [s |-> 1, m |-> 60, h |-> 3600]]
Given(letter) == {k \in DOMAIN use.opts : use.opts[k].opt = letter}
LastOf(S) == CHOOSE k \in S : \A j \in S : j <= k
LastArg(letter) == use.opts[LastOf(Given(letter))].arg
Asked(letter, like, default, times) ==
    IF Given(letter) = {} THEN default
    ELSE LET a == LastArg(letter)
         IN  a.n * times * (IF a.unit = "" THEN 1 ELSE UnitValue[like][a.unit])

\* Threads, connections, duration and timeout are those asked for, whatever the
\* order and the units of the options, when they fit in a word, and there is
\* a connection for every thread.
NumbersAsGiven ==
    mpc \notin {"args", "exit"} =>
      /\ \A o \in {<<"threads", Asked("t", "t", 2, 1)>>, <<"connections", Asked("c", "t", 10, 1)>>,
                   <<"duration", Asked("d", "d", 10, 1)>>,
                   <<"timeout", Asked("T", "d", 2000, 1000)>>} :
            o[2] < Word => cfg[o[1]] = o[2]
      /\ req # "" => cfg.each >= 1 /\ cfg.each * cfg.threads <= cfg.connections

\* An address in brackets has a colon, and nothing but a path names the target:
\* wrk.lua puts the brackets back by the colon alone, and script_create takes
\* "/" for a URL that goes on with "?".
Usual(u) == /\ At(u.host, 1) = "[" => HasColon(u.host)
            /\ u.rest # "" => At(u.rest, 1) = "/"

HostOf(request) ==
    LET at == {k \in DOMAIN request.headers : request.headers[k] = "Host"}
    IN  {request.headers[k + 1] : k \in at}

HeaderArgs(name) == {k \in DOMAIN headers : headers[k].name = name /\ headers[k].spaced}

\* What wrk sends is a request for what its URL names: taken apart by
\* http_parser_parse_url, put together by wrk.lua and read again as a server
\* would, there is one Host, the authority of the URL without the user (or the
\* header given for it), and the target is all that follows the authority; the
\* service to connect to is the port or the scheme.
TargetAsGiven ==
    (mpc \notin {"args", "tls", "script", "exit"} /\ Usual(use.url)) =>
      /\ service = IF use.url.port = "" THEN use.url.scheme
                   ELSE SubSeq(use.url.port, 2, Len(use.url.port))
      /\ (use.script.calls = << >> /\ mpc \notin {"resolve", "setup", "init", "verify"}) =>
           LET r == x.u.seen[1]
           IN  /\ r.method = Or(use.script.method, "GET")
               /\ use.script.path = NotSet =>
                    r.url = IF use.url.rest = "" THEN "/" ELSE use.url.rest
               /\ HostOf(r) = IF HeaderArgs("Host") = {} THEN {use.url.host \o use.url.port}
                              ELSE {headers[LastOf(HeaderArgs("Host"))].value}

\* "Running <duration> test": read back as an argument, it is the duration, to
\* half a unit.
DurationShown ==
    mpc \notin {"args", "exit"} =>
      LET shown == format_time_s(cfg.duration)
          unit  == scan_time([n |-> 1, unit |-> shown.unit]).n
      IN  \A n \in shown.n : LET read == scan_time([n |-> n, unit |-> shown.unit]).n
                             IN  /\ 2 * read <= 2 * cfg.duration + unit
                                 /\ 2 * read + unit >= 2 * cfg.duration

\* What is run is what the command line asked for: all of the above.
RunAsAsked == NumbersAsGiven /\ TargetAsGiven /\ DurationShown

Whole == SelectSeq(use.script.calls, LAMBDA call : call.whole)

\* cfg.pipeline, the number of answers a connection waits for, is the number of
\* requests in what the script returns, for every method and however many; a
\* script that returns less than a request is refused.  A request cut off after
\* the first is not noticed.
RequestsCounted ==
    /\ mpc \in {"run", "correct", "report", "done"} =>
         IF use.script.calls = << >> THEN cfg.pipeline = 1
         ELSE /\ cfg.pipeline = Len(Whole) /\ cfg.pipeline > 0
              /\ \A k \in DOMAIN Whole : x.u.seen[k].method = Whole[k].method
    /\ (mpc = "exit" /\ req # "") => use.script.calls # << >> /\ Whole = << >>

Total(term) == SumOf(term, 0, MaxLatency)

\* A p-th part of all latencies is below v, and no more than that up to v.
SplitBy(p, v) ==
    LET below == Total([n \in 0..MaxLatency |-> IF n < v THEN lat.data[n] ELSE 0])
    IN  below * 100 <= p * lat.count /\ p * lat.count < (below + lat.data[v]) * 100

\* How many recorded latencies are v or a number of intervals above it.
Standing(v) ==
    Total([n \in 0..MaxLatency |->
              IF n >= v /\ (n - v) % interval = 0 THEN sampled.data[n] ELSE 0])

\* The correction counts every latency v above the interval once for each
\* recorded latency that is a number of intervals larger, never for a copy,
\* although it writes the histogram it reads; and if a connection sends one
\* request at a time, everything reported agrees with the corrected histogram
\* as a whole: none of it lies outside min and max, which do not move.
ReportAsSampled ==
    mpc = "done" =>
      /\ lat.count = Total(lat.data)
      /\ complete \div cfg.connections > 0 =>
           \A v \in 0..MaxLatency :
             lat.data[v] = IF v > interval THEN Standing(v) ELSE sampled.data[v]
      /\ cfg.pipeline = 1 /\ lat.count > 0 =>
           /\ report.mean = [sum |-> Total([n \in 0..MaxLatency |-> lat.data[n] * n]), count |-> lat.count]
           /\ \A p \in Percentiles : SplitBy(p, report.percentile[p])
           /\ SumOf([k \in DOMAIN report.entries |-> report.entries[k].count], 1, Len(report.entries))
                = lat.count
           /\ report.within \in 1..lat.count

-----------------------------------------------------------------------------
\* SCRIPTING: "Only boolean, nil, number, and string values or tables of the
\* same may be transfered via get()/set()".
Simple == {"boolean", "nil", "number", "string"}
Transferable(v) ==
    \/ v.type \in Simple
    \/ v.type = "table" /\ \A k \in DOMAIN v.pairs : \A w \in Range(v.pairs[k]) : w.type \in Simple

\* Calls with values that may be transferred succeed, and whatever setup() and
\* done() call, the thread's stack is afterwards as it was before, for the C
\* code that goes on with it by index.  So it is when a value is refused that is
\* given or asked for itself, such as a function.  The scripts of Uses have no
\* tables in tables and none with a value in them that is refused.
StacksKept ==
    IF bridge.status # "ok" THEN ~Transferable(bridge.last)
    ELSE bridge.stack = IF mpc = "init" THEN Append(use.script.leaves, Userdata)
                        ELSE IF mpc \in {"args", "tls", "script", "resolve", "exit"} THEN bridge.stack
                        ELSE use.script.leaves

HasNul(v) == \/ NulIn(v.text) # {}
             \/ \E k \in DOMAIN v.pairs : \E w \in Range(v.pairs[k]) : NulIn(w.text) # {}

\* A value arrives whole on the other side, whatever was called in between: a
\* global is what it was last set to, get returns what the global is, unless a
\* string has a NUL byte; and done() gets each counter under its own name.
ValuesArrive ==
    /\ \A name \in DOMAIN bridge.globals :
          ~HasNul(bridge.given[name]) => bridge.globals[name] = bridge.given[name]
    /\ bridge.got[1] = bridge.got[2]
    /\ (mpc = "done" /\ use.script.done) =>
          /\ report.summary["requests"] = complete /\ report.summary["duration"] = runtime_us
          /\ report.summary["errors"] = Errors

\* Every block of memory has one owner, no owner's block has been freed or is
\* another's, used_memory is what is in use, and the thread connects to the
\* address last assigned, however often addresses are copied, assigned and
\* collected.
AddressesOwned ==
    /\ ~bridge.heap.wild
    /\ LET owned == bridge.clones \cup ({bridge.addr, bridge.data} \ {NULL})
       IN  /\ DOMAIN bridge.heap.live = owned
           /\ bridge.addr # NULL =>
                /\ {bridge.addr, bridge.data} \cap bridge.clones = {}
                /\ bridge.addr # bridge.data
                /\ AddrIn(bridge, bridge.data) = bridge.want
    /\ bridge.heap.used = InUse(bridge.heap.live)
=============================================================================
