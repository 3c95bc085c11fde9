----------------------------- MODULE DskHttpHeader -----------------------------
(***************************************************************************)
(* The headers of HTTP messages: reading them (dsk-http-header-parsing.c),  *)
(* writing them (dsk-http-header-printing.c), and making requests and       *)
(* responses of what a program or the reader gives (dsk-http-protocol.c).   *)
(* The letters of names and values are small ones. How memory is laid out   *)
(* is left out, but for the two places where it shows in the values.        *)
(***************************************************************************)
EXTENDS DskText, FiniteSetsExt

CONSTANT InitMiscHeaders        \* DEFAULT_INIT_N_MISC_HEADERS, 8

(* What an operation comes to: a value, an error, or memory that is not the *)
(* message's.                                                               *)
Result(end, v) == [end |-> end, v |-> v]
Ok(v) == Result("ok", <<v>>)
Error == Result("error", <<>>)
Undefined == Result("undefined", <<>>)

-----------------------------------------------------------------------------
(* The options of a request and of a response. A value that is not there is *)
(* <<>>, one that is there <<value>>.                                       *)
NoOptions ==
  [major |-> 1, minor |-> 1, content_type |-> <<>>, content_length |-> -1, gzip |-> FALSE,
   chunked |-> FALSE, date |-> <<>>, upgrade |-> FALSE, agent |-> <<>>, misc |-> <<>>,
   parsed |-> FALSE, parsed_chunked |-> FALSE, parsed_close |-> FALSE]
RequestOptions ==
  NoOptions @@ [method |-> "get", full_path |-> <<>>, path |-> <<>>, query |-> <<>>,
                host |-> <<>>, referrer |-> <<>>]
ResponseOptions ==
  NoOptions @@ [request |-> <<>>, status |-> 200, close |-> FALSE, expires |-> <<>>,
                location |-> <<>>]

(* The strings are laid one after the other; a query gets no room of its    *)
(* own, so that what comes next is laid over it.                            *)
Overlaid(o) ==
  LET next == o.content_type \o o.referrer \o o.agent \o o.host
                \o (IF o.misc = <<>> THEN <<>> ELSE <<o.misc[1].key>>)
  IN Head(next \o o.query)
PathIn(o) ==
  IF o.full_path # <<>> THEN o.full_path[1]
  ELSE o.path[1] \o (IF o.query = <<>> THEN <<>> ELSE <<Sym("?")>> \o Overlaid(o))

HasRequestBody(method) == method \in {"post", "put"}
Request(o, length, chunked, close) ==
  [method |-> o.method, path |-> PathIn(o), major |-> o.major, minor |-> o.minor,
   content_type |-> o.content_type, content_length |-> length, chunked |-> chunked,
   close |-> close, upgrade |-> o.upgrade, gzip |-> o.gzip, date |-> o.date,
   referrer |-> o.referrer, agent |-> o.agent, host |-> o.host, misc |-> o.misc]
LengthIn(o) == IF o.content_length >= 0 THEN o.content_length ELSE -1
RequestNew(o) ==
  LET chunks == o.content_length < 0 /\ (o.chunked \/ HasRequestBody(o.method)) IN
  IF ~o.parsed /\ chunks /\ o.minor < 1 THEN Error
  ELSE Ok(Request(o, LengthIn(o), IF o.parsed THEN o.parsed_chunked ELSE chunks,
                  o.parsed /\ o.parsed_close))

(* dsk_http_request_get.                                                    *)
Known(request, name) ==
  CASE name = "connection" -> IF request.close THEN <<<<W("close")>>>>
                              ELSE IF request.upgrade THEN <<<<W("upgrade")>>>> ELSE <<>>
    [] name = "host" -> request.host [] name = "user-agent" -> request.agent
    [] name = "referer" -> request.referrer [] OTHER -> <<request.path>>
RequestGet(request, name) ==
  LET n == SelectInSeq(request.misc, LAMBDA kv: kv.key = <<W(name)>>) IN
  IF name \in {"connection", "host", "user-agent", "referer", "path"} THEN Known(request, name)
  ELSE IF n = 0 THEN <<>> ELSE <<request.misc[n].value>>
IsWebsocketRequest(request) ==
  request.upgrade /\ RequestGet(request, "upgrade") = <<<<W("websocket")>>>>

(* dsk_http_request_init_options.                                           *)
InitOptions(request) ==
  [RequestOptions EXCEPT !.method = request.method, !.major = request.major,
     !.minor = request.minor, !.full_path = <<request.path>>, !.host = request.host,
     !.content_type = request.content_type, !.content_length = request.content_length,
     !.gzip = request.gzip, !.chunked = request.chunked, !.date = request.date,
     !.referrer = request.referrer, !.agent = request.agent, !.misc = request.misc]

LastStatus == <<101, 206, 306, 417, 505>>
IsValidStatus(code) == code \div 100 \in 1..5 /\ code <= LastStatus[code \div 100]
(* The server's name is not taken over.                                     *)
Response(o, minor, close, chunks) ==
  [status |-> o.status, major |-> o.major, minor |-> minor,
   content_type |-> o.content_type, content_length |-> LengthIn(o),
   chunked |-> IF o.parsed THEN o.parsed_chunked ELSE LengthIn(o) < 0 /\ chunks,
   close |-> close \/ (IF o.parsed THEN o.parsed_close ELSE LengthIn(o) < 0 /\ ~chunks),
   upgrade |-> o.upgrade, gzip |-> o.gzip, date |-> o.date, expires |-> o.expires,
   location |-> o.location, misc |-> o.misc]
ResponseTo(o, old, close) ==
  Response(o, IF old THEN 0 ELSE o.minor, close, ~old /\ o.minor >= 1 /\ ~close)
ResponseNew(o) ==
  LET old == o.request # <<>> /\ o.request[1].minor = 0 IN
  IF ~IsValidStatus(o.status) THEN Error
  ELSE Ok(ResponseTo(o, old, o.close \/ old \/ (o.request # <<>> /\ o.request[1].close)))

-----------------------------------------------------------------------------
(* Writing.                                                                 *)
NewLine == <<CR, LF>>
Line(key, value) == key \o <<Sym(":"), Blank(1)>> \o value \o NewLine
Number(n) == IF n < 10 THEN <<Num(1, n)>> ELSE <<Num(2, n)>>        \* below 100
Version(major, minor) == <<W("http"), Sym("/"), Num(1, major), Sym("."), Num(1, minor)>>
If(given, line) == IF given THEN line ELSE <<>>
Maybe(name, value) == IF value = <<>> THEN <<>> ELSE Line(<<W(name)>>, value[1])
(* A date is not followed by the end of its line.                           *)
DateLine(name, time) == <<W(name), Sym(":"), Blank(1)>> \o PrintRfc822(UnixtimeToDate(time))
MaybeDate(name, time) == IF time = <<>> THEN <<>> ELSE DateLine(name, time[1])
(* main/sub/charset is written main/sub; charset=charset.                   *)
ContentType(value) ==
  LET slashes == SelectSeq([i \in DOMAIN value |-> i], LAMBDA i: value[i] = Sym("/")) IN
  IF Len(slashes) < 2 THEN value
  ELSE SubSeq(value, 1, slashes[2] - 1) \o <<Sym(";"), Blank(1), W("charset"), Sym("=")>>
         \o From(value, slashes[2] + 1)
MaybeType(value) == IF value = <<>> THEN <<>> ELSE Line(<<W("content-type")>>, ContentType(value[1]))
MaybeLength(n) == If(n # -1, Line(<<W("content-length")>>, Number(n)))
UnparsedHeaders(misc) == FlattenSeq([i \in DOMAIN misc |-> Line(misc[i].key, misc[i].value)])
Says(name, value) == Line(<<W(name)>>, <<W(value)>>)

(* The version is written the wrong way round.                              *)
PrintRequest(r) ==
  <<W(r.method), Blank(1)>> \o r.path \o <<Blank(1)>> \o Version(r.minor, r.major) \o NewLine
    \o If(r.chunked, Says("transfer-encoding", "chunked"))
    \o MaybeDate("date", r.date)
    \o (IF r.close THEN Says("connection", "close")
        ELSE If(r.upgrade, Says("connection", "upgrade")))
    \o If(r.gzip, Says("content-encoding", "gzip"))
    \o MaybeType(r.content_type) \o MaybeLength(r.content_length)
    \o Maybe("host", r.host) \o Maybe("user-agent", r.agent) \o Maybe("referer", r.referrer)
    \o UnparsedHeaders(r.misc)

StatusMessage(status) == <<W("message")>>
PrintResponse(r) ==
  Version(r.major, r.minor) \o <<Blank(1), Num(3, r.status), Blank(1)>> \o StatusMessage(r.status)
    \o NewLine
    \o If(r.chunked, Says("transfer-encoding", "chunked"))
    \o If(r.close, Says("connection", "close"))
    \o MaybeType(r.content_type) \o MaybeLength(r.content_length)
    \o MaybeDate("date", r.date) \o MaybeDate("expires", r.expires)
    \o If(r.gzip, Says("content-encoding", "gzip"))
    \o Maybe("location", r.location)
    \o UnparsedHeaders(r.misc)

-----------------------------------------------------------------------------
(* Reading: keys and values first (parse_info_init).                        *)
Trim(text) == Reverse(SkipSpace(Reverse(SkipSpace(text))))
Strip(text) ==
  FoldLeft(LAMBDA out, t: IF ~IsSpace(t) THEN Append(out, t)
                          ELSE IF Last(out) = Blank(1) THEN out ELSE Append(out, Blank(1)),
           <<>>, Trim(text))

EndOfLine(text, i) == IF text[i] = CR THEN i + 2 ELSE i + 1
LoneCr(text, i) == text[i] = CR /\ ~Begins(From(text, i + 1), LF)
(* Where a value ends: at a line end that no blank follows.                 *)
ValueEnds(text) ==
  {i \in DOMAIN text: /\ text[i].is = "newline" /\ ~(i > 1 /\ text[i] = LF /\ text[i - 1] = CR)
                      /\ LoneCr(text, i) \/ ~Is(From(text, EndOfLine(text, i)), "blank")}

KeyValue(key, value) == [key |-> key, value |-> value]
(* The value at the front of text, and what follows it.                     *)
Valued(value, rest) == Ok([value |-> value, rest |-> rest])
ValueUpto(text, end) ==
  IF LoneCr(text, end) THEN Error
  ELSE Valued(Trim(Before(text, end)), From(text, EndOfLine(text, end)))
ValueOf(text) ==
  LET ends == ValueEnds(text) IN IF ends = {} THEN Undefined ELSE ValueUpto(text, Min(ends))
KeyedBy(key, after) ==
  CASE ~Begins(after, Sym(":")) -> Error
    [] Begins(after, Sym(":")) -> ValueOf(From(after, IF Is(Tail(after), "blank") THEN 3 ELSE 2))
RECURSIVE KeyValues(_, _)
More(kvs, key, got) ==
  IF got.end # "ok" THEN got
  ELSE KeyValues(got.v[1].rest, Append(kvs, KeyValue(key, got.v[1].value)))
KeyValues(at, kvs) ==
  LET n == Tokens(at)
      key == SubSeq(at, 1, n)
  IN IF at = <<>> THEN Ok(kvs) ELSE More(kvs, key, KeyedBy(key, From(at, n + 1)))

WithoutBlankLine(header) ==
  IF IsSuffix(<<LF, LF>>, header) THEN SubSeq(header, 1, Len(header) - 1)
  ELSE IF IsSuffix(<<LF, CR, LF>>, header) THEN SubSeq(header, 1, Len(header) - 2)
  ELSE header
WithoutCr(line) == IF line # <<>> /\ Last(line) = CR THEN Front(line) ELSE line
InfoOf(first, kvs) ==
  IF kvs.end # "ok" THEN kvs ELSE Ok([first |-> WithoutCr(first), kvs |-> kvs.v[1]])
InfoSplit(text, n) ==
  IF n = 0 \/ Is(From(text, n + 1), "blank") THEN Error
  ELSE InfoOf(Before(text, n), KeyValues(From(text, n + 1), <<>>))
ParseInfo(header) ==
  LET text == WithoutBlankLine(header) IN
  IF Octets(header) < 4 THEN Error ELSE InfoSplit(text, IndexOf(text, LF))

(* parse_content_type. What ends a value that is not quoted is skipped.     *)
RECURSIVE Charset(_, _)
CharsetIf(set, value, found) == IF set THEN <<value>> ELSE found
QuotedCharset(value, close, set, found) ==
  IF close = 0 THEN Error ELSE Charset(From(value, close + 1), CharsetIf(set, Before(value, close), found))
BareCharset(value, n, set, found) ==
  IF n < Len(value) /\ ~IsSpace(value[n + 1]) /\ value[n + 1] # Sym(";") THEN Error
  ELSE Charset(From(value, n + 2), CharsetIf(set, SubSeq(value, 1, n), found))
CharsetValue(value, set, found) ==
  IF Begins(value, Quote) THEN QuotedCharset(Tail(value), IndexOf(Tail(value), Quote), set, found)
  ELSE BareCharset(value, Tokens(value), set, found)
CharsetParam(param, n, found) ==
  IF ~Begins(From(param, n + 1), Sym("=")) THEN Error
  ELSE CharsetValue(From(param, n + 2), SubSeq(param, 1, n) = <<W("charset")>>, found)
CharsetAt(at, found) ==
  CASE at = <<>> -> Ok(found)
    [] Begins(at, Sym(";")) -> LET param == SkipSpace(Tail(at)) IN CharsetParam(param, Tokens(param), found)
    [] OTHER -> Error
Charset(text, found) == CharsetAt(SkipSpace(text), found)

TypeWith(type, charset) ==
  IF charset.end # "ok" THEN charset
  ELSE Ok(type \o (IF charset.v[1] = <<>> THEN <<>> ELSE <<Sym("/")>> \o charset.v[1][1]))
ParseContentType(value) ==
  LET slash == IndexOf(value, Sym("/"))
      main == Before(value, slash)
      n == slash + Tokens(From(value, slash + 1))
  IN IF main = <<>> \/ \E i \in DOMAIN main: ~IsToken(main[i]) THEN Error
     ELSE IF slash = 0 THEN Undefined
     ELSE TypeWith(SubSeq(value, 1, n), Charset(From(value, n + 1), <<>>))

(* A header that is known, and any other; agent names the field for the     *)
(* program at the other end. More of the others than twice InitMiscHeaders  *)
(* are written beyond their array.                                          *)
Misc(o, kv) ==
  IF Len(o.misc) >= 2 * InitMiscHeaders THEN Undefined ELSE Ok([o EXCEPT !.misc = Append(@, kv)])
WithType(o, type) ==
  IF type.end = "ok" THEN Ok([o EXCEPT !.content_type = type.v]) ELSE Result(type.end, <<>>)
WithDate(o, parsed) ==
  IF parsed.ok THEN Ok([o EXCEPT !.date = <<ToUnixtime(parsed.date)>>]) ELSE Error
HandleField(o, kv, agent) ==
  LET v == kv.value
      is(name) == kv.key = <<W(name)>>
  IN CASE kv.key = <<>> -> Error
       [] is("connection") /\ v = <<W("close")>> -> Ok([o EXCEPT !.parsed_close = TRUE])
       [] is("connection") /\ v = <<W("upgrade")>> -> Ok([o EXCEPT !.upgrade = TRUE])
       [] is("content-encoding") ->
            IF v \in {<<W("gzip")>>, <<W("identity")>>, <<W("none")>>}
            THEN Ok([o EXCEPT !.gzip = v = <<W("gzip")>>]) ELSE Error
       [] is("content-length") ->
            IF Is(v, "num") /\ Len(v) = 1 THEN Ok([o EXCEPT !.content_length = v[1].v]) ELSE Error
       [] is("content-type") -> WithType(o, ParseContentType(v))
       [] is("date") -> WithDate(o, DateParse(v))
       [] is("transfer-encoding") ->
            Ok([o EXCEPT !.parsed_chunked = @ \/ Strip(v) = <<W("chunked")>>])
       [] is("host") /\ agent = "user-agent" -> Ok([o EXCEPT !.host = <<Strip(v)>>])
       [] is(agent) -> Ok([o EXCEPT !.agent = <<Strip(v)>>])
       [] OTHER -> Misc(o, kv)
HandleFields(options, kvs, agent) ==
  FoldLeft(LAMBDA r, kv: IF r.end = "ok" THEN HandleField(r.v[1], kv, agent) ELSE r,
           Ok([options EXCEPT !.parsed = TRUE]), kvs)

ParseVersion(at) ==
  /\ Len(at) >= 5 /\ at[1] = W("http") /\ at[2] = Sym("/") /\ at[4] = Sym(".")
  /\ at[3].is = "num" /\ at[5].is = "num"
Versioned(o, at) == [o EXCEPT !.major = at[3].v, !.minor = at[5].v]

(* The path ends before the first HTTP/ that follows a blank; blanks in     *)
(* front of it belong to the path.                                          *)
ParsedMethods == {"head", "get", "post", "put", "connect", "delete", "options"}
NewIfOk(fields, New(_)) == IF fields.end = "ok" THEN New(fields.v[1]) ELSE Result(fields.end, <<>>)
RequestWith(method, path, at, kvs) ==
  IF ~ParseVersion(at) THEN Error
  ELSE NewIfOk(HandleFields(Versioned([RequestOptions EXCEPT !.method = method, !.full_path = <<path>>], at),
                            kvs, "user-agent"),
               RequestNew)
Http(text) == Begins(text, W("http")) /\ Begins(Tail(text), Sym("/"))
RequestSplit(method, rest, ends, kvs) ==
  IF ends = {} THEN Error
  ELSE RequestWith(method, Reverse(SkipSpace(Reverse(Before(rest, Min(ends))))),
                   From(rest, Min(ends) + 1), kvs)
RequestAfter(method, rest, kvs) ==
  RequestSplit(method, rest, {i \in DOMAIN rest: rest[i].is = "blank" /\ Http(From(rest, i + 1))}, kvs)
RequestLine(line, kvs) ==
  IF ~Is(line, "word") \/ line[1].s \notin ParsedMethods THEN Error
  ELSE RequestAfter(line[1].s, From(line, IF Is(Tail(line), "blank") THEN 3 ELSE 2), kvs)
RequestIn(info) == IF info.end = "ok" THEN RequestLine(info.v[1].first, info.v[1].kvs) ELSE info
RequestParse(header) == RequestIn(ParseInfo(header))

ResponseWith(line, code, kvs) ==
  IF ~Is(code, "num") \/ code[1].w # 3 THEN Error
  ELSE NewIfOk(HandleFields([Versioned(ResponseOptions, line) EXCEPT !.status = code[1].v], kvs, "server"),
               ResponseNew)
ResponseLine(line, kvs) ==
  IF ~ParseVersion(line) THEN Error ELSE ResponseWith(line, SkipSpace(From(line, 6)), kvs)
ResponseIn(info) == IF info.end = "ok" THEN ResponseLine(info.v[1].first, info.v[1].kvs) ELSE info
ResponseParse(header) == ResponseIn(ParseInfo(header))

================================================================================
