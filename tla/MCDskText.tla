------------------------------- MODULE MCDskText -------------------------------
(***************************************************************************)
(* Something is said in a text, by the library or by another program in its *)
(* own way, and the library reads it: a time, the parameters of a header, a *)
(* URL, a request or a response, a template or a command line.              *)
(***************************************************************************)
EXTENDS DskHttpHeader

CONSTANT Careful        \* leave out what the code gets wrong

VARIABLES topic,        \* what the text is about
          said,         \* what it says
          written,      \* the text
          heard         \* what is read

vars == <<topic, said, written, heard>>
Nothing == <<>>

-----------------------------------------------------------------------------
(* Days, counted one year and one month after the other. *)
Leap(year) == IF year % 100 = 0 THEN year % 400 = 0 ELSE year % 4 = 0
DaysIn(month, year) ==
  IF month = 2 THEN IF Leap(year) THEN 29 ELSE 28
  ELSE IF month \in {4, 6, 9, 11} THEN 30 ELSE 31
DaysBefore(year) == 365 * (year - 1970) + Cardinality({y \in 1970..(year - 1): Leap(y)})
YearDay(date) == FoldSet(LAMBDA m, n: n + DaysIn(m, date.year), date.day, 1..(date.month - 1))
Counted(date) == DaysBefore(date.year) + YearDay(date) - 1
SecondsOf(date) == (date.hour * 60 + date.minute) * 60 + date.second
Meant(date) == Time(Counted(date), SecondsOf(date) - 60 * date.zone_offset)
WeekdayOf(date) == Weekdays[((Counted(date) + 4) % 7) + 1]

Years == {1970, 1999, 2000, 2001, 2003, 2004, 2096, 2100, 2101, 2399}
           \cup (IF Careful THEN {} ELSE {1969, 2400})
Clocks == {<<0, 0, 0>>, <<12, 5, 9>>, <<23, 59, 59>>}
Offsets == {0, -300, 330}
Date(year, month, day, clock, offset) ==
  [year |-> year, month |-> month, day |-> day, hour |-> clock[1], minute |-> clock[2],
   second |-> clock[3], zone_offset |-> offset]
Dates(clocks, offsets) ==
  {Date(d[1], d[2], IF d[3] = 0 THEN DaysIn(d[2], d[1]) ELSE d[3], d[4], d[5]):
     d \in Years \X {1, 2, 3, 12} \X {0, 1} \X clocks \X offsets}

(* How others write them. *)
Clock(date) == <<Two(date.hour), Sym(":"), Two(date.minute), Sym(":"), Two(date.second)>>
Month(date) == Word(Months[date.month], 3)
Day(date, pad) == IF date.day < 10 /\ pad # "0" THEN <<Num(1, date.day)>> ELSE <<Two(date.day)>>
Minutes(offset) == IF offset < 0 THEN -offset ELSE offset
Named(offset) == IF offset = 0 THEN {<<W("gmt")>>, <<W("z")>>}
                 ELSE IF offset = -300 THEN {<<W("est")>>} ELSE {}
Hours(offset) == Minutes(offset) \div 60
ZoneTexts(offset) ==
  LET sign == Sym(IF offset < 0 THEN "-" ELSE "+")
      minutes == Minutes(offset) % 60
  IN {<<sign, Num(4, Hours(offset) * 100 + minutes)>>,
      <<sign, Two(Hours(offset)), Sym(":"), Two(minutes)>>} \cup Named(offset)
Rfc822Texts(date) ==
  {<<Word(WeekdayOf(date), 3), Sym(",")>> \o gap \o Day(date, pad) \o <<Blank(1), Month(date),
     Blank(1), Num(4, date.year), Blank(1)>> \o Clock(date) \o <<Blank(1)>> \o zone:
     gap \in {<<>>, <<Blank(1)>>}, pad \in {"0", "none"}, zone \in ZoneTexts(date.zone_offset)}
AnsiCTexts(date) ==
  {<<Word(WeekdayOf(date), 3), Blank(1), Month(date), Blank(IF date.day < 10 THEN 2 ELSE 1)>>
     \o Day(date, "none") \o <<Blank(1)>> \o Clock(date) \o <<Blank(1), Num(4, date.year)>>}
Rfc850Texts(date) ==
  {<<Word(WeekdayOf(date), WeekdayLengths[WeekdayOf(date)]), Sym(","), Blank(1), Two(date.day),
     Sym("-"), Month(date), Sym("-"), Two(date.year % 100), Blank(1)>> \o Clock(date)
     \o <<Blank(1)>> \o zone: zone \in ZoneTexts(date.zone_offset)}
Iso8601Texts(date) ==
  {<<Num(4, date.year), Sym("-"), Two(date.month), Sym("-"), Two(date.day)>> \o t \o Clock(date)
     \o fraction \o zone: t \in {<<W("t")>>, <<Blank(1), W("t"), Blank(1)>>},
       fraction \in {<<>>, <<Sym("."), Num(2, 25)>>}, zone \in ZoneTexts(date.zone_offset)}
DateTexts(date) ==
  Rfc822Texts(date) \cup Iso8601Texts(date)
    \cup (IF date.zone_offset = 0 THEN AnsiCTexts(date) ELSE {})
    \cup (IF date.year < 2070 THEN Rfc850Texts(date) ELSE {})

(* Formats for what the library writes of a date. *)
Format(letters) == [i \in DOMAIN letters |-> Token("conversion", letters[i], 1, 0)]
Formats ==
  {<<"a", "Y", "j", "T">>, <<"A", "C", "y", "e", "R">>, <<"d", "k", "l", "p", "M", "S">>, <<"s", "n", "t">>}
    \cup (IF Careful THEN {} ELSE {<<"F">>, <<"b", "m">>, <<"B">>, <<"I", "p">>})
Conversion(date, c) ==
  LET half == IF date.hour \in {0, 12} THEN 12 ELSE date.hour % 12 IN
  CASE c = "a" -> <<Word(WeekdayOf(date), 3)>>
    [] c = "A" -> <<Word(WeekdayOf(date), WeekdayLengths[WeekdayOf(date)])>>
    [] c = "Y" -> <<Num(4, date.year)>> [] c = "j" -> <<Num(3, YearDay(date))>>
    [] c = "T" -> Clock(date) [] c = "R" -> SubSeq(Clock(date), 1, 3)
    [] c = "C" -> <<Two(date.year \div 100)>> [] c = "y" -> <<Two(date.year % 100)>>
    [] c = "d" -> <<Two(date.day)>>
    [] c = "e" -> IF date.day < 10 THEN <<Blank(1), Num(1, date.day)>> ELSE <<Two(date.day)>>
    [] c = "k" -> IF date.hour < 10 THEN <<Blank(1), Num(1, date.hour)>> ELSE <<Two(date.hour)>>
    [] c \in {"l", "I"} -> <<Two(half)>>
    [] c = "p" -> <<W(IF date.hour < 12 THEN "am" ELSE "pm")>>
    [] c = "M" -> <<Two(date.minute)>> [] c = "S" -> <<Two(date.second)>>
    [] c = "s" -> <<Token("time", "", 10, Meant(date))>>
    [] c = "n" -> <<LF>> [] c = "t" -> <<Sym("\t")>>
    [] c = "b" -> <<Month(date)>>
    [] c = "B" -> <<Word(Months[date.month], MonthLengths[date.month])>>
    [] c = "m" -> <<Two(date.month)>>
    [] c = "F" -> <<Num(4, date.year), Sym("-"), Two(date.month), Sym("-"), Two(date.day)>>

-----------------------------------------------------------------------------
(* Parameters, in the ways they can be written. *)
Text(s) == <<W(s)>>
Hard == <<W("x"), Sym(";"), Blank(1), W("y")>>
ParamsSaid ==
  LET params == {Param(Text(k), v):
                   k \in {"name", "filename"}, v \in {<<>>, <<Text("x")>>, <<Hard>>, <<<<>>>>}}
  IN UNION {[1..n -> params]: n \in 0..2}
Ways == [equals: {<<>>, <<Blank(1)>>}, quoted: BOOLEAN, before: {<<>>, <<Blank(1)>>}]
Bare(v, way) == v = Text("x") /\ ~way.quoted
ParamText(param, way) ==
  param.key \o
    (IF param.value = <<>> THEN <<>>
     ELSE way.equals \o <<Sym("=")>> \o way.equals \o
            (IF Bare(param.value[1], way) THEN param.value[1]
             ELSE <<Quote>> \o param.value[1] \o <<Quote>>))
ParamsText(params, way) ==
  FlattenSeq([i \in DOMAIN params |->
                (IF i > 1 THEN way.before \o <<Sym(";"), Blank(1)>> ELSE <<>>)
                  \o ParamText(params[i], way)])
(* A blank before the semicolon after a bare value. *)
MisreadParams(params, way) ==
  /\ way.before # <<>>
  /\ \E i \in 1..(Len(params) - 1): params[i].value # <<>> /\ Bare(params[i].value[1], way)

(* URLs by their parts. *)
UrlsSaid ==
  [scheme: {"http", "file", "unknown"}, username: {<<>>, <<Text("u")>>}, password: {<<>>, <<Text("p")>>},
   host: {<<>>, <<<<W("h"), Sym("."), W("org")>>>>}, port: {0, 80},
   path: {<<>>, <<Sym("/")>>, <<Sym("/"), W("a"), Sym("/"), W("b")>>},
   query: {<<>>, <<Text("q")>>}, fragment: {<<>>, <<Text("f")>>, <<<<W("f"), Sym("?"), W("x")>>>>}]
Sayable(url) ==
  /\ url.password # <<>> => url.username # <<>>
  /\ (url.host = <<>>) <=> (url.scheme = "file")
  /\ url.host = <<>> => url.username = <<>> /\ url.port = 0 /\ url.path # <<>>
MisreadUrl(url) ==
  \/ url.path = <<>> /\ (url.query # <<>> \/ url.fragment # <<>>)
  \/ url.query = <<>> /\ url.fragment # <<>> /\ Contains(url.fragment[1], Sym("?"))
Prefixed(prefix, part) == IF part = <<>> THEN <<>> ELSE prefix \o part[1]
UrlText(url) ==
  <<W(IF url.scheme = "unknown" THEN "gopher" ELSE url.scheme), Sym(":"), Sym("/"), Sym("/")>>
    \o (IF url.username = <<>> THEN <<>>
        ELSE url.username[1] \o Prefixed(<<Sym(":")>>, url.password) \o <<Sym("@")>>)
    \o Prefixed(<<>>, url.host) \o (IF url.port = 0 THEN <<>> ELSE <<Sym(":"), Num(2, url.port)>>)
    \o url.path \o Prefixed(<<Sym("?")>>, url.query) \o Prefixed(<<Sym("#")>>, url.fragment)

-----------------------------------------------------------------------------
(* Options that a program gives, one at a time. *)
Noon == Time(12000, 43200)
Path == <<Sym("/"), W("a")>>
Plain == <<W("text"), Sym("/"), W("plain")>>
Typed == {Plain, Plain \o <<Sym("/"), W("utf")>>}
Other(name) == KeyValue(<<W("x"), Sym("-"), W(name)>>, <<W("v"), Blank(1), Num(1, 2)>>)
Given(o, field, v) == [o EXCEPT ![field] = v]
OneMore(o) == Given(o, "misc", Append(o.misc, Other("m")))
Common(o) ==
  {Given(o, "content_type", <<t>>): t \in Typed}
    \cup {Given(o, "content_length", n): n \in {0, 12}} \cup {Given(o, "gzip", TRUE)}
    \cup (IF Careful /\ Len(o.misc) = 2 * InitMiscHeaders THEN {} ELSE {OneMore(o)})
    \cup (IF Careful THEN {} ELSE {Given(o, "date", <<Noon>>), Given(o, "minor", 0)})
RequestGiven(o) ==
  Common(o) \cup {Given(o, "method", m): m \in {"post", "head"} \cup (IF Careful THEN {} ELSE {"trace"})}
    \cup {Given(o, f, <<Text("s")>>): f \in {"host", "agent"} \cup (IF Careful THEN {} ELSE {"referrer"})}
    \cup {Given(o, "chunked", TRUE), Given(o, "upgrade", TRUE)}
    \cup {Given(o, "query", <<Text("q")>>)}
ResponseGiven(o) ==
  Common(o) \cup {Given(o, "status", n): n \in {206, 404} \cup (IF Careful THEN {} ELSE {307})}
    \cup {Given(o, "request", <<[minor |-> n, close |-> c]>>): n \in {0, 1}, c \in BOOLEAN}
    \cup {Given(o, "close", TRUE)}
    \cup (IF Careful THEN {} ELSE {Given(o, "location", <<Path>>), Given(o, "agent", <<Text("s")>>)})
MaxOptions == 3

(* The header of a request from another program: lines in any order, folded *)
(* or not, with blanks or without. *)
Fields == {"host", "length", "type", "close", "gzip", "chunked", "date", "upgrading", "upgrade",
           "x-other", "number", "day", "keyless"}
Spoilt == {"number", "day", "keyless"}
Key(name) ==
  CASE name \in {"length", "number"} -> "content-length" [] name = "type" -> "content-type"
    [] name \in {"close", "upgrading"} -> "connection" [] name = "gzip" -> "content-encoding"
    [] name = "chunked" -> "transfer-encoding" [] name = "day" -> "date" [] OTHER -> name
KeyText(name) == IF name = "keyless" THEN <<>> ELSE Text(Key(name))
ValueText(name) ==
  CASE name = "length" -> <<Num(2, 12)>>
    [] name = "upgrading" -> Text("upgrade") [] name = "upgrade" -> Text("websocket")
    [] name = "type" -> Plain \o <<Sym(";"), Blank(1), W("charset"), Sym("="), Quote, W("utf"), Quote>>
    [] name = "date" -> <<W("sun"), Blank(1), W("nov"), Blank(2), Num(1, 9), Blank(1), Num(2, 12), Sym(":"),
                          Num(2, 0), Sym(":"), Num(2, 0), Blank(1), Num(4, 2002)>>
    [] OTHER -> <<W(name)>>
Understood(r, name) ==
  CASE name = "host" -> Given(r, "host", <<Text("host")>>)
    [] name = "length" -> Given(r, "content_length", 12)
    [] name = "type" -> Given(r, "content_type", <<Plain \o <<Sym("/"), W("utf")>>>>)
    [] name = "close" -> Given(r, "close", TRUE)
    [] name = "gzip" -> Given(r, "gzip", TRUE)
    [] name = "chunked" -> Given(r, "chunked", TRUE)
    [] name = "date" -> Given(r, "date", <<Noon>>)
    [] name = "upgrading" -> Given(r, "upgrade", TRUE)
    [] OTHER -> Given(r, "misc", Append(r.misc, KeyValue(<<W(name)>>, ValueText(name))))
Lines == [gap: {<<>>, <<Blank(2)>>, <<CR, LF, Blank(1)>>, <<LF, Blank(3)>>},
          end: {<<CR, LF>>, <<LF>>, <<Blank(1), CR, LF>>}]
MaxLines == 2
FirstLine == <<W("post"), Blank(1)>> \o Path \o <<Blank(1)>> \o Version(1, 1) \o NewLine

-----------------------------------------------------------------------------
(* Variables that a program sets, in scopes that it opens and closes, and *)
(* templates that name them. *)
Keys == {<<W("a")>>, <<W("ab"), Sym("_"), Num(1, 1)>>}
UnsetName == <<W("b")>>
Values == {Text("x")}
MaxDefs == 3
MaxScopes == 3
Part(is, key) == [is |-> is, key |-> key]
Parts == {Part("text", UnsetName), Part("dollar", <<>>)}
           \cup {Part(is, key): is \in {"bare", "braced"}, key \in Keys \cup {UnsetName}}
Templates == {<<p, Part("text", <<Sym("-")>>), Part("bare", <<W("a")>>)>>: p \in Parts}
PartText(p) ==
  CASE p.is = "text" -> p.key [] p.is = "dollar" -> <<Sym("$"), Sym("$")>>
    [] p.is = "bare" -> <<Sym("$")>> \o p.key
    [] p.is = "braced" -> <<Sym("$"), Sym("{"), Blank(1)>> \o p.key \o <<Sym("}")>>
TemplateText(parts) == FlattenSeq([i \in DOMAIN parts |-> PartText(parts[i])])
(* What a variable is, by the innermost scope that sets it: said is the *)
(* sequence of the scopes, each a function with <<value>>, or <<>>. *)
NoVariables == [k \in Keys |-> <<>>]
Variable(scopes, key) ==
  IF key \notin Keys THEN <<>>
  ELSE LET setting == SelectInSeq(Reverse(scopes), LAMBDA scope: scope[key] # <<>>) IN
       IF setting = 0 THEN <<>> ELSE Reverse(scopes)[setting][key]
PartSaid(scopes, p) ==
  CASE p.is = "text" -> <<p.key>> [] p.is = "dollar" -> <<<<Sym("$")>>>> [] OTHER -> Variable(scopes, p.key)
(* Up to the first that is not set. *)
Expansion(scopes, parts) ==
  LET saids == [i \in DOMAIN parts |-> PartSaid(scopes, parts[i])]
      unset == SelectInSeq(saids, LAMBDA s: s = <<>>)
  IN [ok |-> unset = 0,
      out |-> FlattenSeq([i \in DOMAIN Before(saids, unset) |-> saids[i][1]])]
SayIn(scopes, key, value) == [scopes EXCEPT ![Len(scopes)][key] = <<value>>]

(* A program with options, and what it is given: options, each with its *)
(* value, and words, in the ways they can be written. *)
All == Text("all")
Quiet == Text("quiet")
Depth == Text("depth")
Level == Text("level")
Sure == Text("sure")
Mode(mandatory, required, swallow, permissive, handler) ==
  LET options ==
        (All :> AddOption("boolean", {"takes"}, FALSE))
          @@ (Quiet :> AddOption("boolean", {"reversed"}, FALSE))
          @@ (Depth :> AddOption(IF Careful THEN "int" ELSE "double", mandatory, TRUE))
          @@ (Level :> AddOption("func", {"optional"}, TRUE)) @@ (Sure :> AddOption("boolean", {}, TRUE))
      bare == [options |-> options, letters |-> [l \in {W("z")} |-> All], exclusive |-> <<>>,
               swallow |-> swallow, unknown |-> permissive, extra |-> permissive, handler |-> handler]
  IN MutuallyExclusive(
       FoldLeft(LAMBDA mode, l: AddShortcut(mode, W(l[1]), Text(l[2])), bare,
                <<<<"a", "all">>, <<"q", "quiet">>, <<"d", "depth">>, <<"l", "level">>, <<"d", "all">>>>),
       required, {All, Quiet})
Modes == {Mode({"mandatory"}, FALSE, TRUE, TRUE, FALSE), Mode({}, TRUE, TRUE, FALSE, FALSE),
          Mode({}, FALSE, FALSE, TRUE, TRUE)}
Dash == Sym("-")
Long(name) == <<<<Dash, Dash>> \o name>>
WithValue(name, value) == {Long(name) \o <<value>>, <<Long(name)[1] \o <<Sym("=")>> \o value>>}
Setting(name, value) == <<name, value>>
Say(settings, texts) == [settings |-> settings, texts |-> texts]
True == Text("true")
False == Text("false")
Short(letter) == <<<<Dash, W(letter)>>>>
Gives ==
  {Say(<<Setting(All, True)>>, t): t \in {Long(All), Short("a"), Short("z")}}
    \cup {Say(<<Setting(Quiet, False)>>, Short("q"))}
    \cup {Say(<<Setting(All, True), Setting(Quiet, False)>>, <<<<Dash, W("a"), W("q")>>>>)}
    \cup {Say(<<Setting(Depth, <<Num(1, 3)>>)>>, t): t \in WithValue(Depth, <<Num(1, 3)>>)}
    \cup {Say(<<Setting(Depth, <<Num(2, 40)>>)>>, Append(Short("d"), <<Num(2, 40)>>))}
    \cup {Say(<<Setting(Level, t[1])>>, t[2]): t \in {<<True, Long(Level)>>,
                                     <<Short("a")[1], Append(Short("l"), Short("a")[1])>>}}
    \cup {Say(<<Setting(Sure, False)>>, t): t \in WithValue(Sure, Text("no"))}
    \cup {Say(<<Setting(<<>>, Text("word"))>>, <<Text("word")>>),
          Say(<<Setting(<<Dash>>, <<>>)>>, <<<<Dash>>>>)}
    \cup {Say(<<Setting(Text("spoilt"), <<>>)>>, t):
             t \in WithValue(Depth, <<Num(1, 3), W("x")>>) \cup {<<<<Dash, W("a"), W("d")>>>>}
                    \cup (IF Careful THEN {} ELSE WithValue(Sure, Text("nope")))}
    \cup {Say(<<Setting(Text("other"), <<>>)>>, Long(Text("other")))}
MaxGives == 2

-----------------------------------------------------------------------------
Calendar == Dates(Clocks, {0})
Zoned == {d \in Dates({<<23, 59, 59>>}, Offsets): d.year \in {1970, 2004, 2101}}
Topics == {"time", "date", "format", "params", "url", "request", "response", "header", "template",
           "command"}

Init ==
  /\ topic \in Topics
  /\ \/ topic = "time" /\ said \in {Meant(d): d \in Calendar}
     \/ topic = "date" /\ said \in Zoned
     \/ topic = "format" /\ said \in Calendar
     \/ topic = "params" /\ said \in ParamsSaid
     \/ topic = "url" /\ said \in {u \in UrlsSaid: Sayable(u) /\ (Careful => ~MisreadUrl(u))}
     \/ topic = "request" /\ said \in {Given(RequestOptions, f, <<Path>>): f \in {"path", "full_path"}}
     \/ topic = "response" /\ said = ResponseOptions
     \/ topic = "header" /\ said \in [way: Lines, fields: {Nothing}]
     \/ topic = "template" /\ said = <<NoVariables>>
     \/ topic = "command" /\ said \in [mode: Modes, settings: {Nothing}]
  /\ written = IF topic = "header" THEN FirstLine ELSE Nothing
  /\ heard = IF topic = "template" THEN NewPrint(Keys) ELSE Nothing

Writes(about, text) ==
  topic = about /\ written = Nothing /\ written' = text /\ UNCHANGED <<topic, said, heard>>
Hears(about, v) ==
  topic = about /\ written # Nothing /\ heard = Nothing /\ heard' = v /\ UNCHANGED <<topic, said, written>>

WriteTime == topic = "time" /\ Writes("time", PrintRfc822(UnixtimeToDate(said)))
WriteDate == topic = "date" /\ \E text \in DateTexts(said): Writes("date", text)
ReadTime ==
  /\ topic \in {"time", "date"}
  /\ \E parsed \in {DateParse(written)}:
       Hears(topic, IF parsed.ok THEN <<ToUnixtime(parsed.date)>> ELSE <<>>)
WriteFormatted ==
  /\ topic = "format" /\ heard = Nothing
  /\ \E f \in Formats:
       /\ written' = Strftime(said, Format(f), MaxLengthOf(Format(f)) + 1)
       /\ heard' = f
  /\ UNCHANGED <<topic, said>>

WriteParams ==
  /\ topic = "params"
  /\ \E way \in Ways:
       /\ Careful => ~MisreadParams(said, way)
       /\ Writes("params", <<ParamsText(said, way)>>)
(* A quoted value that fills the array is followed by more than there is *)
(* room for. *)
ReadParams ==
  /\ topic = "params" /\ written # Nothing
  /\ \E max \in 1..3, disposition \in {<<W("inline")>>, <<W("form"), Sym("-"), W("data")>>}:
       /\ Careful => Len(said) <= max
       /\ Hears("params",
                [max |-> max, inline |-> disposition = <<W("inline")>>,
                 scanned |-> KeyValuesScan(written[1], max),
                 disposition |-> ContentDisposition(disposition \o <<Sym(";"), Blank(1)>> \o written[1])])

WriteUrl == topic = "url" /\ Writes("url", UrlText(said))
ReadUrl == topic = "url" /\ Hears("url", UrlScan(written))

Changed(o, from) == {f \in DOMAIN o: o[f] # from[f]}
HasStrings(o) ==
  \/ o.content_type # <<>> \/ o.referrer # <<>> \/ o.agent # <<>> \/ o.host # <<>>
  \/ o.misc # <<>>
GiveOption ==
  /\ topic = "request" /\ written = Nothing
  /\ \E o \in RequestGiven(said):
       /\ Cardinality(Changed(o, RequestOptions)) <= MaxOptions
       /\ Careful => o.query = <<>> \/ ~HasStrings(o)
       /\ said' = o
  /\ UNCHANGED <<topic, written, heard>>
GiveResponseOption ==
  /\ topic = "response" /\ written = Nothing
  /\ \E o \in ResponseGiven(said):
       /\ Cardinality(Changed(o, ResponseOptions)) <= MaxOptions
       /\ said' = o
  /\ UNCHANGED <<topic, written, heard>>
WriteRequest ==
  /\ topic = "request"
  /\ \E r \in {RequestNew(said)}: r.end = "ok" /\ Writes("request", PrintRequest(r.v[1]) \o NewLine)
ReadRequest ==
  /\ topic = "request"
  /\ \E r \in {RequestNew(said).v[1]}:
       Hears("request", [parsed |-> RequestParse(written), forwarded |-> RequestNew(InitOptions(r))])
WriteResponse ==
  /\ topic = "response"
  /\ \E r \in {ResponseNew(said)}: r.end = "ok" /\ Writes("response", PrintResponse(r.v[1]) \o NewLine)
ReadResponse == topic = "response" /\ Hears("response", <<ResponseParse(written)>>)

AddLine ==
  /\ topic = "header" /\ heard = Nothing /\ Len(said.fields) < MaxLines
  /\ \E name \in Fields:
       /\ said' = [said EXCEPT !.fields = Append(@, name)]
       /\ written' = written \o KeyText(name) \o <<Sym(":")>> \o said.way.gap \o ValueText(name)
                       \o said.way.end
  /\ UNCHANGED <<topic, heard>>
ReadHeader == topic = "header" /\ Hears("header", <<RequestParse(written \o NewLine)>>)

Sets(scopes, context) ==
  /\ topic = "template" /\ written = Nothing
  /\ said' = scopes /\ heard' = context
  /\ UNCHANGED <<topic, written>>
SetVar ==
  /\ topic = "template" /\ Len(heard.defs) < MaxDefs
  /\ \E key \in Keys, value \in Values: Sets(SayIn(said, key, value), AddVarDef(heard, key, value))
SetFilteredVar ==
  /\ topic = "template" /\ Len(heard.defs) < MaxDefs
  /\ \E key \in {<<W("a")>>}, filtered \in {<<>>, <<Text("y")>>}:
       Sets(IF filtered = <<>> THEN said ELSE SayIn(said, key, filtered[1]),
            SetFiltered(heard, key, filtered))
SetTemplateVar ==
  /\ topic = "template" /\ Len(heard.defs) < MaxDefs
  /\ \E key \in Keys, used \in {<<W("a")>>}:
       \E parts \in {<<Part("dollar", <<>>), Part("bare", used)>>}:
         Sets(SayIn(said, key, Expansion(said, parts).out),
              SetTemplateString(heard, key, TemplateText(parts)))
PushScope ==
  /\ topic = "template" /\ Len(heard.scopes) < MaxScopes
  /\ Sets(Append(said, NoVariables), Push(heard))
PopScope == topic = "template" /\ Sets(IF Len(said) = 1 THEN said ELSE Front(said), Pop(heard))
WriteTemplate ==
  /\ topic = "template" /\ written = Nothing
  /\ \E parts \in Templates: written' = <<parts, PrintTemplate(heard, TemplateText(parts))>>
  /\ UNCHANGED <<topic, said, heard>>

GiveArgument ==
  /\ topic = "command" /\ heard = Nothing /\ Len(said.settings) < MaxGives
  /\ \E give \in Gives:
       /\ said' = [said EXCEPT !.settings = @ \o give.settings]
       /\ written' = written \o give.texts
  /\ UNCHANGED <<topic, heard>>
ProcessArgs ==
  /\ topic = "command" /\ heard = Nothing
  /\ heard' = TryProcessArgs(said.mode, written)
  /\ UNCHANGED <<topic, said, written>>

Next ==
  \/ SetVar \/ SetFilteredVar \/ SetTemplateVar \/ PushScope \/ PopScope \/ WriteTemplate
  \/ GiveArgument \/ ProcessArgs
  \/ WriteTime \/ WriteDate \/ ReadTime \/ WriteFormatted \/ WriteParams \/ ReadParams
  \/ WriteUrl \/ ReadUrl \/ GiveOption \/ GiveResponseOption
  \/ WriteRequest \/ ReadRequest \/ WriteResponse \/ ReadResponse \/ AddLine \/ ReadHeader
Spec == Init /\ [][Next]_vars

-----------------------------------------------------------------------------
(* A time is printed with the right weekday and read back; what is printed *)
(* of a date in any format fits in the room that is said to be enough. *)
TimeKept ==
  topic = "time" /\ heard # Nothing =>
    heard = <<said>> /\ written[1].s = Weekdays[((said.days + 4) % 7) + 1]
FormatsFit ==
  topic = "format" /\ heard # Nothing =>
    /\ Printed(written).ok
    /\ written.out = FlattenSeq([i \in DOMAIN heard |-> Conversion(said, heard[i])])

(* A request or response that is made is read as it was made, and the *)
(* options taken from a request make the same request. *)
MessagesKept ==
  /\ topic = "request" /\ heard # Nothing =>
       LET r == RequestNew(said) IN
       /\ heard.parsed = r
       /\ (Careful => ~r.v[1].close /\ ~r.v[1].upgrade) => heard.forwarded = r
  /\ topic = "response" /\ heard # Nothing => heard[1] = ResponseNew(said)

(* Whoever wrote a date, however, it is read as the time that it says; *)
(* and so are parameters and the parts of a URL. *)
DatesUnderstood == topic = "date" /\ heard # Nothing => heard = <<Meant(said)>>
LastValue(params, key) ==
  LET given == SelectSeq(params, LAMBDA p: p.key = Text(key)) IN
  IF given = <<>> THEN <<>> ELSE given[Len(given)].value
ParamsUnderstood ==
  topic = "params" /\ heard # Nothing =>
    /\ heard.scanned.ok
    /\ heard.scanned.kvs = SubSeq(said, 1, IF Len(said) < heard.max THEN Len(said) ELSE heard.max)
    /\ heard.disposition = [ok |-> TRUE, inline |-> heard.inline, name |-> LastValue(said, "name"),
                            filename |-> LastValue(said, "filename")]
UrlsUnderstood ==
  topic = "url" /\ heard # Nothing =>
    /\ heard.ok /\ \A f \in DOMAIN said: said[f] = heard[f]
    /\ SchemeParse(written) = IF said.scheme = "http" THEN <<"http">> ELSE <<>>

(* The header of a request means what its lines say, in whichever way they *)
(* are written; if one of them says nothing the request is refused. *)
Unlined ==
  [method |-> "post", path |-> Path, major |-> 1, minor |-> 1, content_type |-> <<>>,
   content_length |-> -1, chunked |-> FALSE, close |-> FALSE, upgrade |-> FALSE, gzip |-> FALSE,
   date |-> <<>>, referrer |-> <<>>, agent |-> <<>>, host |-> <<>>, misc |-> <<>>]
HeadersUnderstood ==
  topic = "header" /\ heard # Nothing =>
    IF \E i \in DOMAIN said.fields: said.fields[i] \in Spoilt THEN heard[1] = Error
    ELSE \E r \in {FoldLeft(Understood, Unlined, said.fields)}:
           /\ heard[1] = Ok(r)
           /\ IsWebsocketRequest(r) <=> {"upgrading", "upgrade"} \subseteq ToSet(said.fields)
           /\ RequestGet(r, "x-other") =
                IF Contains(said.fields, "x-other") THEN <<ValueText("x-other")>> ELSE <<>>

(* A template is printed with the values that its variables have where it *)
(* is printed: those of the scopes that are open, the innermost first. From *)
(* the first variable without a value on nothing more is printed. *)
TemplatesExpanded ==
  topic = "template" /\ written # Nothing =>
    \E e \in {Expansion(said, written[1])}:
      written[2] = IF e.ok THEN Append(e.out, LF) ELSE e.out

(* A command line is understood if all that it says can be meant, and then *)
(* it means the last value of each option, whichever way it is written; the *)
(* words are handed on, or are what is left where the rest is taken out. *)
Stopped(settings) == LET n == SelectInSeq(settings, LAMBDA s: s[1] = <<Dash>>) IN
                     IF n = 0 THEN Len(settings) + 1 ELSE n
OptionsSaid(c) == SubSeq(c.settings, 1, Stopped(c.settings) - 1)
NamesSaid(settings) == {settings[i][1]: i \in DOMAIN settings}
ValueSaid(settings, name) ==
  LET given == SelectSeq(settings, LAMBDA s: s[1] = name) IN
  IF given = <<>> THEN <<>> ELSE <<given[Len(given)][2]>>
Meaningful(mode, names, stopped) ==
  /\ Text("spoilt") \notin names
  /\ (Text("other") \in names \/ stopped) => mode.unknown
  /\ <<>> \in names => mode.extra \/ mode.handler
  /\ "mandatory" \in mode.options[Depth].flags => Depth \in names
  /\ ~{All, Quiet} \subseteq names
  /\ mode.exclusive[1].required => {All, Quiet} \cap names # {}
LeftOf(s) == CASE s[1] = <<>> -> <<s[2]>> [] s[1] = Text("other") -> Long(s[1]) [] OTHER -> <<>>
Left(settings) == FlattenSeq([i \in DOMAIN settings |-> LeftOf(settings[i])])
CommandsUnderstood ==
  topic = "command" /\ heard # Nothing =>
    LET meant == OptionsSaid(said)
        names == NamesSaid(meant)
        ok == Meaningful(said.mode, names, Len(meant) < Len(said.settings))
    IN /\ (heard.end = "ok") = ok
       /\ ok =>
            /\ \A name \in DOMAIN heard.values: heard.values[name] = ValueSaid(meant, name)
            /\ heard.handed = IF said.mode.handler
                                THEN Left(SelectSeq(meant, LAMBDA s: s[1] = <<>>)) ELSE <<>>
            /\ ~said.mode.swallow => heard.argv = written
            /\ said.mode.swallow /\ Len(meant) = Len(said.settings) => heard.argv = Left(meant)

RoundTrips == TimeKept /\ FormatsFit /\ MessagesKept /\ TemplatesExpanded
ParsedAsWritten ==
  /\ DatesUnderstood /\ ParamsUnderstood /\ UrlsUnderstood /\ HeadersUnderstood
  /\ CommandsUnderstood

=============================================================================
