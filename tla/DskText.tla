-------------------------------- MODULE DskText --------------------------------
(***************************************************************************)
(* Dates (dsk-date.c), the parameters of MIME headers (dsk-mime.c), URLs    *)
(* (dsk-url.c), templates (dsk-print.c) and command lines (dsk-cmdline.c). *)
(* A text is a sequence of tokens: words, numbers with their digits, signs, *)
(* blanks and the ends of lines. Of a word there are its letters, in small  *)
(* ones, and their number; of the name of a month or a weekday the first    *)
(* three.                                                                   *)
(***************************************************************************)
EXTENDS Integers, Sequences, SequencesExt, FiniteSets, TLC

Token(is, s, w, v) == [is |-> is, s |-> s, w |-> w, v |-> v]
Word(s, w) == Token("word", s, w, 0)
W(s) == Word(s, Len(s))
Num(w, v) == Token("num", "", w, v)          \* v in w digits
Sym(c) == Token("sym", c, 1, 0)
Blank(n) == Token("blank", "", n, 0)
CR == Token("newline", "cr", 1, 0)
LF == Token("newline", "lf", 1, 0)

Is(text, kind) == text # <<>> /\ text[1].is = kind
Begins(text, token) == text # <<>> /\ text[1] = token
IsSpace(t) == t.is \in {"blank", "newline"}
IsToken(t) == t.is \in {"word", "num"} \/ t = Sym("-")
From(text, n) == SubSeq(text, n, Len(text))
Before(text, n) == IF n = 0 THEN text ELSE SubSeq(text, 1, n - 1)
IndexOf(text, token) == SelectInSeq(text, LAMBDA t: t = token)      \* 0: not there
Spaces(text) == LET n == SelectInSeq(text, LAMBDA t: ~IsSpace(t)) IN
                IF n = 0 THEN Len(text) ELSE n - 1
SkipSpace(text) == From(text, Spaces(text) + 1)
Tokens(text) == LET n == SelectInSeq(text, LAMBDA t: ~IsToken(t)) IN
                IF n = 0 THEN Len(text) ELSE n - 1

(* A text without its first n letters or digits. *)
Beyond(text, n) ==
  LET t == text[1] IN
  IF t.w = n THEN Tail(text)
  ELSE <<IF t.is = "num" THEN Num(t.w - n, t.v % 10 ^ (t.w - n)) ELSE Word("", t.w - n)>>
         \o Tail(text)
Digits(text, n) == Is(text, "num") /\ text[1].w >= n
FirstDigits(text, n) == text[1].v \div 10 ^ (text[1].w - n)

-----------------------------------------------------------------------------
(* Dates. month: 1 to 12; zone_offset: minutes. *)
Months == <<"jan", "feb", "mar", "apr", "may", "jun", "jul", "aug", "sep", "oct", "nov", "dec">>
Weekdays == <<"sun", "mon", "tue", "wed", "thu", "fri", "sat">>
MonthStarts == <<0, 31, 59, 90, 120, 151, 181, 212, 243, 273, 304, 334>>
NoDate == [year |-> 0, month |-> 0, day |-> 0, hour |-> 0, minute |-> 0, second |-> 0,
           zone_offset |-> 0]

Zones == [gmt |-> 0, utc |-> 0, est |-> -5, edt |-> -4, cst |-> -6, cdt |-> -5,
          mst |-> -7, mdt |-> -6, pst |-> -8, pdt |-> -7]
Zone(minutes, rest) == [ok |-> TRUE, minutes |-> minutes, rest |-> rest]
NoZone == [ok |-> FALSE, minutes |-> 0, rest |-> <<>>]
HoursMinutes(v) == (v \div 100) * 60 + (v % 100)
ParseTimezone(at) ==
  LET t == at[1]
      sign == IF t = Sym("-") THEN -1 ELSE 1
      digits == Tail(at)
      after == Beyond(digits, 2)
      colon == Begins(after, Sym(":"))
  IN CASE at = <<>> -> NoZone
       [] t.is = "word" ->
            IF t \in {W("z"), W("ut")} THEN Zone(0, Tail(at))
            ELSE IF t.w >= 3 /\ t.s \in DOMAIN Zones THEN Zone(60 * Zones[t.s], Beyond(at, 3))
            ELSE NoZone
       [] t \in {Sym("+"), Sym("-")} /\ Digits(digits, 4) ->
            Zone(sign * HoursMinutes(FirstDigits(digits, 4)), Beyond(digits, 4))
       [] t \in {Sym("+"), Sym("-")} /\ ~Digits(digits, 4) /\ Digits(digits, 2) ->
            IF colon /\ Digits(Tail(after), 2)
            THEN Zone(sign * (60 * FirstDigits(digits, 2) + FirstDigits(Tail(after), 2)),
                      Beyond(Tail(after), 2))
            ELSE NoZone
       [] OTHER -> NoZone

(* parse_generic, a conversion of the format at a time. at: what is left. *)
Parsing(at, date) == [ok |-> TRUE, at |-> at, date |-> date]
Refused(st) == [st EXCEPT !.ok = FALSE]
TakeDigits(st, n, field) ==
  IF Digits(st.at, n)
  THEN Parsing(Beyond(st.at, n), [st.date EXCEPT ![field] = FirstDigits(st.at, n)])
  ELSE Refused(st)
TakeDay(st) ==
  IF st.at # <<>> /\ IsSpace(st.at[1]) /\ st.at[1].w = 1 /\ Digits(Tail(st.at), 1)
  THEN TakeDigits([st EXCEPT !.at = Tail(@)], 1, "day")
  ELSE IF Digits(st.at, 2) THEN TakeDigits(st, 2, "day") ELSE TakeDigits(st, 1, "day")
TakeYear(st) ==
  IF Digits(st.at, 3) THEN TakeDigits(st, 4, "year")
  ELSE LET taken == TakeDigits(st, 2, "year")
       IN [taken EXCEPT !.date.year = IF @ < 70 THEN @ + 2000 ELSE @ + 1900]
TakeMonth(st) ==
  IF Is(st.at, "word") /\ st.at[1].w >= 3 /\ Contains(Months, st.at[1].s)
  THEN Parsing(Beyond(st.at, 3), [st.date EXCEPT !.month = SelectInSeq(Months, LAMBDA m: m = st.at[1].s)])
  ELSE Refused(st)
SkipFraction(st) ==
  IF ~st.ok \/ ~Begins(st.at, Sym(".")) THEN st
  ELSE [st EXCEPT !.at = From(@, IF Is(Tail(@), "num") THEN 3 ELSE 2)]
TakeZone(st) ==
  LET z == ParseTimezone(st.at) IN
  IF z.ok THEN Parsing(z.rest, [st.date EXCEPT !.zone_offset = z.minutes]) ELSE Refused(st)
TakeSign(st, c) ==
  IF Begins(st.at, IF c = "T" THEN W("t") ELSE Sym(c)) THEN [st EXCEPT !.at = Tail(@)]
  ELSE Refused(st)

ParseStep(st, c) ==
  CASE ~st.ok -> st
    [] st.ok /\ c = " " -> [st EXCEPT !.at = SkipSpace(@)]
    [] st.ok /\ c = "A" -> [st EXCEPT !.at = IF Is(@, "word") THEN Tail(@) ELSE @]
    [] st.ok /\ c = "Y" -> TakeDigits(st, 4, "year")
    [] st.ok /\ c = "y" -> TakeYear(st)
    [] st.ok /\ c = "D" -> TakeDay(st)
    [] st.ok /\ c = "b" -> TakeMonth(st)
    [] st.ok /\ c = "m" -> TakeDigits(st, 2, "month")
    [] st.ok /\ c = "H" -> TakeDigits(st, 2, "hour")
    [] st.ok /\ c = "M" -> TakeDigits(st, 2, "minute")
    [] st.ok /\ c = "S" -> SkipFraction(TakeDigits(st, 2, "second"))
    [] st.ok /\ c = "Z" -> TakeZone(st)
    [] OTHER -> TakeSign(st, c)
ParseGeneric(format, text) == FoldLeft(ParseStep, Parsing(text, NoDate), format)

Rfc822 == <<"A", " ", ",", " ", "D", " ", "b", " ", "Y", " ", "H", ":", "M", ":", "S", " ", "Z">>
AnsiC == <<"A", " ", "b", " ", "D", " ", "H", ":", "M", ":", "S", " ", "Y">>
Rfc850 == <<"A", ",", " ", "D", "-", "b", "-", "y", " ", "H", ":", "M", ":", "S", " ", "Z">>
Iso8601 == <<"Y", "-", "m", "-", "D", " ", "T", " ", "H", ":", "M", ":", "S", "Z">>
(* A text in none of the formats matches no conversion. *)
NoFormat == <<"">>
FormatOf(text, letters, then) ==
  CASE letters = 3 /\ Begins(then, Sym(",")) -> Rfc822
    [] letters = 3 /\ Is(then, "blank") -> AnsiC
    [] letters > 3 /\ Begins(then, Sym(",")) -> Rfc850
    [] Is(text, "num") /\ text[1].w = 4 /\ Begins(then, Sym("-")) -> Iso8601
    [] OTHER -> NoFormat
DateParse(text) ==
  ParseGeneric(FormatOf(text, IF Is(text, "word") THEN text[1].w ELSE 0, From(text, 2)), text)

-----------------------------------------------------------------------------
(* A time is a number of days since the epoch and of seconds; an unsigned *)
(* number of days wraps at WrapDays (that is 2^32 in the code). What is read *)
(* beyond a table, or computed from it, is Nonsense. *)
WrapDays == 2 ^ 20
DaySeconds == 86400
Time(days, secs) == [days |-> days + (secs \div DaySeconds), secs |-> secs % DaySeconds]
Nonsense == [days |-> 0, secs |-> -1]

IsLeapYear(year) == year % 4 = 0 /\ (year % 100 # 0 \/ year % 400 = 0)
DaysSinceEpoch(date) ==
  LET ly == IF date.month <= 2 THEN date.year - 1 ELSE date.year
      n_leaps == ((ly \div 4) - (1970 \div 4)) - ((ly \div 100) - (1970 \div 100))
                   + ((ly \div 400) - (1970 \div 400))
  IN (date.year - 1970) * 365 + n_leaps + MonthStarts[date.month] + date.day - 1
DayOfYear(date) ==
  MonthStarts[date.month] + date.day - 1
    + (IF date.month >= 3 /\ IsLeapYear(date.year) THEN 1 ELSE 0)
(* A negative remainder indexes before the table. *)
DayOfWeek(date) ==
  LET day == DaysSinceEpoch(date) + 4 IN
  IF day >= 0 THEN Weekdays[(day % 7) + 1]
  ELSE IF day % 7 = 0 THEN Weekdays[1] ELSE "nonsense"

ToUnixtime(date) ==
  IF \/ date.month > 12 \/ date.day \notin 1..31
     \/ date.hour >= 24 \/ date.minute >= 60 \/ date.second >= 61
  THEN Time(0, -1)
  ELSE IF date.month = 0 THEN Nonsense
  ELSE Time(DaysSinceEpoch(date) % WrapDays,
            date.hour * 3600 + date.minute * 60 + date.second - date.zone_offset * 60)

(* A number of days within a number of years. *)
Within(year, days) == [year |-> year, days |-> days]
Jan1_2000 == 10957
FourHundred == 365 * 400 + 97
IntoFourHundred(days) ==
  IF days < Jan1_2000 THEN Within(1600, days - Jan1_2000 + FourHundred)
  ELSE IF days >= Jan1_2000 + FourHundred
  THEN Within(2000 + ((days - Jan1_2000) \div FourHundred), (days - Jan1_2000) % FourHundred)
  ELSE Within(2000, days - Jan1_2000)
IntoHundred(p) ==
  IF p.days < 36525 THEN p
  ELSE LET n == 1 + ((p.days - 36525) \div 36524) IN
       Within(p.year + 100 * n, p.days - 36525 - (n - 1) * 36524)
(* Whether the first of the four years is a leap year, which it is not at *)
(* the beginning of most centuries. *)
IntoFour(p) == Within(p.year + (p.days \div 1461) * 4, p.days % 1461)
IntoYear(p, leap) ==
  IF leap /\ p.days < 366 THEN p
  ELSE IF leap THEN Within(p.year + 1 + ((p.days - 366) \div 365), (p.days - 1) % 365)
  ELSE Within(p.year + (p.days \div 365), p.days % 365)
InFour(p, leap) == [at |-> IntoYear(p, leap), leap |-> leap /\ p.days < 366]
InCentury(p, first) ==
  IF ~first /\ p.days >= 365 * 4
  THEN InFour(IntoFour(Within(p.year + 4, p.days - 365 * 4)), TRUE)
  ELSE InFour(IntoFour(p), first)
InEra(p) == InCentury(IntoHundred(p), p.days < 36525)
InYear(days) == InEra(IntoFourHundred(days))

InMonth(month, day) ==
  [NoDate EXCEPT !.month = month, !.day = day - MonthStarts[month] + 1]
DayAndMonth(leap, days) ==
  IF leap /\ days = 59 THEN [NoDate EXCEPT !.month = 2, !.day = 29]
  ELSE LET day == IF leap /\ days > 59 THEN days - 1 ELSE days
       IN InMonth(Cardinality({m \in 1..12: MonthStarts[m] <= day}), day)
DateAt(y, secs) ==
  [DayAndMonth(y.leap, y.at.days) EXCEPT
     !.year = y.at.year, !.hour = secs \div 3600, !.minute = (secs \div 60) % 60,
     !.second = secs % 60]
UnixtimeToDate(time) == DateAt(InYear(time.days % WrapDays), time.secs)

-----------------------------------------------------------------------------
(* Printing. *)
Two(v) == Num(2, v)
PrintRfc822(date) ==
  <<Word(DayOfWeek(date), 3), Sym(","), Blank(1), Two(date.day), Blank(1),
    Word(Months[date.month], 3), Blank(1), Num(4, date.year), Blank(1),
    Two(date.hour), Sym(":"), Two(date.minute), Sym(":"), Two(date.second), Blank(1),
    W("gmt")>>

(* The lengths of the names, which are written out in full. *)
MonthLengths == <<7, 8, 5, 5, 3, 4, 4, 6, 9, 7, 8, 8>>
WeekdayLengths == [sun |-> 6, mon |-> 6, tue |-> 7, wed |-> 9, thu |-> 8, fri |-> 6, sat |-> 8,
                   nonsense |-> 1]
(* The tables of months are indexed by the month, from 0 (month 12 is *)
(* beyond them), and its number is written with one added. *)
MonthAt(i) == IF i + 1 \in DOMAIN Months THEN Months[i + 1] ELSE "nonsense"
Twelve(hour) == hour % 12
Padded(v) == IF v < 10 THEN <<Blank(1), Num(1, v)>> ELSE <<Two(v)>>
Time24(date) == <<Two(date.hour), Sym(":"), Two(date.minute)>>
Converted(date, c) ==
  CASE c = "A" -> <<Word(DayOfWeek(date), WeekdayLengths[DayOfWeek(date)])>>
    [] c = "a" -> <<Word(DayOfWeek(date), 3)>>
    [] c = "B" -> <<Word(MonthAt(date.month),
                         IF date.month < 12 THEN MonthLengths[date.month + 1] ELSE 1)>>
    [] c \in {"b", "h"} -> <<Word(MonthAt(date.month), 3)>>
    [] c = "C" -> <<Two((date.year \div 100) % 100)>>
    [] c = "d" -> <<Two(date.day)>>
    [] c = "e" -> Padded(date.day)
    [] c = "F" -> <<Num(4, date.year), Sym("-"), Two(date.month + 1), Sym("-"), Two(date.day)>>
    [] c = "H" -> <<Two(date.hour)>>
    [] c = "I" -> <<Two(Twelve(date.hour))>>
    [] c = "j" -> <<Num(3, DayOfYear(date) + 1)>>
    [] c = "k" -> Padded(date.hour)
    [] c = "l" -> <<Two(IF Twelve(date.hour) = 0 THEN 12 ELSE Twelve(date.hour))>>
    [] c = "M" -> <<Two(date.minute)>>
    [] c = "m" -> <<Two(date.month + 1)>>
    [] c = "n" -> <<LF>>
    [] c = "p" -> <<W(IF date.hour >= 12 THEN "pm" ELSE "am")>>
    [] c = "R" -> Time24(date)
    [] c = "r" -> <<Two(Twelve(date.hour)), Sym(":"), Two(date.minute)>>
    [] c = "S" -> <<Two(date.second)>>
    [] c = "s" -> <<Token("time", "", 10, ToUnixtime(date))>>     \* ten digits until 2286
    [] c = "T" -> Time24(date) \o <<Sym(":"), Two(date.second)>>
    [] c = "t" -> <<Sym("\t")>>
    [] c = "Y" -> <<Num(4, date.year)>>
    [] c = "y" -> <<Two(date.year % 100)>>
    [] c = "%" -> <<Sym("%")>>
    [] OTHER -> <<>>

Octets(text) == FoldLeft(LAMBDA n, t: n + t.w, 0, text)
(* A format is a sequence of conversions, and of signs that stand for *)
(* themselves. room: what is left of max_out. *)
Strftime(date, format, max_out) ==
  FoldLeft(LAMBDA st, c:
             LET add == IF c.is = "sym" THEN <<c>> ELSE Converted(date, c.s)
                 fits == IF c.is = "sym" THEN st.room > 0
                         ELSE c.s \notin {"O", "E"} /\ (add = <<>> \/ Octets(add) < st.room)
             IN IF st.ok /\ fits THEN [ok |-> TRUE, out |-> st.out \o add, room |-> st.room - Octets(add)]
                ELSE [st EXCEPT !.ok = FALSE],
           [ok |-> max_out > 0, out |-> <<>>, room |-> max_out], format)
Printed(st) == [st EXCEPT !.ok = @ /\ st.room > 0]

LengthOf(c) ==
  CASE c \in {"A", "B"} -> 15 [] c \in {"a", "b", "h", "j"} -> 3 [] c = "F" -> 10
    [] c \in {"R", "r"} -> 5 [] c = "s" -> 13 [] c = "T" -> 8 [] c = "Y" -> 4
    [] c \in {"n", "t", "%"} -> 1
    [] c \in {"C", "d", "e", "H", "I", "k", "l", "M", "m", "p", "S", "y"} -> 2
    [] OTHER -> 0
MaxLengthOf(format) ==
  IF \E i \in DOMAIN format: format[i].is = "conversion" /\ format[i].s \in {"O", "E"} THEN 0
  ELSE FoldLeft(LAMBDA n, c: n + (IF c.is = "sym" THEN 1 ELSE LengthOf(c.s)), 0, format)

-----------------------------------------------------------------------------
(* Parameters: name=value; name="value"; name. A value is a text, or none. *)
Param(key, value) == [key |-> key, value |-> value]
Quote == Sym("\"")
Scanning(ok, kvs, rest) == [ok |-> ok, kvs |-> kvs, rest |-> rest]
WithoutSemicolon(text) == IF Begins(text, Sym(";")) THEN Tail(text) ELSE text
ScanQuoted(kvs, key, text) ==
  LET close == IndexOf(text, Quote) IN
  IF close = 0 THEN Scanning(FALSE, kvs, <<>>)
  ELSE Scanning(TRUE, Append(kvs, Param(key, <<Before(text, close)>>)),
                WithoutSemicolon(SkipSpace(From(text, close + 1))))
(* Whatever ended the value, a blank too, is skipped. *)
ScanBare(kvs, key, text, max) ==
  LET n == SelectInSeq(text, LAMBDA t: IsSpace(t) \/ t = Sym(";"))
      more == Append(kvs, Param(key, <<Before(text, n)>>))
  IN IF n = 0 \/ Len(more) = max THEN Scanning(TRUE, more, <<>>)
     ELSE Scanning(TRUE, more, SkipSpace(From(text, n + 1)))
ScanValue(kvs, key, value, max) ==
  IF Begins(value, Quote) THEN ScanQuoted(kvs, key, Tail(value))
  ELSE ScanBare(kvs, key, value, max)
ScanAfter(kvs, key, after, max) ==
  CASE key = <<>> -> Scanning(FALSE, kvs, <<>>)
    [] key # <<>> /\ Begins(after, Sym("=")) -> ScanValue(kvs, key, SkipSpace(Tail(after)), max)
    [] key # <<>> /\ (after = <<>> \/ Begins(after, Sym(";"))) ->
         Scanning(TRUE, Append(kvs, Param(key, <<>>)),
                  IF Len(kvs) + 1 = max THEN <<>> ELSE From(after, 2))
    [] OTHER -> Scanning(FALSE, kvs, <<>>)
ScanOne(kvs, text, max) ==
  LET n == Tokens(text) IN
  ScanAfter(kvs, SubSeq(text, 1, n), SkipSpace(From(text, n + 1)), max)
RECURSIVE ScanMore(_, _)
ScanMore(s, max) ==
  IF ~s.ok \/ SkipSpace(s.rest) = <<>> THEN s
  ELSE ScanMore(ScanOne(s.kvs, SkipSpace(s.rest), max), max)
KeyValuesScan(text, max) == ScanMore(Scanning(TRUE, <<>>, IF max = 0 THEN <<>> ELSE text), max)

(* A disposition: inline or not, and its name and file name. *)
MaxParams == 32
Disposition(inline, s) ==
  LET Value(key) == LET given == SelectSeq(s.kvs, LAMBDA kv: kv.key = <<key>>) IN
                    IF given = <<>> THEN <<>> ELSE given[Len(given)].value
  IN [ok |-> s.ok, inline |-> inline, name |-> Value(W("name")), filename |-> Value(W("filename"))]
DispositionOf(text, inline) ==
  Disposition(inline,
    KeyValuesScan(SkipSpace(WithoutSemicolon(SkipSpace(
      From(text, IF inline \/ Begins(text, W("attachment")) THEN 2 ELSE Tokens(text) + 1)))),
                  MaxParams))
ContentDisposition(line) ==
  LET text == SkipSpace(line) IN DispositionOf(text, Begins(text, W("inline")))

-----------------------------------------------------------------------------
(* URLs. A part that is not there is <<>>, one that is there <<text>>. *)
Schemes == {"http", "https", "ftp", "file"}
NoUrl == [ok |-> FALSE]
Upto(text, token) == Before(text, IndexOf(text, token))
After(text, token) ==
  IF IndexOf(text, token) = 0 THEN <<>> ELSE <<From(text, IndexOf(text, token) + 1)>>
ValidHostname(host) ==
  /\ host # <<>> /\ host[1].is \in {"word", "num"}
  /\ \A i \in DOMAIN host: IsToken(host[i]) \/ host[i] = Sym(".")
ValidComponent(text) == \A i \in DOMAIN text: ~IsSpace(text[i])

(* user:password@host:port, up to the first slash. *)
Authority(text) ==
  LET user == After(text, Sym("@"))
      hostport == IF user = <<>> THEN text ELSE user[1]
      named == Upto(text, Sym("@"))
      port == After(hostport, Sym(":"))
  IN [username |-> IF user = <<>> THEN <<>> ELSE <<Upto(named, Sym(":"))>>,
      password |-> IF user = <<>> THEN <<>> ELSE After(named, Sym(":")),
      host |-> <<Upto(hostport, Sym(":"))>>,
      port |-> IF port # <<>> /\ Is(port[1], "num") THEN port[1][1].v ELSE 0]
NoAuthority == [username |-> <<>>, password |-> <<>>, host |-> <<>>, port |-> 0]

(* A # in front of the first ? does not begin a fragment. *)
PathOf(text) ==
  LET query == IndexOf(text, Sym("?")) IN
  IF query = 0
  THEN [path |-> Upto(text, Sym("#")), query |-> <<>>, fragment |-> After(text, Sym("#"))]
  ELSE [path |-> Before(text, query), query |-> <<Upto(From(text, query + 1), Sym("#"))>>,
        fragment |-> After(From(text, query), Sym("#"))]

Url(scheme, authority, p) ==
  IF \/ \E i \in DOMAIN authority.host: ~ValidHostname(authority.host[i])
     \/ ~ValidComponent(p.path) \/ \E i \in DOMAIN p.query: ~ValidComponent(p.query[i])
  THEN NoUrl
  ELSE [ok |-> TRUE, scheme |-> scheme, username |-> authority.username,
        password |-> authority.password, host |-> authority.host, port |-> authority.port,
        path |-> p.path, query |-> p.query, fragment |-> p.fragment]
Slashes(text) == LET m == SelectInSeq(text, LAMBDA t: t # Sym("/")) IN
                 IF m = 0 THEN Len(text) ELSE m - 1
RemoteUrl(scheme, named, at) == Url(scheme, Authority(named), PathOf(From(at, Len(named) + 1)))
UrlAfter(scheme, rest, slashes) ==
  IF slashes = 2 /\ scheme # "file"
  THEN RemoteUrl(scheme, Upto(From(rest, 3), Sym("/")), From(rest, 3))
  ELSE Url(scheme, NoAuthority, PathOf(IF slashes = 0 THEN rest ELSE From(rest, slashes)))
SchemeOf(word) == IF word.s \in Schemes THEN word.s ELSE "unknown"
UrlScan(text) ==
  LET n == SelectInSeq(text, LAMBDA t: t.is \notin {"word", "num"})
      rest == From(text, n + 1)
  IN IF n < 2 \/ text[n] # Sym(":") THEN NoUrl
     ELSE UrlAfter(IF n = 2 THEN SchemeOf(text[1]) ELSE "unknown", rest, Slashes(rest))

(* dsk_url_scheme_parse, by itself, knows three schemes. *)
SchemeParse(text) ==
  IF Is(text, "word") /\ Begins(Tail(text), Sym(":")) /\ text[1].s \in Schemes \ {"file"}
  THEN <<text[1].s>> ELSE <<>>

-----------------------------------------------------------------------------
(* Templates (dsk-print.c). The variables are nested: defs are the *)
(* definitions in the order they were made, each with the older one of its *)
(* key (0: none); scopes, the newest last, has the definitions of each, the *)
(* newest first; and the tree finds the definition of a key. *)
NewPrint(keys) == [defs |-> <<>>, scopes |-> <<<<>>>>, tree |-> [k \in keys |-> 0]]
Top(context) == context.scopes[Len(context.scopes)]
AddVarDef(context, key, value) ==
  LET id == Len(context.defs) + 1 IN
  [defs |-> Append(context.defs, [key |-> key, value |-> value, older |-> context.tree[key]]),
   scopes |-> [context.scopes EXCEPT ![Len(context.scopes)] = <<id>> \o @],
   tree |-> [context.tree EXCEPT ![key] = id]]
SetFiltered(context, key, filtered) ==
  IF filtered = <<>> THEN context ELSE AddVarDef(context, key, filtered[1])
Push(context) == [context EXCEPT !.scopes = Append(@, <<>>)]
FreeVarDef(context, id) == [context EXCEPT !.tree[context.defs[id].key] = context.defs[id].older]
Pop(context) ==      \* the definitions of the top are the newest
  IF Len(context.scopes) = 1 THEN context
  ELSE [FoldLeft(FreeVarDef, context, Top(context))
          EXCEPT !.scopes = Front(@), !.defs = SubSeq(@, 1, Len(@) - Len(Top(context)))]

Printing(ok, out, rest) == [ok |-> ok, out |-> out, rest |-> rest]
IsIdent(t) == t.is \in {"word", "num"} \/ t = Sym("_")
Idents(text) == LET n == SelectInSeq(text, LAMBDA t: ~IsIdent(t)) IN
                IF n = 0 THEN Len(text) ELSE n - 1
VariableAt(context, key, rest) ==
  IF key \notin DOMAIN context.tree \/ context.tree[key] = 0 THEN Printing(FALSE, <<>>, rest)
  ELSE Printing(TRUE, context.defs[context.tree[key]].value, rest)
Braced(context, key, rest) ==
  IF key = <<>> \/ ~Begins(rest, Sym("}")) THEN Printing(FALSE, <<>>, rest)
  ELSE VariableAt(context, key, Tail(rest))
BracedAt(context, text) ==
  Braced(context, SubSeq(text, 1, Idents(text)), SkipSpace(From(text, Idents(text) + 1)))
HandleTemplateExpression(context, text) ==      \* after the dollar
  CASE Begins(text, Sym("{")) -> BracedAt(context, SkipSpace(Tail(text)))
    [] Idents(text) > 0 -> VariableAt(context, SubSeq(text, 1, Idents(text)), From(text, Idents(text) + 1))
    [] OTHER -> Printing(FALSE, <<>>, text)
AppendPart(p, part) == Printing(part.ok, p.out \o part.out, part.rest)
PrintPart(context, p, dollar) ==
  LET plain == p.out \o Before(p.rest, dollar) IN
  CASE dollar = 0 -> Printing(TRUE, plain, <<>>)
    [] dollar # 0 /\ Begins(From(p.rest, dollar + 1), Sym("$")) ->
         Printing(TRUE, Append(plain, Sym("$")), From(p.rest, dollar + 2))
    [] OTHER -> AppendPart(Printing(TRUE, plain, <<>>),
                           HandleTemplateExpression(context, From(p.rest, dollar + 1)))
RECURSIVE PrintMore(_, _)
PrintMore(context, p) ==
  IF ~p.ok \/ p.rest = <<>> THEN p ELSE PrintMore(context, PrintPart(context, p, IndexOf(p.rest, Sym("$"))))
PrintInternal(context, template) == PrintMore(context, Printing(TRUE, <<>>, template))
PrintTemplate(context, template) ==
  LET p == PrintInternal(context, template) IN IF p.ok THEN Append(p.out, LF) ELSE p.out
SetTemplateString(context, key, template) ==
  AddVarDef(context, key, PrintInternal(context, template).out)

-----------------------------------------------------------------------------
(* Command lines (dsk-cmdline.c). A mode has its options by name, their *)
(* short names, the sets that exclude each other and what else is allowed. *)
TakesArgument(kind, described) == kind \in {"int", "double", "string"} \/ described
AddOption(kind, flags, described) ==
  [kind |-> kind,
   flags |-> IF TakesArgument(kind, described) THEN flags \cup {"takes"}
             ELSE IF kind = "boolean" THEN flags \ {"takes"} ELSE {}]
AddShortcut(mode, letter, name) ==
  IF name \notin DOMAIN mode.options \/ letter \in DOMAIN mode.letters THEN mode
  ELSE [mode EXCEPT !.letters = (letter :> name) @@ @]
MutuallyExclusive(mode, required, names) ==
  [mode EXCEPT !.exclusive = Append(@, [required |-> required, names |-> names])]

(* The handlers: what they store, if they do. Of a double the conversion to *)
(* an int is stored, in its first octets; of what only begins like a truth *)
(* value, that it is true. *)
Handled(ok, v) == [ok |-> ok, v |-> v]
Truth(b) == <<W(IF b THEN "true" ELSE "false")>>
HandleNumber(text, v) == Handled(Len(text) = 1 /\ Is(text, "num"), v)
ParseBoolean(text) ==
  IF text \in {<<W(s)>>: s \in {"yes", "true"}} \cup {<<Num(1, 1)>>} THEN Handled(TRUE, TRUE)
  ELSE IF text \in {<<W(s)>>: s \in {"no", "false"}} \cup {<<Num(1, 0)>>} THEN Handled(TRUE, FALSE)
  ELSE Handled(\/ Is(text, "word") /\ SubSeq(text[1].s, 1, 1) \in {"n", "y", "f", "t"}
               \/ Is(text, "num") /\ FirstDigits(text, 1) \in {0, 1}, TRUE)
HandleBoolean(flags, arg) ==
  LET parsed == IF arg = <<>> THEN Handled(TRUE, TRUE) ELSE ParseBoolean(arg[1]) IN
  Handled(parsed.ok, Truth(IF "reversed" \in flags THEN ~parsed.v ELSE parsed.v))
Handle(option, arg) ==
  CASE option.kind = "int" -> HandleNumber(arg[1], arg[1])
    [] option.kind = "double" -> HandleNumber(arg[1], <<Token("octets", "", 4, 0)>>)
    [] option.kind = "boolean" -> HandleBoolean(option.flags, arg)
    [] option.kind = "string" -> Handled(TRUE, arg[1])
    [] option.kind = "func" -> Handled(TRUE, IF arg = <<>> THEN Truth(TRUE) ELSE arg[1])

(* The words of the command line are taken out of it where they are used, *)
(* or the index is moved past them. *)
SkipOrSwallow(mode, s, n) ==
  IF mode.swallow THEN [s EXCEPT !.argv = SubSeq(@, 1, s.at - 1) \o From(@, s.at + n)]
  ELSE [s EXCEPT !.at = @ + n]
End(s, how) == [s EXCEPT !.end = how]
Use(mode, s, name, arg, n) ==
  LET h == Handle(mode.options[name], arg) IN
  IF ~h.ok THEN End(s, "error")
  ELSE SkipOrSwallow(mode, [s EXCEPT !.values[name] = <<h.v>>, !.used = @ \cup {name}], n)
UseNext(mode, s, name) ==
  IF s.at = Len(s.argv) THEN End(s, "error") ELSE Use(mode, s, name, <<s.argv[s.at + 1]>>, 2)
LongOption(mode, s, name, arg) ==
  LET flags == mode.options[name].flags IN
  CASE arg = <<>> /\ "takes" \in flags /\ "optional" \notin flags -> UseNext(mode, s, name)
    [] arg # <<>> /\ "takes" \notin flags -> End(s, "error")
    [] OTHER -> Use(mode, s, name, arg, 1)
TryLongOption(mode, s, opt) ==
  CASE Upto(opt, Sym("=")) \in DOMAIN mode.options ->
         LongOption(mode, s, Upto(opt, Sym("=")), After(opt, Sym("=")))
    [] Upto(opt, Sym("=")) \notin DOMAIN mode.options /\ mode.unknown -> [s EXCEPT !.at = @ + 1]
    [] OTHER -> End(s, "error")
CeaseProcessing(mode, s) == IF mode.extra THEN End(SkipOrSwallow(mode, s, 1), "ceased") ELSE End(s, "error")
ShortOption(mode, s, name) ==
  IF "takes" \in mode.options[name].flags THEN UseNext(mode, s, name) ELSE Use(mode, s, name, <<>>, 1)
UseInGroup(mode, s, letter) == IF s.end = "" THEN Use(mode, s, mode.letters[letter], <<>>, 0) ELSE s
ShortOptions(mode, s, letters) ==
  IF "takes" \in UNION {mode.options[mode.letters[l]].flags: l \in ToSet(letters)} THEN End(s, "error")
  ELSE LET used == FoldLeft(LAMBDA t, l: UseInGroup(mode, t, l), s, letters) IN
       IF used.end = "" THEN SkipOrSwallow(mode, used, 1) ELSE used
TryShort(mode, s, letters) ==
  CASE ToSet(letters) \subseteq DOMAIN mode.letters /\ Len(letters) = 1 ->
         ShortOption(mode, s, mode.letters[letters[1]])
    [] ToSet(letters) \subseteq DOMAIN mode.letters /\ Len(letters) > 1 -> ShortOptions(mode, s, letters)
    [] OTHER -> End(s, "error")
Argument(mode, s, arg) ==
  CASE mode.handler -> SkipOrSwallow(mode, [s EXCEPT !.handed = Append(@, arg)], 1)
    [] ~mode.handler /\ mode.extra -> [s EXCEPT !.at = @ + 1]
    [] OTHER -> End(s, "error")
ProcessOne(mode, s, arg) ==
  CASE ~Begins(arg, Sym("-")) -> Argument(mode, s, arg)
    [] arg = <<Sym("-")>> -> CeaseProcessing(mode, s)
    [] Begins(arg, Sym("-")) /\ Begins(Tail(arg), Sym("-")) -> TryLongOption(mode, s, From(arg, 3))
    [] OTHER -> TryShort(mode, s, Tail(arg))
RECURSIVE ProcessMore(_, _)
ProcessMore(mode, s) ==
  IF s.end # "" \/ s.at > Len(s.argv) THEN s ELSE ProcessMore(mode, ProcessOne(mode, s, s.argv[s.at]))
CheckMandatory(mode, used) ==
  \A name \in DOMAIN mode.options: "mandatory" \in mode.options[name].flags => name \in used
CheckMutuallyExclusive(mode, used) ==
  \A i \in DOMAIN mode.exclusive:
    LET n == Cardinality(mode.exclusive[i].names \cap used) IN
    n <= 1 /\ (mode.exclusive[i].required => n = 1)
Checked(mode, s) ==
  IF s.end # "error" /\ CheckMandatory(mode, s.used) /\ CheckMutuallyExclusive(mode, s.used)
  THEN End(s, "ok") ELSE End(s, "error")
TryProcessArgs(mode, argv) ==
  Checked(mode, ProcessMore(mode,
    [at |-> 1, argv |-> argv, values |-> [name \in DOMAIN mode.options |-> <<>>], used |-> {},
     handed |-> <<>>, end |-> ""]))

================================================================================
