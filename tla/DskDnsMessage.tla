----------------------------- MODULE DskDnsMessage -----------------------------
(***************************************************************************)
(* DNS messages and their octets (dsk-dns-protocol.c). A name is a sequence *)
(* of labels; label n has n letters. What takes several octets stands at    *)
(* the first of them and is followed by Fill. Offsets count from 0.         *)
(***************************************************************************)
EXTENDS Naturals, Sequences, SequencesExt, FiniteSetsExt

CONSTANTS MaxPieces,    \* MAX_PIECES
          LabelOrder    \* the labels in alphabetical order

Fill == [is |-> "fill"]
Octets(item, n) == <<item>> \o [i \in 1..n - 1 |-> Fill]
Cell(is, v) == [is |-> is, v |-> v]
At(data, offset) == data[offset + 1]

(* The data of a record: names, strings (<<n>> is one of n characters), and *)
(* blocks of octets. *)
Field(is, size) == [is |-> is, size |-> size]
N == Field("name", 0)
S == Field("string", 0)
B(size) == Field("block", size)
Fields ==
  [HOST_ADDRESS |-> <<B(4)>>, HOST_ADDRESS_IPV6 |-> <<B(16)>>,
   NAME_SERVER |-> <<N>>, CANONICAL_NAME |-> <<N>>, POINTER |-> <<N>>,
   HOST_INFO |-> <<S, S>>, MAIL_EXCHANGE |-> <<B(2), N>>,
   START_OF_AUTHORITY |-> <<N, N, B(20)>>, TEXT |-> <<S>>]

(* What gather_name_length_resource_record takes the data to be: a text for *)
(* two strings, and behind each "b" of a mail exchange the case falls *)
(* through to four octets more. *)
Gathered ==
  [Fields EXCEPT !.HOST_ADDRESS_IPV6 = <<B(4), B(4), B(4), B(4)>>, !.TEXT = <<S, S>>,
                 !.MAIL_EXCHANGE = <<B(5), B(5), N>>,
                 !.START_OF_AUTHORITY = <<N, N, B(4), B(4), B(4), B(4), B(4)>>]

Records(message) == message.answer \o message.authority \o message.additional
ValidRcode(rcode) == rcode <= 10
ValidOpcode(opcode) == opcode <= 5

-----------------------------------------------------------------------------
(* dsk_dns_message_parse. The first pass looks at every length; Bad if one *)
(* leads beyond the end. Names are followed with no limit but on their *)
(* labels: a pointer to itself is followed for ever. *)
Bad == 0

RECURSIVE AfterName(_, _)
AfterName(data, at) ==
  CASE At(data, at).is = "label" -> AfterName(data, at + At(data, at).v + 1)
    [] At(data, at).is = "pointer" -> at + 2
    [] OTHER -> at + 1

RECURSIVE NameIsWhole(_, _, _)
NameIsWhole(data, at, pieces) ==
  /\ at < Len(data)
  /\ CASE At(data, at).is = "label" ->
            /\ pieces < MaxPieces
            /\ at + At(data, at).v + 1 <= Len(data)
            /\ NameIsWhole(data, at + At(data, at).v + 1, pieces + 1)
       [] At(data, at).is = "pointer" ->
            /\ at + 1 < Len(data)
            /\ At(data, at).v < Len(data)
            /\ NameIsWhole(data, At(data, at).v, pieces)
       [] OTHER -> At(data, at).is = "end"
GatherName(data, at) == IF NameIsWhole(data, at, 0) THEN AfterName(data, at) ELSE Bad

Within(data, at, n) == IF at + n > Len(data) THEN Bad ELSE at + n
GatherField(data, at, field) ==
  CASE at = Bad -> Bad
    [] at # Bad /\ field.is = "name" -> GatherName(data, at)
    [] at # Bad /\ field.is = "block" -> Within(data, at, field.size)
    [] OTHER -> IF at = Len(data) THEN Bad
                ELSE Within(data, at, 1 + (IF At(data, at).is = "string" THEN At(data, at).v[1] ELSE 0))

GatheredData(data, at, head) ==
  IF head.v.type \notin DOMAIN Gathered \/ at + head.v.rdlength > Len(data) THEN Bad
  ELSE IF FoldLeft(LAMBDA a, field: GatherField(data, a, field), at, Gathered[head.v.type])
            = at + head.v.rdlength
       THEN at + head.v.rdlength ELSE Bad
GatherHead(data, at) ==
  IF at = Bad \/ at + 10 > Len(data) THEN Bad
  ELSE GatheredData(data, at + 10, At(data, at))
GatherRecord(data, at) == IF at = Bad THEN Bad ELSE GatherHead(data, GatherName(data, at))
(* That a question is whole is looked at only when it is parsed. *)
GatherQuestion(data, at) ==
  IF at = Bad \/ GatherName(data, at) = Bad THEN Bad ELSE GatherName(data, at) + 4

Times(n) == [i \in 1..n |-> i]
Gather(data, head) ==
  FoldLeft(LAMBDA at, i: GatherRecord(data, at),
           FoldLeft(LAMBDA at, i: GatherQuestion(data, at), 12, Times(head.n_questions)),
           Times(head.n_answer + head.n_authority + head.n_additional))

(* The second pass. *)
RECURSIVE ParseName(_, _)
ParseName(data, at) ==
  CASE At(data, at).is = "label" ->
         <<At(data, at).v>> \o ParseName(data, at + At(data, at).v + 1)
    [] At(data, at).is = "pointer" -> ParseName(data, At(data, at).v)
    [] OTHER -> <<>>

(* Read so far, and where to go on. *)
Got(at, all) == [at |-> at, all |-> all]
ParseField(data, got, field) ==
  CASE field.is = "name" ->
         Got(AfterName(data, got.at), Append(got.all, ParseName(data, got.at)))
    [] field.is = "block" -> Got(got.at + field.size, Append(got.all, At(data, got.at).v))
    [] OTHER -> Got(got.at + 1 + At(data, got.at).v[1], Append(got.all, At(data, got.at).v))

RecordOf(owner, head, got, all) ==
  Got(got.at, Append(all, [owner |-> owner, type |-> head.type, time_to_live |-> head.time_to_live,
                           rdata |-> got.all]))
ParseRecordAt(data, at, owner, all) ==
  RecordOf(owner, At(data, at).v,
           FoldLeft(LAMBDA got, field: ParseField(data, got, field), Got(at + 10, <<>>),
                    Fields[At(data, at).v.type]), all)
ParseRecord(data, got) ==
  ParseRecordAt(data, AfterName(data, got.at), ParseName(data, got.at), got.all)

QuestionIsWhole(data, at) == at # Bad /\ at + 4 <= Len(data)
ParseQuestion(data, got) ==
  IF ~QuestionIsWhole(data, IF got.at = Bad THEN Bad ELSE AfterName(data, got.at))
  THEN Got(Bad, got.all)
  ELSE Got(AfterName(data, got.at) + 4,
           Append(got.all, [name |-> ParseName(data, got.at),
                            query_type |-> At(data, AfterName(data, got.at)).v]))

Error == [id |-> "error"]
MessageOf(head, questions, rrs) ==
  [id |-> head.id, flags |-> head.flags, opcode |-> head.opcode, rcode |-> head.rcode,
   questions |-> questions,
   answer |-> SubSeq(rrs, 1, head.n_answer),
   authority |-> SubSeq(rrs, head.n_answer + 1, head.n_answer + head.n_authority),
   additional |-> SubSeq(rrs, head.n_answer + head.n_authority + 1, Len(rrs))]
ParsedRecords(data, head, questions) ==
  IF questions.at = Bad THEN Error
  ELSE MessageOf(head, questions.all,
                 FoldLeft(LAMBDA got, i: ParseRecord(data, got), Got(questions.at, <<>>),
                          Times(head.n_answer + head.n_authority + head.n_additional)).all)
ParsedMessage(data, head) ==
  IF ~ValidRcode(head.rcode) \/ ~ValidOpcode(head.opcode) \/ Gather(data, head) = Bad THEN Error
  ELSE ParsedRecords(data, head,
                     FoldLeft(LAMBDA got, i: ParseQuestion(data, got), Got(12, <<>>),
                              Times(head.n_questions)))
MessageParse(data) == IF Len(data) < 12 THEN Error ELSE ParsedMessage(data, At(data, 0).v)

-----------------------------------------------------------------------------
(* dsk_dns_message_serialize. The tree of labels has a node for each end of *)
(* a name; nodes is in the order they were made, offsets says where those *)
(* ends have been written, 0 if not yet. *)
Ends(name) == {SubSeq(name, i, Len(name)): i \in DOMAIN name}
LongestFirst(name) == [i \in DOMAIN name |-> SubSeq(name, i, Len(name))]

NamesOfRecord(rr) ==
  <<rr.owner>> \o SelectSeq([i \in DOMAIN rr.rdata |->
                               IF Fields[rr.type][i].is = "name" THEN rr.rdata[i] ELSE <<0>>],
                            LAMBDA name: name # <<0>>)
Names(message) ==
  FlattenSeq([i \in DOMAIN message.questions |-> <<message.questions[i].name>>]
               \o [i \in DOMAIN Records(message) |-> NamesOfRecord(Records(message)[i])])

(* get_max_str_nodes counts the dots of the names, and of an SOA record *)
(* only those of the first. *)
Dots(name) == IF name = <<>> THEN 0 ELSE Len(name) - 1
CountedNames(rr) == SelectSeq(SubSeq(NamesOfRecord(rr) \o <<<<>>>>, 1, 2), LAMBDA name: name # <<>>)
SumOf(seq) == FoldLeft(LAMBDA a, b: a + b, 0, seq)
MaxStrNodes(message) ==
  1 + SumOf([i \in DOMAIN message.questions |-> Dots(message.questions[i].name)])
    + SumOf([i \in DOMAIN Records(message) |->
               SumOf([j \in DOMAIN CountedNames(Records(message)[i]) |->
                        Dots(CountedNames(Records(message)[i])[j])])])

(* get_name_size: the ends of a name that are new are written, the others *)
(* pointed to. *)
NewEnds(nodes, name) == SelectSeq(Reverse(LongestFirst(name)), LAMBDA e: ~Contains(nodes, e))
NameSize(nodes, name) ==
  SumOf([i \in DOMAIN NewEnds(nodes, name) |-> NewEnds(nodes, name)[i][1] + 1])
    + (IF name # <<>> /\ Contains(nodes, <<Last(name)>>) THEN 2 ELSE 1)
Measured(sum, name) ==
  [nodes |-> sum.nodes \o NewEnds(sum.nodes, name), size |-> sum.size + NameSize(sum.nodes, name)]
FixedSize(rr) ==
  10 + CASE rr.type = "HOST_INFO" -> 4
         [] rr.type = "TEXT" -> rr.rdata[1][1] + 1
         [] OTHER -> SumOf([i \in DOMAIN Fields[rr.type] |-> Fields[rr.type][i].size])
MessageSize(message) ==
  FoldLeft(Measured,
           [nodes |-> <<>>,
            size |-> 12 + 4 * Len(message.questions)
                       + SumOf([i \in DOMAIN Records(message) |-> FixedSize(Records(message)[i])])],
           Names(message))

(* pack_domain_name. The pointer leads to the top of the (balanced) tree in *)
(* which the first label that was known is, instead of to its node: to the *)
(* first one made there, or once there are three to the middle one. *)
Siblings(nodes, end) == SelectSeq(nodes, LAMBDA e: Tail(e) = Tail(end))
Rank(label) == CHOOSE i \in DOMAIN LabelOrder: LabelOrder[i] = label
Middle(ends) ==
  CHOOSE e \in ToSet(ends): Cardinality({f \in ToSet(ends): Rank(f[1]) < Rank(e[1])}) = 1
Top(siblings) ==
  IF Len(siblings) < 3 THEN siblings[1] ELSE Middle(SubSeq(siblings, 1, 3))

Known(packed, name) == {e \in Ends(name): packed.offsets[e] # 0}
LabelsTo(name, from) ==
  FlattenSeq([i \in 1..Len(name) - from |-> Octets(Cell("label", name[i]), name[i] + 1)])
NameEnd(packed, nodes, up) ==
  IF up = <<>> THEN <<Cell("end", 0)>>
  ELSE Octets(Cell("pointer", packed.offsets[Top(Siblings(nodes, up))]), 2)
OffsetOf(packed, name, end) ==
  Len(packed.data) + SumOf([i \in 1..Len(name) - Len(end) |-> name[i] + 1])
PackedName(packed, nodes, name, up) ==
  [data |-> packed.data \o LabelsTo(name, Len(up)) \o NameEnd(packed, nodes, up),
   offsets |-> [e \in DOMAIN packed.offsets |->
                  IF e \in Ends(name) /\ Len(e) > Len(up) THEN OffsetOf(packed, name, e)
                  ELSE packed.offsets[e]]]
LongestOf(ends) ==
  IF ends = {} THEN <<>> ELSE CHOOSE e \in ends: \A f \in ends: Len(f) <= Len(e)
PackName(packed, nodes, name) ==
  PackedName(packed, nodes, name, LongestOf(Known(packed, name)))

WithOctets(packed, item, n) == [packed EXCEPT !.data = @ \o Octets(item, n)]
PackQuestion(packed, nodes, question) ==
  WithOctets(PackName(packed, nodes, question.name), Cell("question", question.query_type), 4)
PackField(packed, nodes, field, v) ==
  CASE field.is = "name" -> PackName(packed, nodes, v)
    [] field.is = "block" -> WithOctets(packed, Cell("block", v), field.size)
    [] OTHER -> WithOctets(packed, Cell("string", v), v[1] + 1)
PackData(packed, nodes, rr) ==
  FoldLeft(LAMBDA p, i: PackField(p, nodes, Fields[rr.type][i], rr.rdata[i]), packed,
           [i \in DOMAIN rr.rdata |-> i])
(* The length of the data is counted from the start of what precedes it. *)
HeadAt(packed, head, rr) ==
  [packed EXCEPT !.data[head + 1] =
     Cell("record", [type |-> rr.type, time_to_live |-> rr.time_to_live,
                     rdlength |-> Len(packed.data) - head])]
PackedRecord(named, nodes, rr) ==
  HeadAt(PackData(WithOctets(named, Fill, 10), nodes, rr), Len(named.data), rr)
PackRecord(packed, nodes, rr) == PackedRecord(PackName(packed, nodes, rr.owner), nodes, rr)

HeaderOf(message) ==
  Cell("header", [id |-> message.id, flags |-> message.flags \ {"truncated"},
                  opcode |-> message.opcode, rcode |-> message.rcode,
                  n_questions |-> Len(message.questions), n_answer |-> Len(message.answer),
                  n_authority |-> Len(message.authority), n_additional |-> Len(message.additional)])
Packed(message, nodes) ==
  FoldLeft(LAMBDA p, rr: PackRecord(p, nodes, rr),
           FoldLeft(LAMBDA p, q: PackQuestion(p, nodes, q),
                    [data |-> Octets(HeaderOf(message), 12), offsets |-> [e \in ToSet(nodes) |-> 0]],
                    message.questions),
           Records(message))

(* "none" where a message is refused, "abort" where an assertion fails. *)
Checked(measure, message, packed) ==
  IF Len(measure.nodes) > MaxStrNodes(message) \/ Len(packed.data) # measure.size
  THEN <<Cell("abort", 0)>> ELSE packed.data
Serialized(message, measure) == Checked(measure, message, Packed(message, measure.nodes))
MessageSerialize(message) ==
  IF ~ValidRcode(message.rcode) \/ ~ValidOpcode(message.opcode) THEN <<Cell("none", 0)>>
  ELSE Serialized(message, MessageSize(message))

-----------------------------------------------------------------------------
(* A message is written, by the library or by another program, perhaps cut *)
(* short, and read by the library. *)

CONSTANT Careful        \* leave out what the code gets wrong

VARIABLES message,      \* what is written
          writer,       \* who writes it
          packet,       \* its octets
          read          \* what is read from them

vars == <<message, writer, packet, read>>

Nothing == <<>>
Labels == ToSet(LabelOrder)
NamesUpTo(n) == UNION {[1..i -> Labels]: i \in 0..n}

Rr(owner, type, rdata) == [owner |-> owner, type |-> type, time_to_live |-> 7, rdata |-> rdata]
Rdatas(type, names) ==
  {d \in [1..Len(Fields[type]) -> names \cup {<<1>>}]:
     \A i \in DOMAIN d: d[i] \in (IF Fields[type][i].is = "name" THEN names ELSE {<<1>>})}
Rrs(names) == UNION {{Rr(o, type, d): o \in names, d \in Rdatas(type, names)}: type \in DOMAIN Fields}

Message(questions, answer, authority, additional) ==
  [id |-> 1, flags |-> {"query", "rd"}, opcode |-> 0, rcode |-> 0,
   questions |-> [i \in DOMAIN questions |-> [name |-> questions[i], query_type |-> 1]],
   answer |-> answer, authority |-> authority, additional |-> additional]
Host == Rr(<<1, 2>>, "HOST_ADDRESS", <<<<1>>>>)
Alias == Rr(<<2>>, "CANONICAL_NAME", <<<<1, 2>>>>)
Messages ==
  {Message(<<q>>, <<r>>, <<>>, <<>>): q \in NamesUpTo(1), r \in Rrs(NamesUpTo(2))}
    \cup {Message(<<q>>, <<r, Host>>, <<>>, <<Alias>>): q \in {<<1>>}, r \in Rrs({<<2>>, <<2, 2>>})}
    \cup {Message(q, <<>>, <<>>, <<>>): q \in UNION {[1..i -> NamesUpTo(2)]: i \in 0..3}}
    \cup {Message(<<q>>, <<>>, <<Alias>>, <<>>): q \in NamesUpTo(3)}
    \cup {[Message(<<<<1>>>>, <<>>, <<Alias>>, <<Host>>) EXCEPT !.flags = f]:
             f \in SUBSET {"query", "truncated", "rd", "ra", "authoritative"}}
    \cup {[Message(<<<<2>>>>, <<>>, <<>>, <<>>) EXCEPT !.opcode = o, !.rcode = r]: o \in {5, 6}, r \in {10, 11}}

(* Another program's way of writing: every end of a name that was written *)
(* before may be pointed to, or none. *)
Whole(name) == FlattenSeq([i \in DOMAIN name |-> Octets(Cell("label", name[i]), name[i] + 1)])
RECURSIVE Shortened(_, _)
Shortened(packed, name) ==
  CASE name = <<>> -> [packed EXCEPT !.data = @ \o <<Cell("end", 0)>>]
    [] \E o \in packed.seen: o[1] = name ->
         [packed EXCEPT !.data = @ \o Octets(Cell("pointer",
                                       (CHOOSE o \in packed.seen: o[1] = name)[2]), 2)]
    [] OTHER ->
         Shortened([data |-> packed.data \o Octets(Cell("label", name[1]), name[1] + 1),
                    seen |-> packed.seen \cup {<<name, Len(packed.data)>>}], Tail(name))
PutName(packed, name, compress) ==
  IF compress THEN Shortened(packed, name)
  ELSE [packed EXCEPT !.data = @ \o Whole(name) \o <<Cell("end", 0)>>]
PutField(packed, field, v, compress) ==
  CASE field.is = "name" -> PutName(packed, v, compress)
    [] field.is = "block" -> WithOctets(packed, Cell("block", v), field.size)
    [] OTHER -> WithOctets(packed, Cell("string", v), v[1] + 1)
PutData(packed, rr, compress) ==
  FoldLeft(LAMBDA p, i: PutField(p, Fields[rr.type][i], rr.rdata[i], compress), packed,
           [i \in DOMAIN rr.rdata |-> i])
Measure(packed, start, rr) ==
  [packed EXCEPT !.data[start - 9] =
     Cell("record", [type |-> rr.type, time_to_live |-> rr.time_to_live,
                     rdlength |-> Len(packed.data) - start])]
PutHead(named, rr, compress) ==
  Measure(PutData(WithOctets(named, Fill, 10), rr, compress), Len(named.data) + 10, rr)
PutRecord(packed, rr, compress) == PutHead(PutName(packed, rr.owner, compress), rr, compress)
PutQuestion(packed, q, compress) ==
  WithOctets(PutName(packed, q.name, compress), Cell("question", q.query_type), 4)
HeaderWith(m) == [HeaderOf(m) EXCEPT !.v.flags = m.flags]
Encoded(m, compress) ==
  FoldLeft(LAMBDA p, rr: PutRecord(p, rr, compress),
           FoldLeft(LAMBDA p, q: PutQuestion(p, q, compress),
                    [data |-> Octets(HeaderWith(m), 12), seen |-> {}], m.questions),
           Records(m)).data

(* Two names with different labels before the same rest: the pointer to one *)
(* may lead to the other, or the tree runs out of nodes. Records are *)
(* written with a length that is wrong. *)
Lone(m) ==
  /\ Records(m) = <<>>
  /\ \A e \in ToSet(MessageSize(m).nodes): Siblings(MessageSize(m).nodes, e) = <<e>>
(* Text and mail exchange records are refused or worse. *)
Readable(m) == \A i \in DOMAIN Records(m): Records(m)[i].type \notin {"TEXT", "MAIL_EXCHANGE"}

Init == message \in Messages /\ writer = "none" /\ packet = Nothing /\ read = Nothing

WriteByLibrary ==
  /\ writer = "none"
  /\ Careful => Lone(message)
  /\ writer' = "library" /\ packet' = MessageSerialize(message)
  /\ UNCHANGED <<message, read>>

WriteByOther(compress) ==
  /\ writer = "none"
  /\ Careful => Readable(message)
  /\ writer' = "other" /\ packet' = Encoded(message, compress)
  /\ UNCHANGED <<message, read>>

(* A question cut in its last octets is read beyond the end if records were *)
(* to follow. *)
InQuestion(m, n) ==
  Records(m) # <<>> /\ n < Len(Encoded([m EXCEPT !.answer = <<>>, !.authority = <<>>,
                                                 !.additional = <<>>], TRUE))
CutShort(n) ==
  /\ writer = "other" /\ read = Nothing /\ n < Len(packet) /\ Len(Records(message)) > 1
  /\ Careful => ~InQuestion(message, n)
  /\ packet' = SubSeq(packet, 1, n) /\ writer' = "cut"
  /\ UNCHANGED <<message, read>>

Read ==
  /\ writer # "none" /\ read = Nothing /\ packet[1].is = "header"
  /\ read' = <<MessageParse(packet)>>
  /\ UNCHANGED <<message, writer, packet>>

Next == \/ WriteByLibrary \/ Read
        \/ \E compress \in BOOLEAN: WriteByOther(compress)
        \/ \E n \in 1..60: CutShort(n)

Spec == Init /\ [][Next]_vars

Accepted(m) ==
  /\ ValidRcode(m.rcode) /\ ValidOpcode(m.opcode)
  /\ \A i \in DOMAIN Names(m): Len(Names(m)[i]) <= MaxPieces

(* What is written is read as it was meant, by whomever it was written; what *)
(* was cut short, or has names of too many labels, is refused. *)
RoundTrips ==
  /\ writer = "library" =>
       (packet[1].is = "header" <=> ValidRcode(message.rcode) /\ ValidOpcode(message.opcode))
  /\ packet # Nothing => packet[1].is # "abort"
  /\ read # Nothing =>
       read[1] = IF writer # "cut" /\ Accepted(message)
                 THEN IF writer = "library" THEN [message EXCEPT !.flags = @ \ {"truncated"}] ELSE message
                 ELSE Error

===============================================================================
