------------------------------ MODULE MCDskLibrary ------------------------------
(***************************************************************************)
(* The parts that work by themselves, between a call and its return:        *)
(* red-black trees, linked lists and sorts, buffers, octet filters,         *)
(* checksums and multipart messages, JSON, XML, the files of tables,        *)
(* patterns, DNS messages, dates, URLs, the headers of HTTP messages,       *)
(* templates and command lines, and the compiler. A behaviour is about one; *)
(* the others stay as they were made.                                       *)
(***************************************************************************)
EXTENDS Naturals, Sequences

CONSTANTS Nodes, Links,
          Buffers, Frags, Foreign, Null, ChunkSize, MaxRecycled, MaxIovecs,
          Bytes, Unset, NUL, MaxBytes,
          FilterChunkSize, Base64LineLength, HexLineLength, QpLineLength, MaxSpaces,
          DoubledByte, BlockSize, WordBits, MaxLength,
          INDENT, PieceLength,
          Broken, MaxEntries, MaxValue,
          MaxTyped,
          MaxPieces,
          MaxDepth, MaxEntityRef,
          SortThreshold, MaxItems, MaxTurns,
          ByteBits, MaxOperators, MaxMembers,
          InitMiscHeaders,
          Careful

ASSUME BufferAssumption ==
  /\ Frags \subseteq Nat /\ Null \notin Frags \cup Foreign
  /\ {ChunkSize, MaxIovecs} \subseteq Nat \ {0} /\ MaxRecycled \in Nat
  /\ NUL \in Bytes /\ Unset \notin Bytes
ASSUME LineAssumption ==
  /\ {Base64LineLength \div 4, HexLineLength \div 6, MaxSpaces, FilterChunkSize}
       \subseteq Nat \ {0}
  /\ QpLineLength \in Nat /\ QpLineLength > 3
  /\ WordBits \in Nat /\ BlockSize > WordBits \div 4
ASSUME BoundAssumption == {INDENT, MaxBytes, MaxLength, MaxEntries, MaxValue,
                            MaxTyped, MaxPieces,
                            MaxDepth, MaxEntityRef,
                            SortThreshold, MaxItems, MaxTurns,
                            ByteBits, MaxOperators, MaxMembers,
                            InitMiscHeaders} \subseteq Nat

VARIABLES part,
          tree, held, key, counted,             \* MCDskRbtree
          heap, got, place,                     \* DskBuffer
          subject, source, doc, fed, m,         \* MCDskFilters
          value, text, sent, parser,            \* DskJson
          entries, file, mode, reader, from,    \* DskTableFile
          meant, automaton, states, typed,      \* DskPattern
          message, writer, packet, read,        \* DskDnsMessage
          xml, style, paths, unsent, lexer,     \* DskXml
          kind, chain, order,                   \* DskLists
          asked, expr, meaning,                 \* MCDbcc
          topic, said, written, heard           \* MCDskText

SomeTexts == {<<1>>, <<1, 0, 1>>}

Tree == INSTANCE MCDskRbtree
Buf == INSTANCE DskBuffer WITH Texts <- SomeTexts, NULL <- Null
Filters == INSTANCE MCDskFilters WITH ChunkSize <- FilterChunkSize
Json == INSTANCE DskJson WITH doc <- text
File == INSTANCE DskTableFile
Pattern == INSTANCE DskPattern
Dns == INSTANCE DskDnsMessage WITH LabelOrder <- <<1, 2>>
Xml == INSTANCE DskXml
Lists == INSTANCE DskLists WITH NULL <- Null
Compiler == INSTANCE MCDbcc
Texts == INSTANCE MCDskText

(* One that stays: its variables and the state they stay in.                *)
Idle == "idle"
NoTree == /\ tree = Tree!EmptyTree /\ held = {} /\ key = [n \in Nodes |-> 0]
          /\ counted = FALSE
NoBuffers == heap = Buf!EmptyHeap /\ got = <<>> /\ place = Null
NoFilters == subject = Idle /\ source = Idle /\ doc = Idle /\ fed = Idle /\ m = Idle
NoFile == File!Init
NoPatterns == meant = Idle /\ automaton = Idle /\ states = Idle /\ typed = Idle
NoPackets == message = Idle /\ writer = Idle /\ packet = Idle /\ read = Idle
NoJson == value = Idle /\ text = Idle /\ sent = Idle /\ parser = Idle
NoXmls == xml = Idle /\ style = Idle /\ paths = Idle /\ unsent = Idle /\ lexer = Idle
NoLists == kind = Idle /\ chain = Idle /\ order = Idle
NoCompilers == asked = Idle /\ expr = Idle /\ meaning = Idle
NoTexts == topic = Idle /\ said = Idle /\ written = Idle /\ heard = Idle

trees == <<tree, held, key, counted>>
buffers == <<heap, got, place>>
filters == <<subject, source, doc, fed, m>>
jsons == <<value, text, sent, parser>>
files == <<entries, file, mode, reader, from>>
patterns == <<meant, automaton, states, typed>>
packets == <<message, writer, packet, read>>
xmls == <<xml, style, paths, unsent, lexer>>
lists == <<kind, chain, order>>
compilers == <<asked, expr, meaning>>
texts == <<topic, said, written, heard>>

Init ==
  /\ part \in {"tree", "buffers", "filters", "json", "file", "patterns", "packets", "xml",
               "lists", "compiler", "text"}
  /\ IF part = "tree" THEN Tree!Init ELSE NoTree
  /\ IF part = "buffers" THEN Buf!Init ELSE NoBuffers
  /\ IF part = "filters" THEN Filters!Init ELSE NoFilters
  /\ IF part = "json" THEN Json!Init ELSE NoJson
  /\ IF part = "file" THEN File!Init ELSE NoFile
  /\ IF part = "patterns" THEN Pattern!Init ELSE NoPatterns
  /\ IF part = "packets" THEN Dns!Init ELSE NoPackets
  /\ IF part = "xml" THEN Xml!Init ELSE NoXmls
  /\ IF part = "lists" THEN Lists!Init ELSE NoLists
  /\ IF part = "compiler" THEN Compiler!Init ELSE NoCompilers
  /\ IF part = "text" THEN Texts!Init ELSE NoTexts

OthersStay ==
  /\ part' = part
  /\ IF part = "tree" THEN TRUE ELSE UNCHANGED trees
  /\ IF part = "buffers" THEN TRUE ELSE UNCHANGED buffers
  /\ IF part = "filters" THEN TRUE ELSE UNCHANGED filters
  /\ IF part = "json" THEN TRUE ELSE UNCHANGED jsons
  /\ IF part = "file" THEN TRUE ELSE UNCHANGED files
  /\ IF part = "patterns" THEN TRUE ELSE UNCHANGED patterns
  /\ IF part = "packets" THEN TRUE ELSE UNCHANGED packets
  /\ IF part = "xml" THEN TRUE ELSE UNCHANGED xmls
  /\ IF part = "lists" THEN TRUE ELSE UNCHANGED lists
  /\ IF part = "compiler" THEN TRUE ELSE UNCHANGED compilers
  /\ IF part = "text" THEN TRUE ELSE UNCHANGED texts

TreeStep == part = "tree" /\ Tree!Next /\ OthersStay
BufferStep == part = "buffers" /\ Buf!Next /\ OthersStay
FilterStep == part = "filters" /\ Filters!Next /\ OthersStay
JsonStep == part = "json" /\ Json!Next /\ OthersStay
FileStep == part = "file" /\ File!Next /\ OthersStay
PatternStep == part = "patterns" /\ Pattern!Next /\ OthersStay
PacketStep == part = "packets" /\ Dns!Next /\ OthersStay
XmlStep == part = "xml" /\ Xml!Next /\ OthersStay
ListsStep == part = "lists" /\ Lists!Next /\ OthersStay
Compiles == part = "compiler" /\ OthersStay
CompilerStep == \/ Compiles /\ Compiler!Operate
                \/ Compiles /\ Compiler!Select
                \/ Compiles /\ Compiler!Change
                \/ Compiles /\ Compiler!Infer
                \/ Compiles /\ Compiler!Ask
TextsStep == part = "text" /\ Texts!Next /\ OthersStay

Next ==
  \/ TreeStep \/ BufferStep \/ FilterStep \/ JsonStep \/ FileStep \/ PatternStep
  \/ PacketStep \/ XmlStep \/ ListsStep \/ CompilerStep
  \/ TextsStep

vars == <<part, trees, buffers, filters, jsons, files, patterns, packets, xmls, lists, compilers,
          texts>>
Spec == Init /\ [][Next]_vars

View == IF part = "buffers" THEN <<part, Buf!Shape>>
        ELSE <<part, trees, filters, jsons, files, patterns, packets, xmls, lists, compilers,
               texts>>

-----------------------------------------------------------------------------

(* A tree holds exactly the nodes inserted and not removed, its parent and  *)
(* child pointers agree, and walks and searches find the nodes in key order:*)
(* no rotation of the insert or delete fixup loses or misplaces a node. No  *)
(* red node has a red child and every path to a leaf has the same number of *)
(* black nodes, after any sequence of fixups; in a counted tree a node's    *)
(* index is the number of nodes before it. Stacks, queues, lists and rings  *)
(* link their nodes in the order that the operations amount to, sorts       *)
(* included; arrays are sorted and heaps kept without the loss of an item.  *)
HoldsWhatWasPut ==
  /\ part = "tree" => Tree!HoldsTheSet /\ Tree!StaysBalanced
  /\ part = "lists" => Lists!LinksSayOrder /\ Lists!SortsAgree

(* Every fragment is in one buffer or on the stack of recycled fragments,   *)
(* once; no buffer has an empty one; size and last_frag say what the links  *)
(* say (the invariant that dsk-buffer.h opens with); foreign memory is      *)
(* destroyed when, and only when, no fragment refers to it any more.        *)
FragmentsOwned == part = "buffers" => Buf!FragmentsOwned

(* What the searches of a buffer find, fragment by fragment, is what they   *)
(* would find in the bytes laid end to end: no match is lost or made up     *)
(* where fragments meet. (But for the search for several strings, where one *)
(* of them runs over the end of a fragment.) A text matches the first of    *)
(* the patterns that mean it, and none if none does; a text that is no      *)
(* pattern is refused.                                                      *)
(* (Patterns whose automata share a state that is entered again are left    *)
(* out.)                                                                    *)
SearchesAgree ==
  /\ part = "buffers" => Buf!SearchesAgree
  /\ part = "patterns" => Pattern!MatchesPattern

(* Buffers are queues of bytes, whichever fragments are shared out, linked  *)
(* in, split and recycled on the way.                                       *)
KeepsByteQueues == Buf!KeepsByteQueues

(* It makes no difference in which pieces a document comes to a filter, to  *)
(* a chain of filters, to a checksum or to the decoder of multipart         *)
(* messages: it has written the same, and is in the same state, as if the   *)
(* document had come whole, and an error is found whatever the pieces.      *)
FeedsJoin == part = "filters" => Filters!FeedsJoin

(* What is encoded and decoded is what was put in, the parts of a multipart *)
(* message included; a digest is that of the padded message. What the       *)
(* library writes as JSON, compact or indented, it reads back. A DNS        *)
(* message is read as it was meant, by whomever it was written; what was    *)
(* cut short, or has names of too many labels, is refused. A time printed   *)
(* as a date is that day of the calendar and is read back, and what is      *)
(* printed of a date fits in the room computed for it; so is the header of  *)
(* a request or response, and the options taken from a request make it      *)
(* again. A template is printed with the values that its variables have in  *)
(* the innermost open scope that sets them. The members of a structure lie  *)
(* apart and aligned, are found by their names, and are read back from its  *)
(* bytes as JSON.                                                           *)
RoundTrips == /\ part = "filters" => Filters!RoundTrips
              /\ part = "json" => Json!RoundTrips
              /\ part = "packets" => Dns!RoundTrips
              /\ part = "text" => Texts!RoundTrips
              /\ part = "compiler" => Compiler!LaidOut

(* A JSON text that is accepted, spoilt ones too, says what was read out of *)
(* it and nothing else, but for blanks and for commas at the end of arrays  *)
(* and objects. However an XML document is written, and in whatever pieces  *)
(* it comes, the elements at the wanted paths are found as they were meant; *)
(* in one that is not well-formed none is. A date in any of four formats is *)
(* the time it says, in its zone; parameters, URLs and the headers of HTTP  *)
(* requests mean what their writer meant, whatever the blanks, quotes and   *)
(* folded lines, and a request with a line that makes no sense is refused.  *)
(* A command line sets the options it names, whichever way it names them,   *)
(* and is refused when it misses or excludes one, or names what there is    *)
(* not.                                                                     *)
(* An initializer of nested braces sets the bytes that its designators      *)
(* name, and a switch has the cases of its body. (Ways of writing that the  *)
(* parsers get wrong are left out: in JSON, characters of numbers that make *)
(* up none, for strtod's end is ignored.)                                   *)
ParsedAsWritten ==
  /\ part = "json" => Json!ParsedAsWritten
  /\ part = "xml" => Xml!ParsedAsWritten
  /\ part = "text" => Texts!ParsedAsWritten
  /\ part = "compiler" => Compiler!Initializes /\ Compiler!Switches

(* An expression of the compiler gets the type that the language gives it,  *)
(* once types are inferred, or is refused where the language does, and the  *)
(* constants that are folded are the values that they would have; so are    *)
(* the results of all operations on small integers and on numbers in        *)
(* floating point. (Operators that the code is known to get wrong are left  *)
(* out.)                                                                    *)
CompiledAsC == part = "compiler" => Compiler!CompiledAsC

(* A table file that was closed is read to its end as it was written, and   *)
(* one that a crash cut short up to where the fault is noticed; a search in *)
(* it finds one of the wanted entries, the first or the last of them as     *)
(* asked, and nothing only if there is none. (Searches for the first or     *)
(* last that do not end, or fail an assertion, are left out here.)          *)
TableFilesReadBack ==
  part = "file" => File!ReadersSeeTheFile /\ File!SearchesFind

=============================================================================
