------------------------------- MODULE DskBuffer -------------------------------
(***************************************************************************)
(* The buffers of dsk-buffer.c: a linked list of fragments, each a window   *)
(* of valid bytes in a piece of memory. Fragments are native (memory of     *)
(* their own, recycled on a stack that uses the same link) or foreign (the  *)
(* caller's memory, with a destroy function). Operators map a heap h, the   *)
(* whole memory below, to the heap after the C function returns.            *)
(***************************************************************************)
EXTENDS Integers, Sequences, FiniteSets, SequencesExt

CONSTANTS Buffers,
          Frags,        \* addresses of DskBufferFragment, a set of numbers
          Foreign,      \* pieces of memory that belong to the caller
          NULL,
          ChunkSize,    \* buf_max_size of a native fragment
          MaxRecycled,  \* MAX_RECYCLED
          MaxIovecs,    \* MAX_FRAGMENTS_TO_WRITE
          Bytes, Unset,
          NUL           \* the byte 0, an element of Bytes

(* data: the valid bytes, from start on; owner: the foreign memory, or NULL.*)
(* The contents of a fragment that nobody holds are not kept.               *)
Blank == [next |-> NULL, data |-> <<>>, start |-> 0, max |-> ChunkSize,
          owner |-> NULL]

EmptyHeap ==
  [size |-> [b \in Buffers |-> 0],
   first |-> [b \in Buffers |-> NULL],
   last |-> [b \in Buffers |-> NULL],
   frag |-> [f \in Frags |-> Blank],
   allocated |-> {},
   recycling_stack |-> NULL, num_recycled |-> 0,
   lent |-> [x \in Foreign |-> 0]]      \* appended and not destroyed

Room(h) == Cardinality(Frags \ h.allocated) + h.num_recycled
Avail(h, f) == h.frag[f].max - h.frag[f].start - Len(h.frag[f].data)
Length(h, f) == Len(h.frag[f].data)

(* The fragments from f on, by their links; at most n of them.              *)
RECURSIVE ChainOf(_, _, _)
ChainOf(h, f, n) == IF f = NULL \/ n = 0 THEN <<>>
                    ELSE <<f>> \o ChainOf(h, h.frag[f].next, n - 1)
Chain(h, f) == ChainOf(h, f, Cardinality(Frags) + 1)

FragsOf(h, b) == Chain(h, h.first[b])

(* The first n bytes of the fragments fs.                                   *)
BytesOf(h, fs, n) ==
  FoldLeft(LAMBDA got, f:
             got \o SubSeq(h.frag[f].data, 1,
                           IF Len(h.frag[f].data) <= n - Len(got)
                           THEN Len(h.frag[f].data) ELSE n - Len(got)),
           <<>>, fs)
Content(h, b) ==
  FoldLeft(LAMBDA all, f: all \o h.frag[f].data, <<>>, FragsOf(h, b))

(* new_native_fragment, new_foreign_fragment: the heap and the address.     *)
NewAddress(h) == CHOOSE f \in Frags \ h.allocated:
                   \A g \in Frags \ h.allocated: f <= g

NewNative(h) ==
  IF h.recycling_stack # NULL
  THEN [at |-> h.recycling_stack,
        heap |-> [h EXCEPT !.recycling_stack = h.frag[@].next,
                           !.num_recycled = @ - 1,
                           !.frag[h.recycling_stack] = Blank]]
  ELSE [at |-> NewAddress(h),
        heap |-> [h EXCEPT !.allocated = @ \cup {NewAddress(h)},
                           !.frag[NewAddress(h)] = Blank]]

NewForeign(h, x, text) ==
  [at |-> NewAddress(h),
   heap |-> [h EXCEPT !.allocated = @ \cup {NewAddress(h)},
                      !.lent[x] = @ + 1,
                      !.frag[NewAddress(h)] =
                         [next |-> NULL, data |-> text, start |-> 0,
                          max |-> Len(text), owner |-> x]]]

Recycle(h, f) ==
  IF h.frag[f].owner # NULL
  THEN [h EXCEPT !.lent[h.frag[f].owner] = @ - 1,
                 !.allocated = @ \ {f}, !.frag[f] = Blank]
  ELSE IF h.num_recycled >= MaxRecycled
  THEN [h EXCEPT !.allocated = @ \ {f}, !.frag[f] = Blank]
  ELSE [h EXCEPT !.frag[f] = [Blank EXCEPT !.next = h.recycling_stack],
                 !.recycling_stack = f, !.num_recycled = @ + 1]

(* last_frag->next = f (or first_frag = f), last_frag = f.                  *)
Link(h, b, f) ==
  IF h.last[b] = NULL
  THEN [h EXCEPT !.first[b] = f, !.last[b] = f]
  ELSE [h EXCEPT !.frag[h.last[b]].next = f, !.last[b] = f]

AppendEmptyFragment(h, b) == Link(NewNative(h).heap, b, NewNative(h).at)

HasSpace(h, b) == h.last[b] # NULL /\ Avail(h, h.last[b]) > 0
WithSpace(h, b) == IF HasSpace(h, b) THEN h ELSE AppendEmptyFragment(h, b)

(* Bytes at the end of the last fragment, which has room for them.          *)
Extend(h, b, text) == [h EXCEPT !.frag[h.last[b]].data = @ \o text,
                                !.size[b] = @ + Len(text)]

(* dsk_buffer_append, and with it its callers and the functions with the    *)
(* same loop: append_repeated_byte, append_string, append_small, readv.     *)
RECURSIVE AppendBytes(_, _, _)
AppendBytes(h, b, text) ==
  IF text = <<>> THEN h
  ELSE LET g == WithSpace(h, b)
           n == IF Avail(g, g.last[b]) > Len(text) THEN Len(text)
                                                  ELSE Avail(g, g.last[b])
       IN  AppendBytes(Extend(g, b, SubSeq(text, 1, n)), b,
                       SubSeq(text, n + 1, Len(text)))

AppendForeign(h, b, x, text) ==
  LET g == NewForeign(h, x, text)
  IN  IF text = <<>> THEN h             \* destroyed at once
      ELSE [Link(g.heap, b, g.at) EXCEPT !.size[b] = @ + Len(text)]

(* dsk_buffer_vprintf of a text: printed into the last fragment if it has   *)
(* any space, and kept there if it fits. vsnprintf ends it with a NUL, for  *)
(* which there is no place when it fits exactly: the last byte is lost.     *)
FirstFree(h) == CHOOSE x \in Foreign: h.lent[x] = 0

Printf(h, b, text) ==
  LET g   == WithSpace(h, b)
      rem == Avail(g, g.last[b])
      fit == IF Len(text) = rem THEN [text EXCEPT ![rem] = NUL] ELSE text
  IN  IF text = <<>> THEN h
      ELSE IF Len(text) <= rem THEN Extend(g, b, fit)
      ELSE IF Len(text) - rem < ChunkSize THEN AppendBytes(h, b, text)
      ELSE AppendForeign(h, b, FirstFree(h), text)

(* The loop of dsk_buffer_read and dsk_buffer_discard: whole fragments are  *)
(* recycled, the last one loses its front. size is set at the end.          *)
DropFirst(h, b) ==
  LET f == h.first[b]
      g == [h EXCEPT !.first[b] = h.frag[f].next,
                     !.last[b] = IF h.frag[f].next = NULL THEN NULL ELSE @]
  IN  Recycle(g, f)

CutFront(h, f, n) ==
  [h EXCEPT !.frag[f].start = @ + n,
            !.frag[f].data = SubSeq(@, n + 1, Len(@))]

RECURSIVE RemoveBytes(_, _, _)
RemoveBytes(h, b, n) ==
  LET f == h.first[b]
  IN  IF n = 0 \/ f = NULL THEN h
      ELSE IF Length(h, f) <= n
      THEN RemoveBytes(DropFirst(h, b), b, n - Length(h, f))
      ELSE CutFront(h, f, n)

(* dsk_buffer_peek: what the same walk copies.                              *)
Peek(h, b, n) == BytesOf(h, FragsOf(h, b), n)

Discard(h, b, n) == [RemoveBytes(h, b, n) EXCEPT !.size[b] = @ - Len(Peek(h, b, n))]

(* dsk_buffer_index_of: by fragments; the length of the buffer if there is  *)
(* none (-1 in C).                                                          *)
IndexIn(text, c) == IF \E i \in DOMAIN text: text[i] = c
                    THEN (CHOOSE i \in DOMAIN text: text[i] = c /\
                            \A j \in 1..(i-1): text[j] # c) - 1
                    ELSE Len(text)

\* Mutant: the bytes of the fragments passed over are not counted.
IndexOfInFragment(h, b, c) ==
  LET fs == {f \in Range(FragsOf(h, b)): IndexIn(h.frag[f].data, c) < Length(h, f)}
  IN  IF fs = {} THEN Len(Content(h, b)) ELSE IndexIn(h.frag[CHOOSE f \in fs: TRUE].data, c)

IndexOf(h, b, c) ==
  LET fs == FragsOf(h, b)
      at[i \in 1..(Len(fs) + 1)] ==
        IF i > Len(fs) THEN 0
        ELSE LET d == h.frag[fs[i]].data
             IN  IF IndexIn(d, c) < Len(d) THEN IndexIn(d, c)
                 ELSE Len(d) + at[i+1]
  IN  at[1]

(* dsk_buffer_str_index_of: at each byte, a second walk compares the rest   *)
(* of the string from there, on into the next fragments. (-1 is NULL here.) *)
RECURSIVE MatchesFrom(_, _, _, _)
MatchesFrom(h, f, at, str) ==
  \/ str = <<>>
  \/ /\ f # NULL
     /\ IF at = Length(h, f) THEN MatchesFrom(h, h.frag[f].next, 0, str)
        ELSE /\ h.frag[f].data[at + 1] = Head(str)
             /\ MatchesFrom(h, f, at + 1, Tail(str))

RECURSIVE StrIndexFrom(_, _, _, _, _)
StrIndexFrom(h, f, at, rv, str) ==
  IF f = NULL THEN NULL
  ELSE IF at = Length(h, f) THEN StrIndexFrom(h, h.frag[f].next, 0, rv, str)
  ELSE IF MatchesFrom(h, f, at, str) THEN rv
  ELSE StrIndexFrom(h, f, at + 1, rv + 1, str)
StrIndexOf(h, b, str) == StrIndexFrom(h, h.first[b], 0, 0, str)

(* fragment_n_str: whether str is at a place of fragment f, "yes" or "no".  *)
(* In the next fragment frag_index stays what it was; past the end of that  *)
(* one the length to compare wraps, and memory beyond is read ("beyond").   *)
RECURSIVE FragmentNStr(_, _, _, _)
FragmentNStr(h, f, frag_index, str) ==
  LET rest == Length(h, f) - frag_index
      test_len == IF rest < Len(str) THEN rest ELSE Len(str)
  IN  IF rest < 0 THEN "beyond"
      ELSE IF SubSeq(h.frag[f].data, frag_index + 1, frag_index + test_len)
              # SubSeq(str, 1, test_len) THEN "no"
      ELSE IF test_len = Len(str) THEN "yes"
      ELSE IF h.frag[f].next = NULL THEN "no"
      ELSE FragmentNStr(h, h.frag[f].next, frag_index + test_len,
                        SubSeq(str, test_len + 1, Len(str)))

(* dsk_buffer_polystr_index_of: where the first of some strings is, by      *)
(* fragments. A place where one may begin and none is counts as one more    *)
(* byte of the fragment, so that memory beyond its end is read, too.        *)
PolystrIndexOf(h, b, strings) ==
  LET fs == FragsOf(h, b)
      starts(i) == {p \in 0..(Length(h, fs[i]) - 1):
                      \E s \in Range(strings): h.frag[fs[i]].data[p + 1] = Head(s)}
      tests(i, p) == SelectSeq([k \in DOMAIN strings |-> FragmentNStr(h, fs[i], p, strings[k])],
                               LAMBDA found: found # "no")
      at[i \in 1..(Len(fs) + 1)] ==
        IF i > Len(fs) THEN <<"no">>
        ELSE LET ends == {p \in starts(i): tests(i, p) # <<>>}
                 p == CHOOSE q \in ends: \A r \in ends: q <= r
             IN  IF ends # {} THEN <<Head(tests(i, p)), p>>
                 ELSE IF starts(i) # {} THEN <<"beyond">>
                 ELSE IF Len(at[i+1]) = 2 THEN <<at[i+1][1], Length(h, fs[i]) + at[i+1][2]>>
                 ELSE at[i+1]
  IN  at[1]

(* dsk_buffer_find_fragment, dsk_buffer_get_byte_at: the fragment that      *)
(* holds a byte, and the place of its first byte in the buffer.             *)
RECURSIVE FragmentFrom(_, _, _, _)
FragmentFrom(h, f, frag_offset, offset) ==
  IF frag_offset < offset /\ offset >= frag_offset + Length(h, f)
  THEN FragmentFrom(h, h.frag[f].next, frag_offset + Length(h, f), offset)
  ELSE [at |-> f, offset |-> frag_offset]
FindFragment(h, b, offset) == FragmentFrom(h, h.first[b], 0, offset)
ByteAt(h, b, idx) ==
  LET r == FindFragment(h, b, idx) IN h.frag[r.at].data[idx - r.offset + 1]

(* dsk_buffer_fragment_peek: length bytes from an offset in f on. If they   *)
(* do not end in f, the code takes buf_length - length of them from f, not  *)
(* buf_length - offset. (NULL: it copies from outside the fragment.)        *)
FragmentPeek(h, from, from_offset, length) ==
  LET moved  == Length(h, from) = from_offset
      f      == IF moved THEN h.frag[from].next ELSE from
      offset == IF moved THEN 0 ELSE from_offset
      rv     == Length(h, f) - length
  IN  IF Length(h, f) >= length + offset
      THEN SubSeq(h.frag[f].data, offset + 1, offset + length)
      ELSE IF rv < 0 \/ offset + rv > Length(h, f) THEN NULL
      ELSE SubSeq(h.frag[f].data, offset + 1, offset + rv)
             \o BytesOf(h, Chain(h, h.frag[f].next), length - rv)

(* dsk_buffer_fragment_advance: what does not end in f is looked for in f   *)
(* once more, instead of in its successor.                                  *)
RECURSIVE AdvanceFrom(_, _, _)
AdvanceFrom(h, f, skip) ==
  IF skip = 0 \/ f = NULL THEN [found |-> FALSE]
  ELSE IF skip >= Length(h, f) THEN AdvanceFrom(h, h.frag[f].next, skip - Length(h, f))
  ELSE [found |-> TRUE, at |-> f, offset |-> skip]
FragmentAdvance(h, f, offset, skip) ==
  IF Length(h, f) >= offset + skip THEN [found |-> TRUE, at |-> f, offset |-> offset + skip]
  ELSE AdvanceFrom(h, f, skip - (Length(h, f) - offset))

(* What dsk_buffer_writev_len hands to the system: the first fragments.     *)
Iovecs(h, b, max) ==
  LET fs == FragsOf(h, b)
  IN  BytesOf(h, IF Len(fs) > MaxIovecs THEN SubSeq(fs, 1, MaxIovecs) ELSE fs, max)

Drain(h, to, from) ==
  IF h.first[from] = NULL THEN h
  ELSE LET g == IF h.last[to] # NULL
                THEN [h EXCEPT !.frag[h.last[to]].next = h.first[from]]
                ELSE [h EXCEPT !.first[to] = h.first[from]]
       IN  [g EXCEPT !.last[to] = h.last[from],
                     !.size[to] = @ + h.size[from], !.size[from] = 0,
                     !.first[from] = NULL, !.last[from] = NULL]

(* dsk_buffer_transfer: whole fragments change hands, then the front of the *)
(* next one is copied.                                                      *)
\* Mutant: the fragment keeps its link.
MoveFirstLinked(h, to, from) ==
  LET f == h.first[from]
      g == [h EXCEPT !.first[from] = h.frag[f].next,
                     !.last[from] = IF h.frag[f].next = NULL THEN NULL ELSE @,
                     !.size[from] = @ - Length(h, f),
                     !.size[to] = @ + Length(h, f)]
  IN  Link(g, to, f)

MoveFirst(h, to, from) ==
  LET f == h.first[from]
      g == [h EXCEPT !.first[from] = h.frag[f].next,
                     !.last[from] = IF h.frag[f].next = NULL THEN NULL ELSE @,
                     !.frag[f].next = NULL,
                     !.size[from] = @ - Length(h, f),
                     !.size[to] = @ + Length(h, f)]
  IN  Link(g, to, f)

RECURSIVE Transfer(_, _, _, _)
Transfer(h, to, from, max) ==
  LET f == h.first[from]
  IN  IF f = NULL \/ max = 0 THEN h
      ELSE IF max >= Length(h, f)
      THEN Transfer(MoveFirst(h, to, from), to, from, max - Length(h, f))
      ELSE [CutFront(AppendBytes(h, to, SubSeq(h.frag[f].data, 1, max)), f, max)
              EXCEPT !.size[from] = @ - max]

(* dsk_buffer_reset: clear, which recycles all, and empty pointers.         *)
Reset(h, b) ==
  LET g == FoldLeft(Recycle, h, FragsOf(h, b))
  IN  [g EXCEPT !.first[b] = NULL, !.last[b] = NULL, !.size[b] = 0]

(* dsk_buffer_append_placeholder and _set: offset counts from the start of  *)
(* the fragment's memory. If that memory is gone by then, nothing is filled *)
(* (in C: a write into freed memory, or through NULL).                      *)
Placeholder(h, b, n) ==
  LET g == AppendBytes(h, b, [i \in 1..n |-> Unset])
  IN  [heap |-> g,
       fragment |-> IF h.last[b] # NULL THEN h.last[b] ELSE g.first[b],
       offset |-> IF h.last[b] = NULL THEN 0
                  ELSE h.frag[h.last[b]].start + Length(h, h.last[b]),
       length |-> n]

\* Mutant: the offset is taken to count from the first valid byte.
OverwriteFromFirst(h, f, offset, text) ==
  [h EXCEPT !.frag[f].data =
     [i \in DOMAIN @ |-> IF i \in (offset+1)..(offset+Len(text)) THEN text[i - offset]
                                                                ELSE @[i]]]

Overwrite(h, f, offset, text) ==
  LET at == offset - h.frag[f].start
  IN  [h EXCEPT !.frag[f].data =
         [i \in DOMAIN @ |-> IF i \in (at+1)..(at+Len(text)) THEN text[i - at]
                                                             ELSE @[i]]]

RECURSIVE PlaceholderSet(_, _, _, _)
PlaceholderSet(h, f, offset, text) ==
  LET avail == h.frag[f].start + Length(h, f) - offset
  IN  IF f = NULL THEN h
      ELSE IF avail >= Len(text) THEN Overwrite(h, f, offset, text)
      ELSE PlaceholderSet(Overwrite(h, f, offset, SubSeq(text, 1, avail)),
                          h.frag[f].next, 0, SubSeq(text, avail + 1, Len(text)))

(* A filter that writes into the buffer itself (dsk-zlib.c, dsk-bz2lib.c):  *)
(* the compressor is given the space of the last fragment, or of an empty   *)
(* one added for it, as often as it has more to write. When the last round  *)
(* has written nothing into a fragment added by this call, the fragment is  *)
(* freed again, but the one before it still links to it.                    *)
RECURSIVE ZlibRounds(_, _, _)
ZlibRounds(h, b, text) ==
  LET g == WithSpace(h, b)
      n == Avail(g, g.last[b])
  IN  IF Len(text) <= n THEN [heap |-> Extend(g, b, text), before |-> h.last[b]]
      ELSE ZlibRounds(Extend(g, b, SubSeq(text, 1, n)), b,
                      SubSeq(text, n + 1, Len(text)))

ZlibProcess(h, b, text) ==
  LET r == ZlibRounds(h, b, text)
      f == r.heap.last[b]
  IN  IF Length(r.heap, f) > 0 THEN r.heap
      ELSE [Recycle(r.heap, f) EXCEPT
              !.last[b] = r.before,
              !.first[b] = IF r.before = NULL THEN NULL ELSE @]

(* dsk_buffer_maybe_remove_empty_fragment, on the error paths: here the     *)
(* link is cut, but last_frag becomes NULL whatever is left.                *)
MaybeRemoveEmptyFragment(h, b) ==
  LET f == h.last[b]
      before == {g \in Range(FragsOf(h, b)): h.frag[g].next = f}
      cut == IF before = {} THEN [h EXCEPT !.first[b] = NULL]
             ELSE [h EXCEPT !.frag[CHOOSE g \in before: TRUE].next = NULL]
  IN  IF Length(h, f) # 0 THEN h
      ELSE [Recycle(cut, f) EXCEPT !.last[b] = NULL]

ZlibFails(h, b, text) ==
  MaybeRemoveEmptyFragment(ZlibRounds(h, b, text).heap, b)

-----------------------------------------------------------------------------
(* Any sequence of calls on two buffers, in a memory of a few fragments. It *)
(* implements ByteQueues.                                                   *)
CONSTANTS Texts,        \* what callers append
          MaxBytes,     \* bound: bytes in all buffers
          Careful       \* callers avoid the cases in which the code is wrong

VARIABLES heap,
          got,          \* the bytes handed out by the last call
          place         \* the DskBufferPlaceholder not yet set, or NULL

vars == <<heap, got, place>>

Init == heap = EmptyHeap /\ got = <<>> /\ place = NULL

Fits(text) == /\ MapThenSumSet(LAMBDA b: heap.size[b], Buffers) + Len(text) <= MaxBytes
              /\ Room(heap) * ChunkSize >= ChunkSize + Len(text)

(* Bytes of a hole stay where they are until it is filled.                  *)
Unfilled(b) == IndexIn(Content(heap, b), Unset)

Puts(b, h) == heap' = h /\ got' = <<>> /\ UNCHANGED place

CallAppend(b) == \E text \in Texts:
  Fits(text) /\ Puts(b, AppendBytes(heap, b, text))

CallAppendForeign(b) == \E text \in Texts, x \in Foreign:
  /\ Fits(text) /\ heap.lent[x] = 0 /\ Frags # heap.allocated
  /\ Puts(b, AppendForeign(heap, b, x, text))

CallPrintf(b) == \E text \in Texts:
  /\ Fits(text) /\ Frags # heap.allocated
  /\ \E x \in Foreign: heap.lent[x] = 0
  /\ Careful => Len(text) # Avail(WithSpace(heap, b), WithSpace(heap, b).last[b])
  /\ Puts(b, Printf(heap, b, text))

CallRead(b) == \E n \in 1..Unfilled(b):
  /\ heap' = Discard(heap, b, n)
  /\ got' = Peek(heap, b, n)
  /\ UNCHANGED place

(* dsk_buffer_read_line, dsk_buffer_parse_string0: up to and without the    *)
(* byte that ends it.                                                       *)
CallReadLine(b) ==
  /\ IndexOf(heap, b, NUL) < Unfilled(b)
  /\ heap' = Discard(heap, b, IndexOf(heap, b, NUL) + 1)
  /\ got' = Peek(heap, b, IndexOf(heap, b, NUL))
  /\ UNCHANGED place

(* dsk_buffer_writev_len: the descriptor takes any part of the iovec.       *)
CallWritev(b) == \E max \in 1..Unfilled(b):
  \E n \in 0..Len(Iovecs(heap, b, max)):
    /\ heap' = Discard(heap, b, n)
    /\ got' = SubSeq(Iovecs(heap, b, max), 1, n)
    /\ UNCHANGED place

CallDrain(to, from) == Puts(to, Drain(heap, to, from))

CallTransfer(to, from) == \E max \in 1..Unfilled(from):
  /\ Room(heap) > 0
  /\ Puts(to, Transfer(heap, to, from, max))

CallReset(b) ==
  /\ Unfilled(b) = Len(Content(heap, b))
  /\ heap' = Reset(heap, b)
  /\ got' = Content(heap, b)
  /\ UNCHANGED place

CallPlaceholder(b) == \E n \in 1..(ChunkSize + 1):
  /\ place = NULL /\ Fits([i \in 1..n |-> Unset])
  /\ Careful => heap.last[b] = NULL \/ HasSpace(heap, b)
  /\ \E p \in {Placeholder(heap, b, n)}:
       /\ heap' = p.heap
       /\ place' = [fragment |-> p.fragment, offset |-> p.offset, length |-> n]
  /\ got' = <<>>

CallPlaceholderSet ==
  /\ place # NULL
  /\ heap' = PlaceholderSet(heap, place.fragment, place.offset,
                            [i \in 1..place.length |-> NUL])
  /\ place' = NULL /\ got' = <<>>

CallZlib(b) == \E text \in Texts \cup {<<>>}:
  /\ Fits(text)
  /\ Careful => text # <<>> \/ heap.last[b] = NULL \/ HasSpace(heap, b)
  /\ Puts(b, ZlibProcess(heap, b, text))

CallZlibFails(b) == \E text \in Texts \cup {<<>>}:
  /\ Fits(text)
  /\ Careful => text # <<>> \/ heap.last[b] = NULL \/ HasSpace(heap, b)
  /\ Puts(b, ZlibFails(heap, b, text))

Next ==
  \/ CallPlaceholderSet
  \/ \E b \in Buffers:
       \/ CallAppend(b) \/ CallAppendForeign(b) \/ CallPrintf(b)
       \/ CallRead(b) \/ CallReadLine(b) \/ CallWritev(b) \/ CallReset(b)
       \/ CallPlaceholder(b) \/ CallZlib(b) \/ CallZlibFails(b)
       \/ \E to \in Buffers \ {b}: CallDrain(to, b) \/ CallTransfer(to, b)

Spec == Init /\ [][Next]_vars

-----------------------------------------------------------------------------

Lists(h) == [b \in Buffers |-> FragsOf(h, b)]
Pool(h) == Chain(h, h.recycling_stack)

Sound(h, list, pool) ==
  /\ h.num_recycled = Len(pool) /\ h.num_recycled <= MaxRecycled
  /\ h.allocated = UNION {Range(list[b]): b \in Buffers} \cup Range(pool)
  /\ Cardinality(h.allocated) =
       Len(pool) + MapThenSumSet(LAMBDA b: Len(list[b]), Buffers)
  /\ \A b \in Buffers:
       /\ h.size[b] = FoldLeft(LAMBDA n, f: n + Length(h, f), 0, list[b])
       /\ \A i \in DOMAIN list[b]: Length(h, list[b][i]) > 0 /\ Avail(h, list[b][i]) >= 0
       /\ h.last[b] = IF h.first[b] = NULL THEN NULL ELSE Last(list[b])
  /\ \A x \in Foreign:
       h.lent[x] = Cardinality({f \in h.allocated: h.frag[f].owner = x})

(* Every fragment is in one buffer or on the stack of recycled fragments,   *)
(* once; no buffer has an empty one; size and last_frag say what the links  *)
(* say, and an empty buffer holds no memory (the invariant that             *)
(* dsk-buffer.h opens with); foreign memory is destroyed when, and only     *)
(* when, no fragment refers to it any more.                                 *)
FragmentsOwned ==
  \E list \in {Lists(heap)}, pool \in {Pool(heap)}: Sound(heap, list, pool)

Patterns == {<<1>>, <<1, 0>>, <<1, 1>>, <<1, 0, 1>>}
FirstMatch(text, str) ==
  LET found == {i \in 0..(Len(text) - Len(str)):
                  SubSeq(text, i + 1, i + Len(str)) = str}
  IN  IF found = {} THEN NULL ELSE CHOOSE i \in found: \A j \in found: i <= j

(* Some strings to look for; one of them runs over the end of a fragment    *)
(* of this buffer, as far as the fragment goes.                             *)
StringLists == {<<<<1>>>>, <<<<1>>, <<0>>>>, <<<<1, 0>>>>, <<<<0, 1>>, <<1, 1>>>>}
RunsOver(b, strings) ==
  \E f \in Range(FragsOf(heap, b)), s \in Range(strings):
    \E n \in 1..(Len(s) - 1): IsSuffix(SubSeq(s, 1, n), heap.frag[f].data)
FirstOf(text, strings) ==
  LET found == {FirstMatch(text, s): s \in Range(strings)} \ {NULL}
  IN  IF found = {} THEN <<"no">> ELSE <<"yes", CHOOSE i \in found: \A j \in found: i <= j>>

(* Peeking and advancing by fragments, n bytes from offset at on.           *)
Reads(b, text, at, n) ==
  LET r == FindFragment(heap, b, at)
      offset == at - r.offset
      to == FragmentAdvance(heap, r.at, offset, n)
  IN  \/ Careful /\ n > Length(heap, r.at) - offset
      \/ /\ FragmentPeek(heap, r.at, offset, n) = SubSeq(text, at + 1, at + n)
         /\ to.found
         /\ to.offset < Length(heap, to.at) =>
              heap.frag[to.at].data[to.offset + 1] = text[at + n + 1]

(* What the searches find, fragment by fragment, is what they would find in *)
(* the bytes laid end to end: no match is lost or made up where fragments   *)
(* meet. For the search for several strings this is so only if none of them *)
(* runs over the end of a fragment, and nothing beyond a fragment is read   *)
(* (Careful): fragment_n_str compares the next fragment from the wrong      *)
(* place on.                                                                *)
SearchesAgree == \A b \in Buffers: \E text \in {Content(heap, b)}:
  /\ \A c \in Bytes: IndexOf(heap, b, c) = IndexIn(text, c)
  /\ \A str \in Patterns: StrIndexOf(heap, b, str) = FirstMatch(text, str)
  /\ \A strings \in StringLists:
       \/ Careful /\ (PolystrIndexOf(heap, b, strings)[1] = "beyond" \/ RunsOver(b, strings))
       \/ PolystrIndexOf(heap, b, strings) = FirstOf(text, strings)
  /\ \A i \in DOMAIN text: ByteAt(heap, b, i - 1) = text[i]
  /\ FindFragment(heap, b, Len(text)).at = NULL
  /\ \A i \in DOMAIN text: \A n \in 1..(Len(text) - i): Reads(b, text, i - 1, n)

(* The view: two sound heaps that differ in addresses only are one state,   *)
(* and what was handed out does not matter to what follows.                 *)
ShapeOf(list) ==
  <<[b \in Buffers |-> [i \in DOMAIN list[b] |->
       LET f == heap.frag[list[b][i]] IN <<f.data, f.start, f.max, f.owner>>]],
    heap.num_recycled,
    IF place = NULL THEN NULL
    ELSE <<place.offset, place.length,
           [b \in Buffers |-> {i \in DOMAIN list[b]: list[b][i] = place.fragment}]>>>>
Shape ==
  CHOOSE shape \in {IF Sound(heap, list, Pool(heap)) THEN ShapeOf(list) ELSE <<heap, place>>:
                       list \in {Lists(heap)}}: TRUE

(* The buffers are queues of bytes.                                         *)
Queues == INSTANCE ByteQueues
            WITH queue <- [b \in Buffers |-> Content(heap, b)],
                 hole <- place # NULL
KeepsByteQueues == Queues!Spec

===============================================================================
