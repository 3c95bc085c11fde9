------------------------------ MODULE DskTableFile ------------------------------
(***************************************************************************)
(* The files of the trivial format, dsk-table-file-trivial.c: an index of   *)
(* fixed-size entries and a heap of keys and values, written in the order   *)
(* of the keys; readers, which go from one entry to the next, and the       *)
(* binary search of seekers.                                                *)
(***************************************************************************)
EXTENDS Integers, Sequences, SequencesExt, FiniteSets

CONSTANTS Broken,       \* what has no value: a read that fails, or ends early
          MaxEntries,   \* bound: entries of the file
          MaxValue,     \* bound: bytes of a value
          Careful       \* leave out what the code gets wrong

(* A file is [index, heap]. An entry of the index says where the key begins *)
(* in the heap, and how long key and value are.                             *)
EmptyFile == [index |-> <<>>, heap |-> <<>>]
IndexEntry(offset, key, val) ==
  [heap_offset |-> offset, key_length |-> Len(key), value_length |-> Len(val)]

WriteEntry(file, key, val) ==
  [index |-> Append(file.index, IndexEntry(Len(file.heap), key, val)),
   heap |-> file.heap \o key \o val]

(* pread, fread of n bytes.                                                 *)
ReadHeap(file, offset, n) ==
  IF offset + n > Len(file.heap) /\ n > 0 THEN Broken
  ELSE SubSeq(file.heap, offset + 1, offset + n)

-----------------------------------------------------------------------------
(* Readers. position counts the entries read; heap_at is where heap_fp      *)
(* stands, next_heap_offset where the code believes it to be.               *)

ReadNextIndexEntry(file, r) ==
  LET e  == file.index[r.position + 1]
      kv == ReadHeap(file, r.heap_at, e.key_length + e.value_length)
  IN  IF r.position = Len(file.index) THEN [r EXCEPT !.at_eof = TRUE]
      ELSE IF e.heap_offset # r.next_heap_offset \/ kv = Broken
      THEN [r EXCEPT !.failed = TRUE]
      ELSE [r EXCEPT !.position = @ + 1,
                     !.heap_at = @ + Len(kv), !.next_heap_offset = @ + Len(kv),
                     !.key = SubSeq(kv, 1, e.key_length),
                     !.value = SubSeq(kv, e.key_length + 1, Len(kv))]

(* new_reader seeks in both files, but expects the heap to begin at 0.      *)
NewReader(file, index, heap_offset) ==
  ReadNextIndexEntry(file,
    [position |-> index, heap_at |-> heap_offset, next_heap_offset |-> 0,
     at_eof |-> FALSE, failed |-> FALSE, key |-> <<>>, value |-> <<>>])

IndexReader(file, index) ==
  NewReader(file, index, file.index[index + 1].heap_offset)

-----------------------------------------------------------------------------
(* Seekers. func is the caller's: func[key] says whether a key is before    *)
(* the ones it looks for (-1), one of them (0), or after (1). A search ends *)
(* with how = "found", "none", "error", "assertion" when one fails, or      *)
(* "endless" when the interval stays as it is.                              *)
Ends(how, index) == [how |-> how, index |-> index]

RunCmp(file, func, index) ==
  LET e == file.index[index + 1]
      key == ReadHeap(file, e.heap_offset, e.key_length)
  IN  IF key = Broken THEN Broken ELSE func[key]

(* DSK_TABLE_FILE_FIND_FIRST: start+n-1 is one of them.                     *)
RECURSIVE FindFirst(_, _, _, _)
FindFirst(file, func, start, n) ==
  LET mid2 == start + n \div 2
      cmp == RunCmp(file, func, mid2)
  IN  IF n <= 1 THEN Ends("found", start)
      ELSE CASE cmp = Broken -> Ends("error", 0)
             [] cmp = 1 -> Ends("assertion", 0)
             [] cmp = 0 -> IF mid2 + 1 - start = n THEN Ends("endless", 0)
                           ELSE FindFirst(file, func, start, mid2 + 1 - start)
             [] cmp = -1 -> FindFirst(file, func, mid2 + 1, start + n - (mid2 + 1))

(* DSK_TABLE_FILE_FIND_LAST: start is one of them; the keys after them make *)
(* the assertion fail.                                                      *)
RECURSIVE FindLast(_, _, _, _)
FindLast(file, func, start, n) ==
  LET mid2 == start + n \div 2
      cmp == RunCmp(file, func, mid2)
  IN  IF n <= 1 THEN Ends("found", start)
      ELSE CASE cmp = Broken -> Ends("error", 0)
             [] cmp = 1 -> Ends("assertion", 0)
             [] cmp = 0 -> FindLast(file, func, mid2, start + n - mid2)
             [] cmp = -1 -> FindLast(file, func, start, mid2 - start)

RECURSIVE FindFrom(_, _, _, _, _)
FindFrom(file, func, mode, start, n) ==
  LET mid == start + n \div 2
      cmp == RunCmp(file, func, mid)
  IN  IF n = 0 THEN Ends("none", 0)
      ELSE CASE cmp = Broken -> Ends("error", 0)
             [] cmp = 1 -> FindFrom(file, func, mode, start, mid - start)
             [] cmp = -1 -> FindFrom(file, func, mode, mid + 1, start + n - (mid + 1))
             [] cmp = 0 ->
                  CASE mode = "FIND_FIRST" -> FindFirst(file, func, start, mid + 1 - start)
                    [] mode = "FIND_LAST" -> FindLast(file, func, mid, start + n - mid)
                    [] mode = "FIND_ANY" -> Ends("found", mid)

\* Mutant: the last entry is not searched.
FindIndexShort(file, func, mode) ==
  FindFrom(file, func, mode, 0, IF file.index = <<>> THEN 0 ELSE Len(file.index) - 1)

FindIndex(file, func, mode) == FindFrom(file, func, mode, 0, Len(file.index))

-----------------------------------------------------------------------------
(* A file is written, closed or cut short by a crash, and then read from    *)
(* any entry on.                                                            *)
VARIABLES entries,      \* history: the [key, value] written
          file,
          mode,         \* "writing", "closed" or "crashed"
          reader,       \* a reader, or Broken when there is none
          from          \* the entry it was opened at

vars == <<entries, file, mode, reader, from>>

(* A key is a number, written as that number of bytes, so the first key may *)
(* be empty; a value is bytes that no key has.                              *)
KeyBytes(k) == [i \in 1..k |-> k]
Values == {[i \in 1..n |-> 0]: n \in 0..MaxValue}

Init == /\ entries = <<>> /\ file = EmptyFile /\ mode = "writing"
        /\ reader = Broken /\ from = 0

WriteNext(key, val) ==
  /\ mode = "writing" /\ Len(entries) < MaxEntries
  /\ \A i \in DOMAIN entries: entries[i].key < key
  /\ file' = WriteEntry(file, KeyBytes(key), val)
  /\ entries' = Append(entries, [key |-> key, value |-> val])
  /\ UNCHANGED <<mode, reader, from>>

CloseFile == mode = "writing" /\ mode' = "closed" /\ UNCHANGED <<entries, file, reader, from>>

(* Of either file only a first part got to the disk: of the index, whole    *)
(* entries, as a part of one makes the reader fail in any case.             *)
Crash(index, heap) ==
  /\ mode = "writing" /\ mode' = "crashed"
  /\ file' = [index |-> SubSeq(file.index, 1, index), heap |-> SubSeq(file.heap, 1, heap)]
  /\ UNCHANGED <<entries, reader, from>>

Open(i) ==
  /\ mode # "writing" /\ reader = Broken
  /\ i = 0 \/ i < Len(file.index)
  /\ Careful /\ i > 0 => file.index[i + 1].heap_offset = 0
  /\ reader' = IF i = 0 THEN NewReader(file, 0, 0) ELSE IndexReader(file, i)
  /\ from' = i
  /\ UNCHANGED <<entries, file, mode>>

Advance ==
  /\ reader # Broken /\ ~reader.at_eof /\ ~reader.failed
  /\ reader' = ReadNextIndexEntry(file, reader)
  /\ UNCHANGED <<entries, file, mode, from>>

Next == \/ CloseFile \/ Advance
        \/ \E k \in 0..MaxEntries, v \in Values: WriteNext(k, v)
        \/ \E i \in 0..Len(file.index), h \in 0..Len(file.heap): Crash(i, h)
        \/ \E i \in 0..MaxEntries: Open(i)

Spec == Init /\ [][Next]_vars

(* What a reader says is what was written, entry by entry; a closed file is *)
(* read to the end without a fault, and what a crash has left to some entry *)
(* whose successor's fault is noticed.                                      *)
ReadersSeeTheFile ==
  reader # Broken =>
    /\ ~reader.at_eof /\ ~reader.failed =>
         reader.key = KeyBytes(entries[reader.position].key) /\
         reader.value = entries[reader.position].value
    /\ mode = "closed" => ~reader.failed
    /\ reader.at_eof => reader.position = Len(file.index)

(* A search finds what it is for: one of the wanted entries, the first of   *)
(* them or the last, and nothing only if there is none. (The first and last *)
(* are not always found: the search may be endless, or an assertion fail.)  *)
Before(lo, hi, key) == IF Len(key) < lo THEN -1 ELSE IF Len(key) > hi THEN 1 ELSE 0
Modes == {"FIND_ANY", "FIND_FIRST", "FIND_LAST"}
SearchesFind ==
  mode = "closed" => \A lo \in 0..MaxEntries: \A hi \in lo..MaxEntries, how \in Modes:
    LET r == FindIndex(file, [key \in {KeyBytes(k): k \in 0..MaxEntries} |->
                                Before(lo, hi, key)], how)
        wanted == {i \in DOMAIN entries: entries[i].key \in lo..hi}
        right == {i \in wanted: \A j \in wanted: /\ how = "FIND_FIRST" => i <= j
                                                 /\ how = "FIND_LAST" => i >= j}
    IN  CASE r.how = "found" -> r.index + 1 \in right
          [] r.how = "none" -> wanted = {}
          [] OTHER -> Careful /\ how # "FIND_ANY"

=============================================================================
