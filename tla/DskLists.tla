------------------------------- MODULE DskLists -------------------------------
(***************************************************************************)
(* The linked structures and array algorithms that are macros of dsk/:      *)
(* stacks, queues, lists and rings of dsk-list-macros.h, DSK_QSORT and      *)
(* DSK_QSELECT of dsk-qsort-macro.h, heaps of dsk-priority-queue-macros.h.  *)
(* A chain is the two ends and the next and prev fields of every node; a    *)
(* list macro is applied to the other end by swapping its arguments, here   *)
(* by Mirrored. Sorting compares keys.                                      *)
(***************************************************************************)
EXTENDS Naturals, Integers, Sequences, SequencesExt

CONSTANTS Links,                \* the addresses of nodes
          NULL,
          SortThreshold,        \* DSK_INSERTION_SORT_THRESHOLD
          MaxTurns              \* bound: the turns of a loop

EmptyChain == [first |-> NULL, last |-> NULL,
               next |-> [n \in Links |-> NULL], prev |-> [n \in Links |-> NULL]]

Mirrored(c) == [first |-> c.last, last |-> c.first, next |-> c.prev, prev |-> c.next]

(* A loop of the macros: turns are taken as long as Goes says, and are over *)
(* after MaxTurns. At[i] holds the one state after i turns.                 *)
Repeat(Goes(_), Turn(_), st) ==
  LET At[i \in 0..MaxTurns] ==
        IF i = 0 THEN {st} ELSE {IF Goes(u) THEN Turn(u) ELSE u : u \in At[i - 1]}
  IN  CHOOSE u \in At[MaxTurns]: TRUE

-----------------------------------------------------------------------------
(* Stacks: first is the top. *)

StackPush(c, n) == [c EXCEPT !.next[n] = c.first, !.first = n]
StackPop(c) == [c EXCEPT !.first = c.next[c.first]]
StackInsertAfter(c, above, n) == [c EXCEPT !.next[n] = c.next[above], !.next[above] = n]

StackReverse(c) ==
  LET Turn(st) == [at |-> st.chain.next[st.at], prev |-> st.at,
                   chain |-> [st.chain EXCEPT !.next[st.at] = st.prev]]
      Top(end) == [end.chain EXCEPT !.first = end.prev]
  IN  Top(Repeat(LAMBDA st: st.at # NULL, Turn, [at |-> c.first, prev |-> NULL, chain |-> c]))

StackGetBottom(c) ==
  IF c.first = NULL THEN NULL
  ELSE Repeat(LAMBDA n: c.next[n] # NULL, LAMBDA n: c.next[n], c.first)

(* _DSK_MERGE_NONEMPTY_LISTS: a and b are the heads of sorted lists; in a   *)
(* tie the node of a goes first.                                            *)
MergeHead(key, a, b) == IF key[a] <= key[b] THEN a ELSE b

Taken(st, n) == [st EXCEPT !.a = IF n = @ THEN st.next[n] ELSE @,
                             !.b = IF n = @ THEN st.next[n] ELSE @, !.at = n]
MergeTurn(key, st) ==
  LET Linked(n) == [Taken(st, n) EXCEPT !.next[st.at] = n] IN Linked(MergeHead(key, st.a, st.b))

MergeNonemptyLists(key, next, a, b) ==
  LET Rest(st) == Repeat(LAMBDA u: u.a # NULL /\ u.b # NULL, LAMBDA u: MergeTurn(key, u), st)
      Ended(out, st) ==
        [head |-> out, next |-> [st.next EXCEPT ![st.at] = IF st.a # NULL THEN st.a ELSE st.b]]
      From(out) == Ended(out, Rest(Taken([at |-> NULL, next |-> next, a |-> a, b |-> b], out)))
  IN  From(MergeHead(key, a, b))

(* DSK_STACK_SORT_: sorted pairs are merged up a stack whose place i holds  *)
(* a list of 2^(i+1) nodes or nothing.                                      *)
SortedPair(key, next, a, b) ==
  IF b = NULL THEN [head |-> a, next |-> [next EXCEPT ![a] = NULL], rest |-> NULL]
  ELSE IF key[a] > key[b]
       THEN [head |-> b, next |-> [next EXCEPT ![b] = a, ![a] = NULL], rest |-> next[b]]
       ELSE [head |-> a, next |-> [next EXCEPT ![b] = NULL], rest |-> next[b]]

MergeUp(key, st) ==
  LET Merged(u, two) == [u EXCEPT !.i = @ + 1, !.stack[u.i] = NULL,
                                  !.head = two.head, !.next = two.next]
      Turn(u) == Merged(u, MergeNonemptyLists(key, u.next, u.stack[u.i], u.head))
      Placed(u) == [next |-> u.next, at |-> u.rest,
                    stack |-> IF u.i > Len(u.stack) THEN Append(u.stack, u.head)
                              ELSE [u.stack EXCEPT ![u.i] = u.head]]
  IN  Placed(Repeat(LAMBDA u: u.i <= Len(u.stack) /\ u.stack[u.i] # NULL, Turn, st))

MergePair(key, st) ==
  LET With(pair) == [i |-> 1, stack |-> st.stack, head |-> pair.head, next |-> pair.next,
                     rest |-> pair.rest]
  IN  MergeUp(key, With(SortedPair(key, st.next, st.at, st.next[st.at])))

Combine(key, st, i) ==
  LET Merged(two) == [st EXCEPT !.head = two.head, !.next = two.next]
  IN  IF st.stack[i] = NULL THEN st
      ELSE IF st.head = NULL THEN [st EXCEPT !.head = st.stack[i]]
      ELSE Merged(MergeNonemptyLists(key, st.next, st.stack[i], st.head))

StackSort(key, c) ==
  LET Pairs == Repeat(LAMBDA st: st.at # NULL, LAMBDA st: MergePair(key, st),
                      [at |-> c.first, next |-> c.next, stack |-> <<>>])
      Turn(st) == [Combine(key, st, st.i) EXCEPT !.i = @ + 1]
      All(st) == Repeat(LAMBDA u: u.i <= Len(u.stack), Turn,
                        [i |-> 1, head |-> NULL, stack |-> st.stack, next |-> st.next])
      Sorted(st) == [c EXCEPT !.first = st.head, !.next = st.next]
  IN  Sorted(All(Pairs))

-----------------------------------------------------------------------------
(* Queues *)

QueueEnqueue(c, n) ==
  [IF c.last # NULL THEN [c EXCEPT !.next[c.last] = n] ELSE [c EXCEPT !.first = n]
     EXCEPT !.last = n, !.next[n] = NULL]
QueueDequeue(c) ==
  IF c.first = NULL THEN c
  ELSE [StackPop(c) EXCEPT !.last = IF c.next[c.first] = NULL THEN NULL ELSE @]
QueuePrepend(c, n) ==
  [StackPush(c, n) EXCEPT !.last = IF c.last = NULL THEN n ELSE @]
QueueReverse(c) == [StackReverse(c) EXCEPT !.last = c.first]
QueueSort(key, c) ==
  LET Ended(sorted) == [sorted EXCEPT !.last = StackGetBottom(sorted)] IN Ended(StackSort(key, c))

-----------------------------------------------------------------------------
(* Lists *)

ListPrepend(c, n) ==
  [IF c.first # NULL THEN [c EXCEPT !.prev[c.first] = n] ELSE [c EXCEPT !.last = n]
     EXCEPT !.next[n] = c.first, !.prev[n] = NULL, !.first = n]
ListAppend(c, n) == Mirrored(ListPrepend(Mirrored(c), n))

ListRemoveFirst(c) ==
  LET Rest(d) == IF d.first = NULL THEN [d EXCEPT !.last = NULL] ELSE [d EXCEPT !.prev[d.first] = NULL]
  IN  Rest(StackPop(c))
ListRemoveLast(c) == Mirrored(ListRemoveFirst(Mirrored(c)))

ListRemove(c, n) ==
  LET Behind(d) == IF c.prev[n] # NULL THEN [d EXCEPT !.next[c.prev[n]] = c.next[n]]
                   ELSE [d EXCEPT !.first = c.next[n]]
      Ahead(d) == IF c.next[n] # NULL THEN [d EXCEPT !.prev[c.next[n]] = c.prev[n]]
                  ELSE [d EXCEPT !.last = c.prev[n]]
  IN  Ahead(Behind(c))

ListInsertAfter(c, at, n) ==
  [IF c.next[at] # NULL THEN [c EXCEPT !.prev[c.next[at]] = n] ELSE [c EXCEPT !.last = n]
     EXCEPT !.prev[n] = at, !.next[n] = c.next[at], !.next[at] = n]
ListInsertBefore(c, at, n) == Mirrored(ListInsertAfter(Mirrored(c), at, n))

ListReverse(c) ==
  LET Turn(st) == [at |-> st.chain.next[st.at],
                   chain |-> [st.chain EXCEPT !.next[st.at] = st.chain.prev[st.at],
                                              !.prev[st.at] = st.chain.next[st.at]]]
  IN  Repeat(LAMBDA st: st.at # NULL, Turn,
             [at |-> c.first, chain |-> [c EXCEPT !.first = c.last, !.last = c.first]]).chain

(* Down the next fields from at, prev fields are set again. *)
Relinked(c, at, prev) ==
  LET Turn(st) == [at |-> st.chain.next[st.at], prev |-> st.at,
                   chain |-> [st.chain EXCEPT !.prev[st.at] = st.prev]]
  IN  Repeat(LAMBDA st: st.at # NULL, Turn, [at |-> at, prev |-> prev, chain |-> c])

ListSort(key, c) ==
  LET Ended(linked) == [linked.chain EXCEPT !.last = linked.prev]
      Linked(sorted) == Relinked(sorted, sorted.first, NULL)
  IN  Ended(Linked(StackSort(key, c)))

-----------------------------------------------------------------------------
(* Rings have no last: the first's prev is the last, whose next is the first.*)

RingAlone(c, n) == [c EXCEPT !.prev[n] = n, !.next[n] = n]
RingBetween(c, n, before, after) ==
  [c EXCEPT !.prev[n] = before, !.next[n] = after, !.next[before] = n, !.prev[after] = n]

RingAppend(c, n) == IF c.first = NULL THEN [RingAlone(c, n) EXCEPT !.first = n]
                    ELSE RingBetween(c, n, c.prev[c.first], c.first)
RingPrepend(c, n) == [RingAppend(c, n) EXCEPT !.first = n]
RingInsertAfter(c, at, n) == RingBetween(c, n, at, c.next[at])
RingInsertBefore(c, at, n) ==
  IF at = c.first THEN RingPrepend(c, n) ELSE RingInsertAfter(c, c.prev[at], n)

(* The first stays the first; it is the others that come in reverse. *)
RingReverse(c) ==
  LET Swapped(d, n) == [d EXCEPT !.prev[n] = d.next[n], !.next[n] = d.prev[n]]
      Turn(st) == [at |-> st.chain.next[st.at], chain |-> Swapped(st.chain, st.at)]
      Ended(st) == Swapped(st.chain, st.at)
  IN  IF c.first = NULL THEN c
      ELSE Ended(Repeat(LAMBDA st: st.at # c.prev[c.first], Turn, [at |-> c.first, chain |-> c]))

RingSort(key, c) ==
  LET Closed(d, last) == [d EXCEPT !.prev[d.first] = last, !.next[last] = d.first]
      Ended(linked) == Closed(linked.chain, linked.prev)
      Linked(sorted) == Relinked(sorted, sorted.next[sorted.first], sorted.first)
  IN  IF c.first = NULL THEN c
      ELSE Ended(Linked(StackSort(key, [c EXCEPT !.next[c.prev[c.first]] = NULL])))

-----------------------------------------------------------------------------
(* Arrays are sequences; an interval is [start, len] with start from 0. *)

Swap(a, i, j) == [a EXCEPT ![i] = a[j], ![j] = a[i]]

(* DSK_INSERTION_SORT: the smallest of the rest is swapped into its place. *)
InsertionSort(key, a, start, len) ==
  LET Least(b, i) == LET Turn(st) == [j |-> st.j + 1, at |-> IF key[b[st.at]] > key[b[st.j]] THEN st.j ELSE st.at]
                     IN  Repeat(LAMBDA st: st.j <= start + len, Turn, [j |-> i + 1, at |-> i]).at
      Turn(st) == [i |-> st.i + 1, a |-> Swap(st.a, Least(st.a, st.i), st.i)]
  IN  Repeat(LAMBDA st: st.i < start + len, Turn, [i |-> start + 1, a |-> a]).a

(* The first, the middle and the last element in order. *)
MedianOfThree(key, a, lo, mid, hi) ==
  LET Below(i, j) == key[a[i]] < key[a[j]]
      Put(x, y, z) == [a EXCEPT ![lo] = a[x], ![mid] = a[y], ![hi] = a[z]]
  IN  IF Below(lo, mid)
      THEN IF ~Below(hi, mid) THEN a
           ELSE IF ~Below(hi, lo) THEN Put(lo, hi, mid) ELSE Put(hi, lo, mid)
      ELSE IF ~Below(mid, hi) THEN Put(hi, mid, lo)
           ELSE IF ~Below(lo, hi) THEN Put(mid, hi, lo) ELSE Put(mid, lo, hi)

(* One exchange across the pivot, which may itself be one of the two. *)
Exchange(st) ==
  [a |-> Swap(st.a, st.i, st.j), i |-> st.i + 1, j |-> st.j - 1, stop |-> FALSE,
   pivot |-> IF st.i = st.pivot THEN st.j ELSE IF st.j = st.pivot THEN st.i ELSE st.pivot]

Met(st, i, j) ==
  LET At(stop) == [st EXCEPT !.i = IF stop THEN i + 1 ELSE i, !.j = IF stop THEN j - 1 ELSE j,
                             !.stop = stop]
  IN  IF i < j THEN Exchange(At(FALSE)) ELSE At(i = j)

Scan(key, st) ==
  Met(st, Repeat(LAMBDA x: key[st.a[x]] < key[st.a[st.pivot]], LAMBDA x: x + 1, st.i),
          Repeat(LAMBDA x: key[st.a[st.pivot]] < key[st.a[x]], LAMBDA x: x - 1, st.j))

Partition(key, a, node) ==
  LET lo == node.start + 1
      hi == node.start + node.len
      mid == node.start + (node.len \div 2) + 1
      Parts(end) == [a |-> end.a, left |-> [start |-> node.start, len |-> end.j - lo + 1],
                     right |-> [start |-> end.i - 1, len |-> hi - end.i + 1]]
  IN  Parts(Repeat(LAMBDA st: ~st.stop /\ st.i <= st.j, LAMBDA st: Scan(key, st),
                   [a |-> MedianOfThree(key, a, lo, mid, hi), i |-> lo + 1, j |-> hi - 1,
                    pivot |-> mid, stop |-> FALSE]))

(* A part short enough is sorted at once, a longer one is put on the stack; *)
(* the shorter of the two goes on top.                                      *)
Later(key, st, part) ==
  IF part.len > SortThreshold THEN [st EXCEPT !.stack = Append(@, part)]
  ELSE [st EXCEPT !.a = InsertionSort(key, @, part.start, part.len)]

BothLater(key, st, big, small) == Later(key, Later(key, st, big), small)

SortParts(key, parts, stack) ==
  IF parts.left.len < parts.right.len
  THEN BothLater(key, [a |-> parts.a, stack |-> stack], parts.right, parts.left)
  ELSE BothLater(key, [a |-> parts.a, stack |-> stack], parts.left, parts.right)

SortTurn(key, st) ==
  SortParts(key, Partition(key, st.a, st.stack[Len(st.stack)]), SubSeq(st.stack, 1, Len(st.stack) - 1))

Qsort(key, a) ==
  IF Len(a) <= SortThreshold THEN InsertionSort(key, a, 0, Len(a))
  ELSE Repeat(LAMBDA st: st.stack # <<>>, LAMBDA st: SortTurn(key, st),
              [a |-> a, stack |-> <<[start |-> 0, len |-> Len(a)]>>]).a

(* DSK_QSELECT: what lies behind the first n_select is left as it is. *)
SelectParts(key, n_select, parts, stack) ==
  IF parts.right.start >= n_select
  THEN Later(key, [a |-> parts.a, stack |-> stack], parts.left)
  ELSE SortParts(key, parts, stack)

SelectTurn(key, n_select, st) ==
  SelectParts(key, n_select, Partition(key, st.a, st.stack[Len(st.stack)]),
              SubSeq(st.stack, 1, Len(st.stack) - 1))

Qselect(key, a, n_select) ==
  IF Len(a) <= SortThreshold THEN InsertionSort(key, a, 0, Len(a))
  ELSE Repeat(LAMBDA st: st.stack # <<>>, LAMBDA st: SelectTurn(key, n_select, st),
              [a |-> a, stack |-> <<[start |-> 0, len |-> Len(a)]>>]).a

-----------------------------------------------------------------------------
(* Heaps: the parent of place i is place i \div 2. *)

HeapAdd(key, a, v) ==
  LET Turn(st) == [at |-> st.at \div 2, a |-> Swap(st.a, st.at, st.at \div 2)]
  IN  Repeat(LAMBDA st: st.at > 1 /\ key[st.a[st.at \div 2]] > key[st.a[st.at]], Turn,
             [at |-> Len(a) + 1, a |-> Append(a, v)]).a

(* The least of a place and its children. *)
LeastChild(key, a, i) ==
  LET Of(x, y) == IF y <= Len(a) /\ key[a[x]] > key[a[y]] THEN y ELSE x
  IN  Of(Of(i, 2 * i), 2 * i + 1)

(* DSK_PRIORITY_QUEUE_REMOVE_, whose index is not used: it is the first     *)
(* that goes, its place is taken by the last, and that sinks.               *)
HeapRemoveMin(key, a) ==
  LET last == SubSeq(a, 1, Len(a) - 1)
      Sunk(st, to) == [at |-> to, a |-> Swap(st.a, st.at, to)]
  IN  IF last = <<>> THEN last
      ELSE Repeat(LAMBDA st: LeastChild(key, st.a, st.at) # st.at,
                  LAMBDA st: Sunk(st, LeastChild(key, st.a, st.at)),
                  [at |-> 1, a |-> [last EXCEPT ![1] = a[Len(a)]]]).a

-----------------------------------------------------------------------------
(* A stack, a queue, a list, a ring, an array or a heap of a few nodes,     *)
(* under every sequence of its operations, beside the sequence it stands    *)
(* for. A node that is not linked has fields that point to itself, which no *)
(* operation may follow.                                                    *)

CONSTANT MaxItems       \* bound: the elements of an array or a heap

VARIABLES kind, chain, order

vars == <<kind, chain, order>>

(* Pairs of nodes have the same key.                                        *)
SortKey == [n \in Links |-> (n + 1) \div 2]

Unlinked(c, n) == [c EXCEPT !.next[n] = n, !.prev[n] = n]

Init ==
  /\ kind \in {"stack", "queue", "list", "ring", "array", "heap"}
  /\ chain = [EmptyChain EXCEPT !.next = [n \in Links |-> n], !.prev = [n \in Links |-> n]]
  /\ order = <<>>

RECURSIVE ByKey(_, _)
ByKey(s, k) == IF k > Cardinality(Links) THEN <<>>
               ELSE SelectSeq(s, LAMBDA n: SortKey[n] = k) \o ByKey(s, k + 1)
StablySorted(s) == ByKey(s, 0)

Becomes(c, s) == chain' = c /\ order' = s /\ UNCHANGED kind

New(n) == n \in Links \ Range(order)
Last1(s) == s[Len(s)]

Stack(n) ==
  /\ kind = "stack"
  /\ \/ New(n) /\ Becomes(StackPush(chain, n), <<n>> \o order)
     \/ order # <<>> /\ n = order[1] /\ Becomes(Unlinked(StackPop(chain), n), Tail(order))
     \/ \E i \in DOMAIN order:
          New(n) /\ Becomes(StackInsertAfter(chain, order[i], n), InsertAt(order, i + 1, n))
     \/ n = NULL /\ Becomes(StackReverse(chain), Reverse(order))
     \/ n = NULL /\ Becomes(StackSort(SortKey, chain), StablySorted(order))

Queue(n) ==
  /\ kind = "queue"
  /\ \/ New(n) /\ Becomes(QueueEnqueue(chain, n), Append(order, n))
     \/ New(n) /\ Becomes(QueuePrepend(chain, n), <<n>> \o order)
     \/ order # <<>> /\ n = order[1] /\ Becomes(Unlinked(QueueDequeue(chain), n), Tail(order))
     \/ n = NULL /\ Becomes(QueueReverse(chain), Reverse(order))
     \/ n = NULL /\ Becomes(QueueSort(SortKey, chain), StablySorted(order))

List(n) ==
  /\ kind = "list"
  /\ \/ New(n) /\ Becomes(ListPrepend(chain, n), <<n>> \o order)
     \/ New(n) /\ Becomes(ListAppend(chain, n), Append(order, n))
     \/ order # <<>> /\ n = order[1] /\ Becomes(Unlinked(ListRemoveFirst(chain), n), Tail(order))
     \/ order # <<>> /\ n = Last1(order) /\ Becomes(Unlinked(ListRemoveLast(chain), n), Front(order))
     \/ n \in Range(order) /\ Becomes(Unlinked(ListRemove(chain, n), n), SelectSeq(order, LAMBDA m: m # n))
     \/ \E i \in DOMAIN order:
          New(n) /\ \/ Becomes(ListInsertAfter(chain, order[i], n), InsertAt(order, i + 1, n))
                    \/ Becomes(ListInsertBefore(chain, order[i], n), InsertAt(order, i, n))
     \/ n = NULL /\ Becomes(ListReverse(chain), Reverse(order))
     \/ n = NULL /\ Becomes(ListSort(SortKey, chain), StablySorted(order))

Ring(n) ==
  /\ kind = "ring"
  /\ \/ New(n) /\ Becomes(RingPrepend(chain, n), <<n>> \o order)
     \/ New(n) /\ Becomes(RingAppend(chain, n), Append(order, n))
     \/ \E i \in DOMAIN order:
          New(n) /\ \/ Becomes(RingInsertAfter(chain, order[i], n), InsertAt(order, i + 1, n))
                    \/ Becomes(RingInsertBefore(chain, order[i], n), InsertAt(order, i, n))
     \/ n = NULL /\ order # <<>> /\ Becomes(RingReverse(chain), <<order[1]>> \o Reverse(Tail(order)))
     \/ n = NULL /\ Becomes(RingSort(SortKey, chain), StablySorted(order))

Array(n) ==
  kind = "array" /\ Len(order) < MaxItems /\ Becomes(chain, Append(order, n))

Heap(n) ==
  /\ kind = "heap"
  /\ \/ Len(order) < MaxItems /\ Becomes(chain, HeapAdd(SortKey, order, n))
     \/ order # <<>> /\ n = order[1] /\ Becomes(chain, HeapRemoveMin(SortKey, order))

Next == \/ \E n \in Links: Array(n) \/ Heap(n) \/ Stack(n) \/ Queue(n) \/ List(n) \/ Ring(n)
        \/ Stack(NULL) \/ Queue(NULL) \/ List(NULL) \/ Ring(NULL)

Spec == Init /\ [][Next]_vars

-----------------------------------------------------------------------------

(* Following next from the first visits the nodes in order and ends.        *)
Walked(c, s) ==
  /\ c.first = IF s = <<>> THEN NULL ELSE s[1]
  /\ \A i \in DOMAIN s: c.next[s[i]] = IF i = Len(s) THEN NULL ELSE s[i + 1]

InARing(c, s) ==
  /\ c.first = IF s = <<>> THEN NULL ELSE s[1]
  /\ \A i \in DOMAIN s: LET after == s[(i % Len(s)) + 1]
                        IN  c.next[s[i]] = after /\ c.prev[after] = s[i]

InOrder(s) == \A i \in 1..Len(s) - 1: SortKey[s[i]] <= SortKey[s[i + 1]]
SameItems(s, t) ==
  \A n \in Links: Len(SelectSeq(s, LAMBDA m: m = n)) = Len(SelectSeq(t, LAMBDA m: m = n))

Selected(s, n_select) ==
  LET t == Qselect(SortKey, s, n_select)
      first == SubSeq(t, 1, n_select)
  IN  SameItems(s, t) /\ InOrder(first)
      /\ \A i \in 1..n_select, j \in n_select + 1..Len(t): SortKey[t[i]] <= SortKey[t[j]]

(* The links say the order that the operations amount to, whichever way     *)
(* they are followed; sorts of linked nodes are stable.                     *)
LinksSayOrder ==
  /\ kind \in {"stack", "queue", "list"} => Walked(chain, order)
  /\ kind = "queue" => chain.last = IF order = <<>> THEN NULL ELSE Last1(order)
  /\ kind = "list" => Walked(Mirrored(chain), Reverse(order))
  /\ kind = "ring" => InARing(chain, order)

(* An array is sorted, or its least elements are, and none is lost; a heap  *)
(* has a least element first, with every operation.                         *)
SortsAgree ==
  /\ kind = "array" =>
       /\ InOrder(Qsort(SortKey, order)) /\ SameItems(order, Qsort(SortKey, order))
       /\ \A k \in 1..Len(order): Selected(order, k)
  /\ kind = "heap" => \A i \in 2..Len(order): SortKey[order[i \div 2]] <= SortKey[order[i]]
=============================================================================
