# Specifications of dbcc and its runtime library

This directory holds TLA+ models of the program in `src/`, the TLC
configurations that check them on small instances, and proofs, checked by
TLAPS, for all values of the constants.

`dbcc` is two programs in one tree. `src/dbcc-*.c` is the front end of a C
compiler, unfinished. `src/dsk/` (326 files, three quarters of the lines) is
the library it is built on and by far the older and larger part: an
event-driven runtime with one thread, in which everything happens in callbacks
of one loop. The hard behaviour is there: callbacks that call back into the
table that is being walked, descriptors and memory reused in the same turn,
timers against answers, datagrams that are lost, streams that wait for each
other, a store on disk that must survive the end of its process. So the models
are of the library first. Of the compiler its types and the folding of its
expressions are modelled; it cannot run yet, as `APPEND_TOKEN`
(`dbcc-parser.c:2117`) stores a token only when the token array is full.

## 1. Inventory

| component (files) | state | operations | hard behaviour | model |
|---|---|---|---|---|
| event loop (`dsk-dispatch.c`, `dsk-main.c`) | `notifies_desired` and `changes`, dense arrays; `fd_map` with an index into each per descriptor; timer tree, list of expired timers, idle list; the public `has_idle`, `has_timeout`, `timeout` | watch, unwatch, close a descriptor; add, adjust, remove a timer; add, remove an idle function; one turn of the loop | every callback may call all operations, in the middle of each of the loop's walks; descriptor numbers and timers' memory are reused at once | `DskFds`, `DskTimers`, `DskDispatch` |
| red-black trees (`dsk-rbtree-macros.h`) | linked nodes with colours | insert, remove, first, last, next, previous, lookups | eight mirrored cases of rebalancing | `DskRbtree` |
| hooks (`dsk-hook.c`, `.h`) | main trap and list of traps, 16-bit count of active traps, idle list with a guard | trap, block, unblock, destroy, notify, set idle, clear | traps that end, block or destroy themselves or others while they are called; nested notification | `DskHook` |
| DNS client (`dsk-dns-client.c`) | cache by name, a job per unanswered name with its waiters, queue of jobs that wait to send | lookup, answer, timeout, socket writable | datagrams lost, late, repeated; retries; alias circles; lookups from callbacks | `DskDns` |
| persistent table (`dsk-table.c`, `dsk-table-checkpoint-trivial.c`) | tree in memory, journal, files in order of time, running and possible merges, defunct files | insert, lookup, open, destroy | end of the process between any two steps; merges across flushes; failures of single steps | `DskTable` |
| table files (`dsk-table-file-trivial.c`) | index and heap file | write, read from an entry on, binary search | boundaries of the search, files cut short | `DskTableFile` |
| client stream (`dsk-client-stream.c`) | connection, DNS lookup, reconnect and idle timers | connect, disconnect, set timeouts, shut down | timers against connection events, calls from the disconnect hook | `DskClientStream` |
| octet pipe, memory source, connection, filter source | bounded buffers and two hooks each | write, read, shut down, disconnect | flow control: each side waits for the other's hook | `DskStream` |
| HTTP streams (`dsk-http-client-stream.c`, `dsk-http-server-stream.c`) | transfers in order on a connection, bodies chunked, counted or up to the end | request, respond, shut down | pipelining, answers out of order, errors in the middle of a body | `DskHttpWire`, `DskHttpClientStream`, `DskHttpServerStream`, `DskHttp` |
| HTTP server (`dsk-http-server.c`) | tree of matches with handlers, a state per request | respond, fail, redirect, pass, at once or later | handlers that answer in their own call, clients that leave, server destroyed | `DskHttpServer` |
| HTTP headers (`dsk-http-header-*.c`) | | make, print, parse | bounds of the slabs | `DskHttpHeader` |
| DNS messages (`dsk-dns-protocol.c`) | | pack with compressed names, parse | messages cut short, pointers | `DskDnsMessage` |
| buffers (`dsk-buffer.c`, `dsk-buffer-fragment.c`) | linked fragments, some foreign, some recycled | append, read, peek, discard, transfer, search, placeholders | fragments at their ends, ownership | `DskBuffer` |
| codecs and digests | state of a filter between two pieces | process, finish | pieces cut anywhere | `DskFilters`, `DskFeeds` |
| JSON, XML, multipart, dates, URLs, templates, command lines, patterns | parser states | feed, print | pieces, spoilt texts, boundaries | `DskJson`, `DskXml`, `DskFeeds`, `DskText`, `DskPattern` |
| lists, rings, sorts, heaps (`dsk-list-macros.h` and others) | linked nodes, arrays | all macros | thresholds, ties | `DskLists` |
| compiler: types, expressions, constants | types, values as bytes | layouts, conversions, folding, initializers, switch cases | widths, signs, padding | `DbccType`, `DbccExpr` |
| objects (`dsk-object.c`) | reference counts, finalizers, weak pointers | | finalizers that untrap each other | no |
| compressed table files, TLS, processes, files, threads, drafts, compiler front, generated code | | | data formats, wrappers, stubs, unfinished or vendored code | no |

How they interact. The loop is the only source of calls: descriptors, timers
and idle functions. Hooks run their idle list as an idle function of the loop
and ask it, through `set_poll`, to watch descriptors. The DNS client has one
watched socket per address family, a timer per job, and calls its users from
both; the client stream waits for it and for timers. Sources and sinks tell
their users through hooks; the HTTP streams are users of a source and a sink,
and the HTTP server is a user of server streams. The table is used by calls
alone, and shares the directory with the process that comes after it.

Correctness, per component: the loop calls exactly what is registered and never
sleeps on work; a hook counts its active traps, polls exactly while it has
some, and touches no trap that is gone; the DNS client calls every caller once;
the table never loses a value, neither to a merge nor to the end of the
process; a chain of streams neither loses nor moves an octet and never stands
still with work left; a client stream does one thing at a time and keeps
trying; an HTTP request gets its own answer, and lives exactly as long as it is
needed; what is printed reads back, and what is fed in pieces gives what it
gives whole. `PROJECT.json` lists the hazards behind these, each at its line.

## 2. Plan

1. The loop and its trees, with `WatchContract` and `TimerContract`. Done.
2. `DskHook`, `DskDns` with its own network, `DskTable`. Done.
3. Streams: `DskStream`, `DskClientStream`, the HTTP streams with the abstract
   `HttpContract`, `DskHttpServer`. Done.
4. Everything that happens between a call and its return, each part against a
   plain definition, in one run (`library`). Done for the parts listed above.
5. Proofs: the loop with its trees and both refinements, hooks, DNS client, table,
   client stream, stream chain, HTTP server's requests. Done; section 5 says what is left.
6. Left: objects and their finalizers; memory pools; the `#if` stack of the
   compiler, once its parser runs; sockets that listen.

## 3. Modules

A state variable has the name of the C field it stands for, and an operator the
name of its function in CamelCase, unless its comment says otherwise. `map` in
`PROJECT.json` gives the lines of each definition. An operator called *mutant*
in its comment is a plausible mistake that some property must catch; it is used
by nothing in the model.

**`DskRbtree`** has the insertion and removal macros on a tree of addresses, with
the rotations as they are written, and the lookups and the counting variant.

**`DskFds`**: `notifies_desired`, `changes` and `fd_map` (`notify_desired_index`,
`change_index`, `closed_since_notify_started`; 0 stands for the index -1). It
includes `deallocate_change_index` as it is, with its wrong index.
**`DskTimers`**: timers and idle functions over `DskRbtree`.
**`DskDispatch`** composes both with the loop. One turn is `Run` (poll, with any
report the system may give), then per callback a step that starts it (`Notify`,
`RunIdle`, `RunTimer`) and one that returns from it; while `running` is not
`NoCallback`, any operation is a step of that callback. `fault` records what C
does not survive, a failed assertion or a node removed from a tree it is not
in, and the model ends there.
**`WatchContract`** and **`TimerContract`** say what the loop promises, without
tables; `DskDispatch` implements both under the mappings written next to
`KeepsWatchContract` and `KeepsTimerContract`.

**`DskHook`**: `stack` holds the calls of `dsk_hook_notify` in progress, with the
place each is at, so that nested notifications interleave as on the C stack. A
trap is named by its registration.

**`DskDns`**: a name stands for a (domain, address family) pair, and the cache is
keyed by names, as the code's tree is until a domain has entries of both
families: `TreesBroken` says when the trees no longer are what they should be,
and the model ends there (fault "corrupt"). `sent` keeps every
datagram for ever, and its nameserver may answer it any time, any number of
times, or never: loss, repetition, delay and reordering in one. The waiters of
an answered job are called one by one, and each may look up again. `Follow`
walks the aliases in the cache; its second argument is what is left of
`MAX_CNAMES`.

**`DskTable`**: the disk is `contents` and `present` (files by id), `cp` and
`new_cp`. A call of `dsk_table_insert` is a sequence of steps with `pc` at the
points where the disk changes: journal, dump, new checkpoint, rename, deletion
of defunct files, then up to `MergeSteps` steps of the first running merge.
`Stop` may come between any two of them; `dsk_table_destroy` is a `Stop` too, as
it saves nothing. `log` is a history variable: the keys inserted; the value of
the i-th insertion is i. Ranges of `log` say what a file ought to contain.

**`DskStream`** is the chain producer, pipe, filter source, connection, pipe,
consumer. Each hook keeps whether it is to be notified when the loop is idle
and whether its trap is there and not blocked; that such a hook is notified is
`IdleHooksNotified` of `DskHook`. An octet is the number of its position.

**`DskClientStream`**: one stream from its making to its end, with the lookup,
the descriptor and the two timers as fields; its name is one to look up, an
address, or a path too long for a local socket. `up` is the other end; the program
may change times and traps between any two callbacks, and also while the
disconnect hook runs.

**`DskHttpWire`** has the tokens on a connection (a header, a chunk's head, an
octet, the end of a body), **`DskHttpClientStream`** and **`DskHttpServerStream`**
the handlers of both ends, and **`DskHttp`** puts them on a connection of bounded
queues. `MCDskHttp` gives the scripts of requests and the answers. A header is
one token: whether headers survive printing and parsing is `DskHttpHeader`'s
question. **`HttpContract`** is the abstract specification: requests are asked, begun,
answered in order, and ended once; of answers whose end no header tells
(`framed` is `FALSE`) it says what the code makes of them.

**`DskHttpServer`** is the layer above: for every tree of matches, which handlers
are tried for a request and in which order, and when the request is freed.
`calls` holds the handlers being called, since a handler may answer in its own
call, later, or never.

**`DskBuffer`** has the calls on buffers as functions of a memory of fragments;
it implements **`ByteQueues`**, in which a buffer is a sequence of bytes
(`KeepsByteQueues`). Its runs need the view `View`, which leaves out the numbers
of the fragments.

The rest are modules of functions, each with the definition that its results
are compared with: `DskFilters` and `DskFeeds` (what is fed in pieces),
`DskJson`, `DskXml`, `DskPattern`, `DskDnsMessage`, `DskTableFile`, `DskLists`,
`DskText`, `DskHttpHeader`, `DbccType`, `DbccExpr`. `MCDskRbtree`, `MCDskFilters`,
`MCDskText` and `MCDbcc` have the inputs where the module itself does not, and
`MCDskLibrary` runs one part after another: `part` says which, and each part
starts from its own initial states.

### Careful

Some of these components have faults that break what they promise, and beyond
which a model of the rest could say nothing. There the module describes the
code as it is, and a constant `Careful` says whether inputs and callbacks stay
away from the known faults: with `Careful = TRUE`, as in the `.cfg` files of
`hooks`, `http_server` and `library`, they do; with `FALSE` TLC runs into
them. They are listed in section 6. What a handler or a caller stays away from
is not always something it could know: the head of `DskHttpServer` lists all that
`Careful` leaves out there, clients' doings included. Where a fault cannot be avoided by a
caller, the module records it in `fault` and the model ends there.

## 4. Runs

| run | instance | distinct states | what it shows |
|---|---|---|---|
| `dispatch_fds` | 3 descriptors (symmetric), 2 events, 2 functions, 4 calls | 231 809 | the tables agree; `WatchContract` is implemented |
| `dispatch_timers` | 3 timers at 3 times, an idle function, a descriptor, 4 calls | 37 785 | `TimerContract` is implemented; the loop never sleeps on work; every timer and idle function gets its turn |
| `hooks` | 2 hooks, 3 traps, 6 calls | 173 487 | counts, polling, idle list, traps in use; idle hooks are notified |
| `dns` | 2 domains, one in both families, 4 callers, 2 nameservers, 4 attempts, 2 aliases | 137 924 | each caller is called once, even if nothing ever answers, and with what the cache says while its trees are whole |
| `table` | 2 keys, 7 insertions, a file every 2, 2 merge steps, 2 merges, 1 restart | 559 208 | no value lost while the files CP names are there, ranges exact, ids fresh, calls return |
| `streams` | 6 octets, pipes of 2 and 1, a connection of 2, a filter that holds back 1 | 12 075 | nothing lost or moved, what is written arrives, both ends are told |
| `http` | 5 scripts of up to 2 requests, 5 answers (empty, counted, chunked, up to the end of the connection, none), 2 tokens on the connection per direction | 95 048 | requests arrive whole, `HttpContract` is implemented, every request ends unless it is stuck with an answer without content |
| `client_stream` | a name, an address or a path too long, both timers of 1 or 2 ticks or off, up to 2 quiet ticks | 30 876 | one phase at a time, the idle timer kept, it keeps trying unless it is `Stopped` |
| `http_server` | every match tree of up to 3 nodes, 3 handlers, 2 requests | 261 072 | without what `Careful` leaves out: handlers tried in order, requests freed when done, answers get through |
| `library` | see below | 303 196 | what works between a call and its return |
| `dispatch_changes`, `table_files` | smaller | | findings: the code breaks what it says there |

Bounds, and why they are enough:

- Loop and hooks: `MaxCalls` bounds the calls made into them. Four calls and
  three descriptors suffice for: watch two, close the first in the second's
  callback (a swap with the last entry), watch its number again. Six calls on
  hooks allow trapping three times, blocking, ending one and clearing, nested
  two deep. Three timers at three times give ties, and a rotation that brings
  a new node to the top. `MaxTime`: the clock stops at the last time; only its
  order with the timers matters. What these bounds might hide of descriptors
  and hooks is covered by the proofs, which have none.
- DNS: the attempts are those of the code (4); `MaxCnames` is 2 instead of 16,
  enough for a circle of two names. `Tries` gives the first caller a search path;
  the last one asks for the other family of the first name.
- Table: `FlushPeriod` 2 (code: 1024) and `MergeSteps` 2 (512) keep their
  meaning: a merge of two files takes several insertions, so a flush and a
  second merge fall into it. Seven insertions make three files and one more,
  four of them a first merge. `MaxMergeJobs` 2 (16) is reached. `RatioLimit` 1
  (about 4.2) leaves some possible merges waiting, as sizes differ by at most 2.
  One restart suffices for files with `used_by_last_checkpoint`, for ids used
  again, and for journals replayed.
- Streams: every buffer is smaller than the data, and the two pipes differ, so
  each part gets full while the others are not, and the end comes with octets
  in each of them.
- Client stream: times of one and two ticks give timers that are made shorter
  and longer while they run, and `MaxQuiet` 2 lets the longer one expire.
- HTTP: two requests are pipelining; a connection of two tokens stops a header,
  a chunk's head or an octet at every place; bodies are empty, of one octet or
  of two, counted, chunked or up to the end, and their sources may fail. A `HEAD`
  comes before another request and after one. `Stuck` and `framed` name what the
  code does not do; without either exception TLC finds it.
- HTTP server: three nodes are a parent with a child and a sibling, in every
  shape, and three handlers let one pass to another and that one redirect
  (`MaxSize` bounds the tree and its handlers together).
- Library: eight nodes make both fixup loops of the trees climb more than one
  level; five items pass every threshold of the sorts (`SortThreshold` 2 for
  8); four fragments of two bytes, one kept for reuse, put the end of a fragment
  at every place of a call. Documents have up to four bytes of each filter's own
  small alphabet. Line lengths, `BlockSize` (64), the words of digests
  (`WordBits` 8 for 32, CRCs of 16 bits), the byte of integers (`ByteBits` 2) and
  `InitMiscHeaders` (1 for 8) are smaller than the code's, so that what happens
  at them happens; widths keep their order and wrapping their modulus.

`CHECK_DEADLOCK FALSE` is given where the program may really stop: it waits for
an event that does not come, all lookups are answered, a document has ended, the
bound on calls is reached, or a fault ended it.

### Fairness

Only what the code does by itself is fair; no fairness is given to the program's
calls, to the network, to descriptors becoming ready, to the end of the process
or its restart.

- Loop: callbacks return, the loop goes on, since `dsk_main_run` calls it for
  ever, and time passes (strong fairness of a turn that wakes up at the
  timeout; without it descriptors could wake the loop for ever before the
  clock moves).
- Hooks: the notification in progress goes on, and the loop runs the idle
  function it was given, which is `IdlesRun` of the loop.
- DNS: a job's timer fires, which is `TimersFire`, and callbacks return; no
  datagram need arrive.
- Table: the thread that called continues (`Call`).
- Streams: the loop notifies the hooks that ask to be (`IdleHooksNotified`), and
  the consumer reads when it is told of octets.
- Client stream: its lookup is answered (`LookupsAnswered`), its timers fire,
  a connection attempt comes to some end, its callbacks return.
- HTTP: the same of hooks; each program goes on appending to the bodies it
  began and answers what it was given, since a request that is never answered
  need not end.
- HTTP server (in `Spec` itself): a handler that was called returns, and a
  transfer whose answer is complete and first in the queue ends.

## 5. Proofs

Each theorem is about all values of the constants: any number of descriptors,
hooks, callers or octets, any bounds. Assumptions on constants are named in the
modules that declare them (finite or disjoint sets, positive sizes), and TLC
evaluates them in the runs.

An invariant is seldom inductive as it is. For each component an inductive one
is stated in the proof module, TLC checked it on the run's instance (but for
`GoodTree` and the places in `Goes`, functions that describe a tree), and one
lemma for each action, or each thing an action does, shows that it is kept.

| module | theorems | about |
|---|---|---|
| `DskDispatchProofs` | `FdTypesHold`, `FdMapStaysConsistent`, `ImplementsWatchContract` | the tables of descriptors, and that the loop implements `WatchContract` |
| | `NeverSleepsOnItsWork`, `TimersStayInOnePlace`, `TimersStayBalanced`, `TimerContractKept` | timers, idle functions and the red-black tree, and that the loop implements `TimerContract` |
| `DskHookProofs` | `CountsAreExact`, `IdleListIsExact`, `TrapsOutliveTheirCalls` | hooks |
| `DskDnsProofs` | `EveryCallWaitsOnce`, `CallersAreToldTheSame` | DNS client |
| `DskClientStreamProofs` | `AlwaysOnePhase`, `IdleTimerAlwaysKept` | client stream |
| `DskStreamProofs` | `NothingEverLost` | chain of streams |
| `DskHttpServerProofs` | `TypesHold`, `RequestsFreedWhenDone`, `WaitingRequestsCanBeAnswered`, `HandlersTriedInOrder` | requests of the HTTP server, and the handlers tried for them |
| `DskTableProofs` | `TableInvHolds`, `LookupsHold`, `RestartHolds`, `FilesHold`, `PairsHold` | persistent table |

- **Descriptors.** `FdInv == FdTypeOK /\ FdMapConsistent`: `notifies_desired` has one
  entry for each watched descriptor and `fd_map` finds it, on which every
  access by `notify_desired_index` relies. Consistency alone is not
  inductive: an index outside the table would say nothing about its entry. Only
  the types of `changes` and `change_index` are needed, not their agreement, so
  the proof goes through although `deallocate_change_index` breaks that; what is
  needed is that the assertion before it holds, which `FdClosed` has as its
  guard. The heart is the swap with the last entry
  (`DeallocateKeepsConsistency`). The refinement adds `NotifyInv`, what the
  copy of poll's report still says about descriptors closed or watched anew
  since, and goes action by action: each step is one of `WatchContract` or a stutter.
- **Red-black tree.** `Members`, heights and order are recursive notions. A tree `t` of
  the nodes `M` is described instead by a function `sub` that gives the nodes at
  or below each, and one `h` of black heights: `Shaped(t, M, sub, key)` says that
  links, `sub` and the order agree, `Heights` that `h` fits the colours, `RedPairs`
  that no red node has a red child but at most one named, and
  `GoodTree(t, M, key) == \E sub, h: ...` is a whole red-black tree. Rotations, splices and
  recolourings are lemmas that give the new `sub` and `h`. The macros' loops are
  runs of a step (`Loop`, or the descent of `InsertPoint`): `RunStays` and `RunArrives`
  say that what each turn keeps holds at the end, and that a loop that counts
  down gets there, both by the least turn that would be wrong. For the descents
  and the fixups the count is the size of a subtree or of what lies around it.
  `RbInsertIs` and `RbRemoveIs` put it together: from a `GoodTree` of `M` to one of `M` with
  the node, or without. `GoodTreeFacts` turns that into what a caller sees
  (`Members`, `Linked`, `Ordered`, `Balanced`), and the minimum is a least key.
- **Timers and idle functions.** `DispatchInv == WatchInv /\ LoopValues /\ IdleInv /\
  TimerInv`. `TimerInv` says that the tree is a `GoodTree` of the timers that claim to
  be in it, that no timer is in two of tree, list of due ones and running, that
  one on the list and not removed is due, and that `has_timeout` is set while the
  tree is not empty. `NeverSleepsOnWork` alone is not inductive: a new timer sets
  `has_timeout` only if no node on its way up is a right child, so that the first
  timer does rests on the tree being one, and a removal resets it only when the
  tree that is left is empty.
  `TimerContractKept` needs of the tree only which nodes it holds and that its minimum
  is least: the loop stops taking timers when that one is not due.
- **Hooks.** `HookInv` relates each trap's flags to its place (main trap, list, or
  nowhere), each call on the stack to the trap it stands on (`StackInv`),
  `trap_count` to the traps that are active (`CountInv`), and the idle list, with
  the guard that ends one round of it, to the hooks (`IdleInv`). `EndedInv` says
  which traps ended during their own call, whose memory goes when that returns.
- **DNS client.** `DnsInv` says that a caller who waits is in the list of the one
  job of the name it follows (`WaitersInv`), what each job and its queue entry
  may be (`JobsInv`, `QueueInv`), and what a caller was told (`CallsInv`).
  `AnswersAgree` needs that filling one more entry of the cache changes no
  answer given before; it is about a cache whose trees are whole. `Follow` is recursive; instead of an induction the proof
  takes the least number of aliases for which the claim could fail
  (`SomethingLeads`, `WhereItEnds`, `Advance`).
- **Client stream.** `ClientInv` adds to the two properties which of descriptor,
  lookup and timers exist in each phase, also while the disconnect hook runs. A
  stream may do nothing only if it is `Stopped`: no reconnection is wanted, the
  program took away the timer it waited for, or its path is too long.
- **Chain.** `StreamInv` adds to `NothingLost` what each hook's state says about its
  buffer, and what is in the filter's own hands.
- **HTTP server.** `ServerInv` is stated of a record `World` of the variables, so that
  an operation that does several things is a chain of lemmas about one of them
  each; `Between` is the weaker invariant in the middle of such a chain. It says
  which flags go with a request's state and who holds its memory, but leaves open
  that the search for a handler fails. `OrderInv == ServerInv /\ fault = "none" /\
  TreeKept /\ Goes(World) /\ ...` closes that: `TreeKept` is the shape of the match
  tree (parents before children, links that agree), `Goes` that each request is
  on its walk along it, and the rest that requests are handed out only once the
  tree is complete. `TriedInOrder` compares the handlers called with a recursive
  order of the whole tree, while the code goes on from the node and handler at
  hand, so the proof gives every node its place in that order (`Places`, by sums
  of lengths of what comes before): `FirstLeads` and `NextLeads` show that
  `find_first_match` and `find_next_match` lead from a place to the next one where a
  handler is, and `Tried` that the handlers called so far are the first so many
  of the order that suit the kind. That the recursive functions of the model are
  what their equations say is `RecursionExists`, and facts about all nodes are
  shown by the least rank at which they fail (`RankInduction`), both in `ListFacts`.
  The theorems assume `Careful`: without it the code does not keep them (section
  6). That leaves out a response after the client is gone or, late, with an empty
  body; the server destroyed while an answer is due; a path, asked for or passed
  on, for which no handler is left; a `POST` to a CGI handler; and websocket
  handshakes that are invalid or answered late. The client may go away at any
  other time. That the code finds the handler that is left is proved.
- **Table.** `TableInv` (checked by TLC on the instance of the run) speaks of any run
  that stayed within the model (`fault = "none"`): `FilesInv` and `CheckpointInv`
  say that the files and the tree, and the checkpoint's files and its journal,
  divide the insertions into consecutive ranges and hold the last value of
  every key in theirs (`Holds`); `IdsInv` that ids in use, defunct ones and those
  named by a checkpoint are below `next_id`; `JobsInv` that a running merge has its
  inputs side by side and, in its output, what it has read (`Halfway`);
  `PairsInv` which pairs may be merged; `StepInv` where the journal goes between the
  steps of a flush. `DownInv` and `CheckpointInv` are what `Open` finds. The heart is
  `LastJoins`: the last insertion of two consecutive ranges, merged, is the last
  one of both, on which lookups (`MergedUpIs`, `MergedDownIs`), replay
  (`ReplayedIs`) and finished merges (`HoldsJoined`) rest. `RestartHolds` is about
  restarts that find the files CP names; which of them can be missing (merged
  since CP was written, and not named by it at the opening) is part of it. Those are walks over a
  list; the proofs name the function each walk computes and show that it is the
  only one, by the least index where another could differ.
`ListFacts` has what several of them use: lists without repetition, an element
removed or put in, smallest and largest elements, the least-number principle,
recursion along a rank, and where the parts of a flattened sequence stand in it.

Model-checked only:

- liveness, and the parts of the contracts that are fairness: the provers do
  not reason about `ENABLED`;
- the properties of `library`: its functions are recursive operators, behind which
  the provers do nothing, or folds, whose induction theorem takes an operator
  that no installed prover can instantiate. (The loops of `DskRbtree` that the timers
  use are proved, by least numbers of turns; the `MCDskRbtree` comparisons with plain
  sets, and searches by position, are not);
- `WorkIsDone`: liveness, as above;
- `RequestsArriveWhole` and `HttpContract`: not yet attempted.

## 6. Findings

Two disagreements of the code with what it says itself are shown by runs
(details in `PROJECT.json`):

1. `dsk-dispatch.c:473`: the entry moved in the list of changes keeps its old
   index; closing the first of two watched descriptors ends in an assertion.
2. `dsk-table.c:1285`: files named by the checkpoint are deleted when a merge of
   them ends; until the next checkpoint, a restart finds files missing.

The modules state some properties that no run checks, since the code does not
keep them: `WakesForFirstTimer` (`dsk-dispatch.c:914`: a timer rotated to the top
of the tree is taken for the first one), `AnswerWouldCount`
(`dsk-dns-client.c:878`: a question repeated to another nameserver carries the
number of the first, so its answer is thrown away) and `NoTimerOnConnect`
(`dsk-client-stream.c:170`, `:503`: the idle timer is not cleared).

Modelling met more behaviour that a reader should know of. It is in the models as
the code has it, kept out by `Careful`, or outside the inputs the runs enumerate:

- Hooks: a main trap that blocks itself and ends is counted out twice
  (`dsk-hook.c:50`); a list trap that ends has the main trap's data destroyed (`:67`).
- DNS client: the trees of the cache share link fields (`dsk-dns-client.c:185`);
  a job may be freed while it waits to be sent (`:328`). The comparison of entries
  is -1 both ways for one name in two families (`:156-162`): insertions go right of
  the other family's entry and lookups left, so unless a rotation turned the two
  round the second entry is not found, its answers count as unexpected, and its
  next lookup fails the assertion that an insertion finds no conflict.
- DNS messages (`dsk-dns-protocol.c`): the length of a record counts the ten octets
  of its header (about 1040); mail exchange and text are refused; a name packed
  by pointer (897); components counted by dots (about 1105); a question cut
  short is read past its end (about 497); a pointer to itself is followed for
  ever; the loop that validates names never runs.
- Table (`dsk-table.c`): merges that never end (1149) or never start again (546), a
  flush during a merge that ends in an assertion or freed memory (1288).
- Table files: `FIND_FIRST` does not end (`dsk-table-file-trivial.c:505-520`),
  `FIND_LAST` asserts (551), readers opened behind the first entry fail
  (281-340); the table uses `FIND_ANY` only.
- HTTP client: `has_response_body` (`dsk-http-client-stream.c:196-204`) takes an
  answer with neither length nor chunks, which the server writes
  (`dsk-http-protocol.c:518-527`), for one without body: "complete" comes with the
  header and the body is never seen, against `dsk-http-client-stream.h:75`. It looks
  at the method only, so an answer whose status has no body, but whose header
  tells of chunks, leaves the client waiting.
- HTTP server stream: `start_transfer` (`dsk-http-server-stream.c:851-857`) leaves an
  answer without content (to a `HEAD`, or a status that has none) first in the
  queue for ever unless the connection is to be closed: requests pipelined behind
  it are never answered.
- HTTP server (`dsk-http-server.c`): requests with an empty body used after they are
  freed (537-648), a leak when the client has gone (626-633, 751), a `POST` to a CGI
  handler that aborts (1088), and the handlers' order of calls at 944 and about
  1085. Streams: `dsk-octet-connection.c:41`, `:219`,
  `dsk-octet-pipe.c:98`, `dsk-client-stream.c:154`, and an assertion at `:254`.
- Client stream: `dsk_client_stream_set_reconnect_time` with -1 while the stream waits
  removes the timer but keeps `reconnect_time_ms` (`dsk-client-stream.c:141-151`), so
  the same time later is no change (`:123-130`), and another one removes the timer
  that is gone; a local path that is too long gives neither a connection nor a
  timer (`:434-442`). Such a stream never connects again.
- HTTP headers: major and minor version swapped (`dsk-http-header-printing.c:96-100`);
  lines of dates without newline; Last-Modified prints the expiry; no room for
  the query in the slab (`dsk-http-protocol.c:281-293`); Referer never parsed; several
  fields of a response never stored; more than 16 other headers overflow
  (`dsk-http-header-parsing.c:758`); `scratch_remaining` never decreased; CR without
  LF; TRACE printed, not parsed; 307 described, not valid; close and upgrade lost.
- MIME, URLs: values in quotes are not counted against the limit; a blank after a
  bare value breaks the next parameter; `?` or `#` directly after the host refused.
- Multipart decoder: state not reset between parts (312-392), a line like a
  boundary before the first one (416-462), data after the last boundary accepted
  or refused depending on the pieces. Digests: the length of MD5 in 32 bits.
- Filters: the base64 decoder and the URL decoder (`dsk-url-decoder.c:60-62`) lose
  their state between pieces; C quoting and unquoting; a CR at the end of a piece.
- JSON: a newline is written as a backslash and a raw newline
  (`dsk-json-output.c:71-81`); half a surrogate survives the end of its string; the
  end that `strtod` found is ignored (`dsk-json-parser.c:279`), so `1-2`, `1.2.3`, `-`
  and `1e` are read as 1, 1.2, 0 and 1.
- XML parser: references in attribute values (1804-1850), a blank after `=` (1759),
  a single hyphen in a comment (1972), newline in a value (764), `||` for `&&` (640-720),
  an assertion for `&#0;` (about 838), prefixes on closing tags (1320-1350).
- Patterns: states shared between alternatives, empty alternatives (about 671), a
  class with `\0`.
- Buffers: `vprintf` that fits exactly loses its last byte; placeholders at a full
  fragment; a fragment that is linked is freed (`dsk-zlib.c:76-84`); the reader of
  fragments (`dsk-buffer.c:1529`, `:1552-1577`); a short write in `dsk_buffer_dump`.
  `dsk_buffer_polystr_index_of`, which no header declares: `fragment_n_str` goes on in
  the next fragment from the same `frag_index` (1066-1072), so strings over the end
  of a fragment are missed, and memory beyond a fragment is read (1151).
- Dates: years from 2400 on, 12 o'clock in the twelve-hour forms, months off by
  one, month 0; `dsk_strftime_max_length` lacks the NUL `dsk-date.h:90-91` promises.
- Templates: an unset variable leaves part of the text. Command lines: a double is
  written through an `int *` (`dsk-cmdline.c:260`); options without description
  lose their flags (371); words beginning with one of `01nyft` count as true
  (`dsk-common.c:147-164`); `OPTION_USED` is kept between calls.
- Lists: `DSK_INSERTION_SORT` and several `DSK_RING_` macros.
- Compiler: operators `free()` what `alloca` gave; divide and remainder fold as
  multiply; logical not folds to the operand's truth; no integer promotions;
  inverted tests for incomplete types (about 1075) and sizes (1687); casts of
  constants to pointer, `BOOL` and `enum` give zero; alignment 0 for several
  types; comparisons never give 1; pointer tables grow in the wrong direction
  (`dbcc-ptr-table.c:67`); `APPEND_TOKEN` (`dbcc-parser.c:2117`). `MCDbcc` compares only
  the operators that are not in this list.

## 7. What the models leave out

- The loop: signals, child processes, epoll and kqueue, growth of `fd_map`, the
  exit conditions of `dsk_main_run`. Starvation by idle functions that add
  themselves is hidden by the bound on calls.
- Hooks: destroy functions that call back into hooks.
- DNS: reading the configuration files, `dsk_dns_lookup_nonblocking`, the forms of
  names, more than one search path, expiry, with it the errors of entries that
  expired. After memory or a tree is broken (`fault`), nothing is said: so
  nothing of a domain that is in the cache for both families.
- Table: merge functions other than the standard one, and so deletion; readers
  over the table; failures while journalling or merging; a crash of the machine
  (the code never syncs). The time between a failed rename and the next
  checkpoint, and restarts that miss a file of CP (finding 2), are excluded from
  `RestartLosesNothing`.
- Streams: memory sinks, sockets that listen, other filters in the chain than one
  that holds back. HTTP: keep-alive times, web sockets after the handshake, the
  repeated announcement of a websocket request while data comes
  (`dsk-http-server-stream.c:524-532`), CGI variables. XML: bindings and namespaces. Command lines: modes, which are
  declared and nowhere defined. Compiler: everything up to the typed expressions,
  statements, `typedef`.
- Not modelled at all: objects, compressed table files, TLS, `dsk-ts0.c`, processes,
  files and directories, threads; `dsk-http-client.c` and the key-value node, which
  are drafts; `dbcc-parser.c`, which is unfinished; `lemon.c`, `lempar.c` and the HTML
  entities, which are vendored or generated. Reasons are in `PROJECT.json`.
