---------------------------- MODULE DskHttpServer ----------------------------
(***************************************************************************)
(* dsk-http-server.c: a tree of matches with handlers, and the requests of *)
(* one connection that are handed from handler to handler until one of     *)
(* them answers.  A handler may answer, fail, redirect, redirect inside    *)
(* the server or pass, at once or later from any other callback, while the *)
(* client may go away and the server be destroyed.  The connection below   *)
(* (dsk-http-server-stream.c) is reduced to its queue of transfers.        *)
(* Requests that have no response body (HEAD) are left out.                *)
(*                                                                         *)
(* With Careful = TRUE the steps are left out that lead to a leak, a       *)
(* failed assertion or the use of freed memory.  Some are a handler's, but *)
(* others are a client's, and a handler cannot see all of them coming:     *)
(*   - a path that no handler suits, also after a pass or a redirect, and  *)
(*     a POST to a path with a CGI handler (Receive, CanServe);            *)
(*   - dsk_http_server_request_respond after the client is gone, or late   *)
(*     with an empty body, and dsk_http_server_request_redirect in the     *)
(*     handler's own call after the client is gone;                        *)
(*   - a websocket handler that fails the request, answers late, or gets   *)
(*     an invalid handshake;                                               *)
(*   - the server destroyed from a handler or while an answer is due, and  *)
(*     a server that listens before each match_save is restored.           *)
(***************************************************************************)
EXTENDS Naturals, FiniteSets, SequencesExt

CONSTANTS
  Paths,          \* what a match can test
  Kinds,          \* the kinds of requests sent
  HandlerTypes,   \* the types of handlers registered
  MaxNodes,       \* bound: nodes of the match tree
  MaxHandlers,    \* bound: handlers registered
  MaxRequests,    \* bound: requests the client sends
  MaxSize,        \* bound: nodes and handlers, and twice the requests
  Careful         \* the steps listed above are left out

ASSUME HttpServerAssumption ==
  /\ Paths # {}
  /\ Kinds \subseteq {"get", "post", "websocket"}
  /\ HandlerTypes \subseteq {"STREAMING_POST_DATA", "CGI", "WEBSOCKET"}
  /\ MaxNodes \in Nat \ {0} /\ {MaxHandlers, MaxRequests, MaxSize} \subseteq Nat
  /\ Careful \in BOOLEAN

VARIABLES
  nodes,    \* the match tree: node 1 is server->top
  current,  \* server->current, 0 once the server listens
  rreq,     \* RealServerRequest of each request
  xfer,     \* its DskHttpServerStreamTransfer
  queue,    \* first_transfer .. last_transfer of the connection
  open,     \* the connection is open
  stack,    \* calls of invoke_handler in progress, innermost last
  freed,    \* the server has been finalized
  fault,    \* what C did not survive
  called    \* history: the handlers called for the request's present path

config == <<nodes, current>>
requests == <<rreq, xfer, queue, open, stack, freed, fault, called>>
vars == <<nodes, current, rreq, xfer, queue, open, stack, freed, fault, called>>

Requests == 1..MaxRequests      \* in the order in which they arrive
Top == 1
NoNode == 0

(* A tester that is NULL accepts everything.                               *)
NewNode(parent) ==
  [parent |-> parent, children |-> <<>>, test_list |-> {}, tester |-> Paths,
   handlers |-> <<>>]

NoRequest == [mem |-> "none", state |-> "INIT", node |-> NoNode, handler |-> 0,
              path |-> CHOOSE p \in Paths: TRUE, waiting_for_response |-> FALSE,
              got_transfer_destroy |-> FALSE, invoking_handler |-> FALSE]
NoTransfer == [mem |-> "none", kind |-> "get", returned |-> FALSE,
               responded |-> FALSE, failed |-> FALSE, content |-> "none"]

Init ==
  /\ nodes = <<NewNode(NoNode)>> /\ current = Top
  /\ rreq = [r \in Requests |-> NoRequest]
  /\ xfer = [r \in Requests |-> NoTransfer]
  /\ queue = <<>> /\ open = TRUE /\ stack = <<>> /\ freed = FALSE
  /\ fault = "none"
  /\ called = [r \in Requests |-> <<>>]

-----------------------------------------------------------------------------
(* Registration, before the server listens.                                *)

Registered == FoldFunction(+, 0, [n \in DOMAIN nodes |-> Len(nodes[n].handlers)])

Received == {r \in Requests: xfer[r].mem # "none"}

(* A test takes effect at match_restore, which the top node never sees.    *)
AddMatch(p) ==
  /\ current # 0
  /\ nodes[current].test_list = {}      \* bound: one test a node
  /\ nodes' = [nodes EXCEPT ![current].test_list = @ \cup {p},
                            ![current].tester = Paths]
  /\ UNCHANGED <<current, requests>>

MatchSave ==
  /\ current # 0 /\ Len(nodes) < MaxNodes
  /\ LET new == Len(nodes) + 1
     IN  /\ nodes' = Append([nodes EXCEPT ![current].children = Append(@, new)],
                            NewNode(current))
         /\ current' = new
  /\ UNCHANGED requests

MatchRestore ==
  /\ current \notin {0, Top}
  /\ LET tests == nodes[current].test_list
     IN  nodes' = [nodes EXCEPT ![current].test_list = {},
                                ![current].tester = IF tests = {} THEN Paths ELSE tests]
  /\ current' = nodes[current].parent
  /\ UNCHANGED requests

RegisterHandler(type) ==
  /\ current # 0 /\ Registered < MaxHandlers
  /\ nodes' = [nodes EXCEPT ![current].handlers =
                 Append(@, [type |-> type, id |-> <<current, Len(@) + 1>>])]
  /\ UNCHANGED <<current, requests>>

Listen ==
  /\ current # 0
  /\ Careful => current = Top
  /\ current' = 0
  /\ UNCHANGED <<nodes, requests>>

-----------------------------------------------------------------------------
(* Walking the match tree.                                                 *)

Matches(n, path) == path \in nodes[n].tester

(* find_first_match_recursive for every node: the first child with a match *)
(* below it, or else the node itself if it has handlers.                   *)
FirstMatch(path) ==
  LET f[n \in DOMAIN nodes] ==
        LET children == nodes[n].children
            matching == {i \in DOMAIN children: f[children[i]] # NoNode}
        IN  IF ~Matches(n, path) THEN NoNode
            ELSE IF matching # {} THEN f[children[Min(matching)]]
            ELSE IF nodes[n].handlers # <<>> THEN n ELSE NoNode
  IN  f

(* mutant: starts at the node itself *)
LaterSiblingsAndSelf(n) ==
  LET siblings == nodes[nodes[n].parent].children
      at == CHOOSE i \in DOMAIN siblings: siblings[i] = n
  IN  IF n = Top THEN <<>> ELSE SubSeq(siblings, at, Len(siblings))

LaterSiblings(n) ==
  LET siblings == nodes[nodes[n].parent].children
      at == CHOOSE i \in DOMAIN siblings: siblings[i] = n
  IN  IF n = Top THEN <<>> ELSE SubSeq(siblings, at + 1, Len(siblings))

(* find_next_match; NoNode is the null pointer it follows above the top.   *)
NextMatch(node, path) ==
  LET first == FirstMatch(path)
      next[n \in DOMAIN nodes] ==
        LET siblings == LaterSiblings(n)
            matching == {i \in DOMAIN siblings: first[siblings[i]] # NoNode}
            parent == nodes[n].parent
        IN  IF matching # {} THEN first[siblings[Min(matching)]]
            ELSE IF parent = NoNode THEN NoNode
            ELSE IF nodes[parent].handlers # <<>> THEN parent
            ELSE next[parent]
  IN  next[node]

-----------------------------------------------------------------------------
(* The functions that handle a request call each other; each is an         *)
(* operator from worlds to worlds.                                         *)

World == [rreq |-> rreq, xfer |-> xfer, queue |-> queue, open |-> open,
          stack |-> stack, freed |-> freed, fault |-> fault, called |-> called]

Becomes(w) ==
  /\ rreq' = w.rreq /\ xfer' = w.xfer /\ queue' = w.queue /\ open' = w.open
  /\ stack' = w.stack /\ freed' = w.freed /\ fault' = w.fault
  /\ called' = w.called
  /\ UNCHANGED config

Fail(w, what) == [w EXCEPT !.fault = what]

(* mutant: forgets that the handler is still being called *)
FreeIfAnswered(q) ==
  IF ~q.waiting_for_response /\ q.got_transfer_destroy
  THEN [q EXCEPT !.mem = "freed"] ELSE q

(* maybe_free_real_server_request                                          *)
MaybeFree(q) ==
  IF ~q.waiting_for_response /\ q.got_transfer_destroy /\ ~q.invoking_handler
  THEN [q EXCEPT !.mem = "freed"] ELSE q

TransferDestroyed(q) == MaybeFree([q EXCEPT !.got_transfer_destroy = TRUE])

(* mutant: the response behind one that ended is never started *)
StartFirstOnly(w) ==
  IF w.queue # <<>> /\ w.xfer[w.queue[1]].responded /\ w.xfer[w.queue[1]].content = "empty"
  THEN [w EXCEPT !.queue = Tail(@), !.rreq[w.queue[1]] = TransferDestroyed(@),
                 !.xfer[w.queue[1]].mem = "freed"]
  ELSE w

(* start_transfer for the head of the queue, and for those behind it as    *)
(* long as a response without content ends where it starts: its memory     *)
(* source reports the end at once, which handle_content_readable sees.     *)
StartTransfers(w) ==
  LET finished == {i \in DOMAIN w.queue: \A j \in 1..i:
                     w.xfer[w.queue[j]].responded /\ w.xfer[w.queue[j]].content = "empty"}
      gone == {w.queue[i]: i \in finished}
  IN  [w EXCEPT
        !.queue = SubSeq(@, Cardinality(finished) + 1, Len(@)),
        !.rreq = [r \in Requests |-> IF r \in gone THEN TransferDestroyed(@[r]) ELSE @[r]],
        !.xfer = [r \in Requests |-> IF r \in gone THEN [@[r] EXCEPT !.mem = "freed"]
                                     ELSE @[r]]]

(* mutant: every transfer is freed *)
ShutdownFreesAll(w) ==
  LET at == ToSet(w.queue)
  IN  [w EXCEPT
        !.rreq = [r \in Requests |-> IF r \in at /\ w.xfer[r].returned
                                     THEN TransferDestroyed(@[r]) ELSE @[r]],
        !.xfer = [r \in Requests |-> IF r \in at THEN [@[r] EXCEPT !.mem = "freed"] ELSE @[r]],
        !.queue = <<>>, !.open = FALSE]

(* do_shutdown: a transfer that the server has and has not answered stays  *)
(* for it to answer.                                                       *)
DoShutdown(w) ==
  LET at == ToSet(w.queue)
      kept == {r \in at: w.xfer[r].returned /\ ~w.xfer[r].responded}
  IN  [w EXCEPT
        !.rreq = [r \in Requests |-> IF r \in at /\ w.xfer[r].returned
                                     THEN TransferDestroyed(@[r]) ELSE @[r]],
        !.xfer = [r \in Requests |-> IF r \in kept THEN [@[r] EXCEPT !.failed = TRUE]
                                     ELSE IF r \in at THEN [@[r] EXCEPT !.mem = "freed"]
                                     ELSE @[r]],
        !.queue = <<>>, !.open = FALSE]

(* dsk_http_server_stream_respond                                          *)
StreamRespond(w, r, content) ==
  IF w.xfer[r].mem # "live" \/ w.xfer[r].responded THEN Fail(w, "responded twice")
  ELSE IF w.xfer[r].failed
       THEN [w EXCEPT !.xfer[r].responded = TRUE, !.xfer[r].mem = "freed"]
       ELSE StartTransfers([w EXCEPT !.xfer[r].responded = TRUE,
                                     !.xfer[r].content = content])

(* respond_error: the page it sends is never empty                         *)
SendError(w, r) ==
  LET sent == StreamRespond(w, r, "body")
  IN  [sent EXCEPT !.rreq[r] = MaybeFree(@)]

(* _dsk_http_server_request_respond_error                                  *)
RespondError(w, r) ==
  LET q == w.rreq[r]
  IN  IF q.state \notin {"WAITING", "INVOKING", "INIT"} \/
         (q.state # "INIT" /\ ~q.waiting_for_response) THEN Fail(w, "assertion")
      ELSE IF q.state = "INVOKING"
           THEN [w EXCEPT !.rreq[r].waiting_for_response = FALSE,
                          !.rreq[r].state = "BLOCKED_ERROR"]
      ELSE IF q.state = "WAITING"
           THEN SendError([w EXCEPT !.rreq[r].waiting_for_response = FALSE], r)
      ELSE SendError(w, r)

(* In state INIT nothing takes the flag back.                              *)
NoHandlerFound(w, r) ==
  RespondError([w EXCEPT !.rreq[r].waiting_for_response = TRUE], r)

HandlerOf(w, r) == nodes[w.rreq[r].node].handlers[w.rreq[r].handler]

(* A request for a websocket goes to handlers of that type only, and they  *)
(* get no other.                                                           *)
Suits(kind, type) == (kind = "websocket") <=> (type = "WEBSOCKET")

(* invoke_handler up to the return of the handler: the frame on the stack  *)
(* says whether one was called.  Post data of a CGI request are never      *)
(* there, since they are complete before the request is handed out.        *)
InvokeHandler(w, r) ==
  LET q == w.rreq[r]
      handler == HandlerOf(w, r)
      kind == w.xfer[r].kind
      calls == Suits(kind, handler.type) /\ ~(kind = "post" /\ handler.type = "CGI")
      pushed == [w EXCEPT !.stack = Append(@, [request |-> r, calls |-> calls]),
                          !.rreq[r].invoking_handler = TRUE]
  IN  IF w.freed THEN Fail(w, "used after free")
      ELSE IF q.state \notin {"INIT", "WAITING", "NEED_POST_DATA"}
              \/ q.invoking_handler \/ q.waiting_for_response THEN Fail(w, "assertion")
      ELSE IF calls
           THEN [pushed EXCEPT !.rreq[r].state = "INVOKING",
                               !.rreq[r].waiting_for_response = (kind # "websocket"),
                               !.called[r] = Append(@, handler.id)]
      ELSE IF Suits(kind, handler.type)
           THEN [pushed EXCEPT !.rreq[r].state = "NEED_POST_DATA"]
           ELSE [pushed EXCEPT !.rreq[r].state = "BLOCKED_PASS"]

(* find_first_match                                                        *)
FindFirst(w, r) ==
  LET node == FirstMatch(w.rreq[r].path)[Top]
  IN  IF node = NoNode THEN w
      ELSE [w EXCEPT !.rreq[r].node = node, !.rreq[r].handler = 1]

Found(w, r) == FirstMatch(w.rreq[r].path)[Top] # NoNode

(* advance_to_next_handler and the call of the one it finds                *)
PassOn(w, r) ==
  LET q == w.rreq[r]
      node == NextMatch(q.node, q.path)
  IN  IF w.freed THEN Fail(w, "used after free")
      ELSE IF q.handler < Len(nodes[q.node].handlers)
           THEN InvokeHandler([w EXCEPT !.rreq[r].handler = @ + 1], r)
      ELSE IF node = NoNode THEN Fail(w, "null pointer")
      ELSE InvokeHandler([w EXCEPT !.rreq[r].node = node, !.rreq[r].handler = 1], r)

-----------------------------------------------------------------------------
(* The loop: requests arrive, are handed out, and responses go out.        *)

Running == fault = "none" /\ current = 0
InLoop == Running /\ stack = <<>>

(* A callback, or the loop's own timers and idle functions.                *)
InCallback == Running /\ (stack # <<>> => Last(stack).calls)

(* handle_source_readable has a request, with all of its post data         *)
Receive(r, kind, path) ==
  /\ InLoop /\ open /\ Received = 1..r - 1
  /\ Len(nodes) + Registered + 2 * r <= MaxSize
  /\ Becomes([World EXCEPT !.xfer[r].mem = "live", !.xfer[r].kind = kind,
                           !.rreq[r].path = path, !.queue = Append(@, r)])

(* The order in which the handlers of the tree ought to be tried.          *)
TryOrder(path) ==
  LET order[n \in DOMAIN nodes] ==
        IF path \notin nodes[n].tester THEN <<>>
        ELSE FlattenSeq([i \in DOMAIN nodes[n].children |-> order[nodes[n].children[i]]])
             \o nodes[n].handlers
  IN  order[Top]

(* Those that suit the kind of request. *)
ToTry(kind, path) ==
  LET order == TryOrder(path)
  IN  FlattenSeq([i \in DOMAIN order |->
                    IF Suits(kind, order[i].type) THEN <<order[i].id>> ELSE <<>>])

(* The request can be answered by a handler that is still to be tried.     *)
CanServe(kind, path, tried) ==
  /\ Len(ToTry(kind, path)) > tried
  /\ kind = "post" => \A i \in DOMAIN TryOrder(path): TryOrder(path)[i].type # "CGI"

(* handle_http_server_request_available.  (While a websocket request is    *)
(* first in the queue, each piece of data that comes announces it again,   *)
(* READ_WEBSOCKET of handle_source_readable; this is left out.)            *)
HandleRequestAvailable(r) ==
  LET w == [World EXCEPT !.xfer[r].returned = TRUE, !.rreq[r].mem = "live"]
  IN  /\ InLoop /\ ~freed
      /\ \E i \in DOMAIN queue:
           /\ queue[i] = r /\ ~xfer[r].returned
           /\ \A j \in 1..i - 1: xfer[queue[j]].returned
      /\ xfer[r].kind = "websocket" => r = queue[1]
      /\ Careful => CanServe(xfer[r].kind, rreq[r].path, 0)
      /\ Becomes(IF Found(w, r) THEN InvokeHandler(FindFirst(w, r), r)
                 ELSE NoHandlerFound(w, r))

(* handle_content_readable at the end of the first response                *)
FinishTransfer ==
  LET r == queue[1]
  IN  /\ InLoop /\ queue # <<>> /\ xfer[r].responded /\ xfer[r].content = "body"
      /\ Becomes(StartTransfers([World EXCEPT !.queue = Tail(@),
                   !.rreq[r] = TransferDestroyed(@), !.xfer[r].mem = "freed"]))

(* The client goes away, or its connection ends after a response.          *)
ClientGone == InLoop /\ open /\ Becomes(DoShutdown(World))

(* dsk_http_server_finalize                                                *)
Finalize ==
  /\ InCallback /\ ~freed
  /\ Careful => stack = <<>> /\ \A r \in Requests: ~rreq[r].waiting_for_response
  /\ Becomes([DoShutdown(World) EXCEPT !.freed = TRUE])

-----------------------------------------------------------------------------
(* What a handler may call for a request it was given, at once or later.   *)

HasToAnswer(r) ==
  InCallback /\ rreq[r].mem = "live" /\ rreq[r].waiting_for_response
  /\ rreq[r].state \in {"INVOKING", "WAITING"}

(* dsk_http_server_request_respond: a failed transfer ends it early; after *)
(* the response the request is used again.                                 *)
Respond(r, content) ==
  LET waiting == [World EXCEPT !.rreq[r].waiting_for_response = FALSE]
      sent == StreamRespond(waiting, r, content)
  IN  /\ HasToAnswer(r)
      /\ Careful => /\ ~xfer[r].failed
                    /\ rreq[r].state = "WAITING" => content # "empty"
      /\ Becomes(IF xfer[r].failed THEN sent
                 ELSE IF sent.rreq[r].mem = "freed" THEN Fail(sent, "used after free")
                 ELSE IF rreq[r].state = "INVOKING"
                      THEN [sent EXCEPT !.rreq[r].state = "GOT_RESPONSE_WHILE_INVOKING"]
                 ELSE [sent EXCEPT !.rreq[r] = MaybeFree([@ EXCEPT !.state = "GOT_RESPONSE"])])

(* dsk_http_server_request_respond_error: what a websocket handler may     *)
(* call, too, by its description.                                          *)
RespondWithError(r) ==
  /\ HasToAnswer(r) \/ (/\ InCallback /\ stack # <<>> /\ Last(stack).request = r
                        /\ xfer[r].kind = "websocket" /\ rreq[r].state = "INVOKING"
                        /\ xfer[r].content = "none" /\ ~Careful)
  /\ Becomes(RespondError(World, r))

(* dsk_http_server_request_redirect leaves the state alone.                *)
Redirect(r) ==
  LET sent == StreamRespond([World EXCEPT !.rreq[r].waiting_for_response = FALSE],
                            r, "body")
  IN  /\ HasToAnswer(r)
      /\ Careful => ~(xfer[r].failed /\ rreq[r].state = "INVOKING")
      /\ Becomes([sent EXCEPT !.rreq[r] = MaybeFree(@)])

(* dsk_http_server_request_internal_redirect                               *)
InternalRedirect(r, path) ==
  LET w == [World EXCEPT !.rreq[r].waiting_for_response = FALSE,
                         !.rreq[r].path = path, !.called[r] = <<>>,
                         !.rreq[r].state = IF @ = "WAITING" THEN "INIT" ELSE @]
  IN  /\ HasToAnswer(r)
      /\ path # rreq[r].path
      /\ Careful => CanServe(xfer[r].kind, path, 0)
      /\ Becomes(IF freed THEN Fail(w, "used after free")
                 ELSE IF ~Found(w, r) THEN NoHandlerFound(w, r)
                 ELSE IF rreq[r].state = "INVOKING"
                      THEN [FindFirst(w, r) EXCEPT
                              !.rreq[r].state = "BLOCKED_INTERNAL_REDIRECT"]
                 ELSE InvokeHandler(FindFirst(w, r), r))

(* dsk_http_server_request_pass                                            *)
Pass(r) ==
  LET w == [World EXCEPT !.rreq[r].waiting_for_response = FALSE]
  IN  /\ HasToAnswer(r)
      /\ Careful => CanServe(xfer[r].kind, rreq[r].path, Len(called[r]))
      /\ Becomes(IF rreq[r].state = "INVOKING"
                 THEN [w EXCEPT !.rreq[r].state = "BLOCKED_PASS"]
                 ELSE PassOn(w, r))

(* dsk_http_server_request_respond_websocket takes the connection away     *)
(* from the stream, or shuts it down when the handshake is wrong.  Nothing *)
(* keeps the request for a handler that calls it later.                    *)
RespondWebsocket(r, valid) ==
  LET taken == [World EXCEPT !.xfer[r].content = "websocket", !.open = FALSE]
      w == IF valid THEN taken ELSE DoShutdown(World)
  IN  /\ InCallback /\ xfer[r].kind = "websocket" /\ xfer[r].content = "none"
      /\ rreq[r].state \in {"INVOKING", "WAITING"}
      /\ Careful => valid /\ rreq[r].state = "INVOKING"
      /\ Becomes(IF rreq[r].mem = "freed" \/ xfer[r].failed
                 THEN Fail(World, "used after free")
                 ELSE [w EXCEPT !.rreq[r] = MaybeFree(@)])

(* The handler returns to invoke_handler.                                  *)
HandlerReturns ==
  LET r == Last(stack).request
      w == [World EXCEPT !.stack = Front(@), !.rreq[r].invoking_handler = FALSE]
      init == [w EXCEPT !.rreq[r].state = "INIT"]
      state == rreq[r].state
  IN  /\ Running /\ stack # <<>>
      /\ Becomes(CASE state = "INVOKING" -> [w EXCEPT !.rreq[r].state = "WAITING"]
                   [] state = "BLOCKED_ERROR" -> SendError(w, r)
                   [] state = "BLOCKED_PASS" -> PassOn(init, r)
                   [] state = "BLOCKED_INTERNAL_REDIRECT" -> InvokeHandler(init, r)
                   [] state = "GOT_RESPONSE_WHILE_INVOKING" ->
                        [w EXCEPT !.rreq[r] = MaybeFree(@)]
                   [] OTHER -> Fail(w, "should not get here"))

-----------------------------------------------------------------------------

Configure ==
  \/ \E p \in Paths: AddMatch(p)
  \/ MatchSave \/ MatchRestore \/ Listen
  \/ \E type \in HandlerTypes: RegisterHandler(type)

Answer(r) ==
  \/ \E content \in {"empty", "body"}: Respond(r, content)
  \/ RespondWithError(r) \/ Redirect(r) \/ Pass(r)
  \/ \E path \in Paths: InternalRedirect(r, path)
  \/ \E valid \in BOOLEAN: RespondWebsocket(r, valid)

Next ==
  \/ Configure
  \/ \E r \in Requests: \/ \E kind \in Kinds, path \in Paths: Receive(r, kind, path)
                        \/ HandleRequestAvailable(r)
                        \/ Answer(r)
  \/ FinishTransfer \/ ClientGone \/ Finalize \/ HandlerReturns

(* The loop delivers what the connection can take, and handlers return.    *)
Spec == Init /\ [][Next]_vars /\ WF_vars(FinishTransfer) /\ WF_vars(HandlerReturns)

-----------------------------------------------------------------------------

States == {"INIT", "INVOKING", "NEED_POST_DATA", "BLOCKED_ERROR", "BLOCKED_PASS",
           "BLOCKED_INTERNAL_REDIRECT", "WAITING", "GOT_RESPONSE_WHILE_INVOKING",
           "GOT_RESPONSE"}
TypeOK ==
  /\ current \in 0..Len(nodes) /\ Len(nodes) \in 1..MaxNodes
  /\ \A r \in Requests:
       /\ rreq[r].mem \in {"none", "live", "freed"} /\ rreq[r].state \in States
       /\ xfer[r].mem \in {"none", "live", "freed"} /\ xfer[r].kind \in Kinds \cup {"get"}
       /\ xfer[r].content \in {"none", "empty", "body", "websocket"}
  /\ queue \in Seq(Requests) /\ open \in BOOLEAN /\ freed \in BOOLEAN
  /\ \A i \in DOMAIN stack: stack[i].request \in Requests

(* Handlers are tried in the order of the tree, children before their      *)
(* parent, each once, whatever passes and redirects happen and however     *)
(* late: those called for the present path are the first of those that     *)
(* match it.                                                               *)
TriedInOrder ==
  \A r \in Requests: IsPrefix(called[r], ToTry(xfer[r].kind, rreq[r].path))

(* A request is freed exactly when nobody needs it, as the comment in      *)
(* RealServerRequest says: no answer is due, the transfer is gone and no   *)
(* handler is being called.                                                *)
FreedWhenDone ==
  \A r \in Requests: rreq[r].mem # "none" =>
    (rreq[r].mem = "freed" <=> /\ ~rreq[r].waiting_for_response
                               /\ rreq[r].got_transfer_destroy
                               /\ ~rreq[r].invoking_handler)

(* Whoever may still answer has a transfer to answer, in the queue unless  *)
(* the connection failed; and nothing but what Careful leaves out makes an *)
(* assertion fail or touches memory that is gone.                          *)
AnswersHaveTransfers ==
  /\ TypeOK
  /\ fault = "none"
  /\ \A r \in Requests: rreq[r].mem = "live" /\ rreq[r].waiting_for_response =>
       /\ xfer[r].mem = "live" /\ ~xfer[r].responded
       /\ ~xfer[r].failed => r \in ToSet(queue)

(* An answered request is freed in the end, unless one before it on the    *)
(* connection is not answered: no response is stuck behind one that ended, *)
(* and no request outlives its answer.                                     *)
AnsweredAndFreed ==
  \A r \in Requests:
    xfer[r].responded ~> \/ rreq[r].mem = "freed"
                         \/ \E i \in DOMAIN queue: ~xfer[queue[i]].responded

=============================================================================
