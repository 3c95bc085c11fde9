------------------------- MODULE DskHttpServerProofs -------------------------
(***************************************************************************)
(* What holds of the requests of DskHttpServer, for any match tree and any *)
(* number of requests, in runs without the steps that Careful leaves out   *)
(* (they are listed in DskHttpServer).                                     *)
(*                                                                         *)
(* FreedWhenDone alone is not inductive.  The invariant WorldKept says for *)
(* each request which flags go with its state, that its handler is being   *)
(* called exactly when invoke_handler has a frame for it, that whoever has *)
(* to answer has a transfer without an answer, and that this transfer is   *)
(* in the queue unless the connection failed.  The functions of the server *)
(* are operators from worlds to worlds, so most lemmas say what such an    *)
(* operator keeps: Between is WorldKept in the middle of a call, without   *)
(* what it says of the flags of the one request the call is about.         *)
(*                                                                         *)
(* The second half is about the walk of a request along the match tree.    *)
(* Every node has a place in the order in which handlers ought to be tried *)
(* (Places), the searches of dsk-http-server.c lead from each handler to   *)
(* the next of that order (FirstLeads, NextLeads), and a request is on its *)
(* walk (WalkKept) when its node and handler are where the handlers called *)
(* so far leave off.  With it the search for a handler never fails, so     *)
(* nothing is left that stops the server (OrderInv).                       *)
(***************************************************************************)
EXTENDS DskHttpServer, ListFacts

(* A part of 1..n that holds with every number those below it. *)
LEMMA InitialSegment ==
  ASSUME NEW n \in Nat, NEW F \in SUBSET (1..n), \A i \in F: 1..i \subseteq F
  PROVE  /\ Cardinality(F) \in 0..n
         /\ F = 1..Cardinality(F)
<1> DEFINE k == Cardinality(F)
<1>1. IsFiniteSet(1..n) /\ Cardinality(1..n) = n
  BY FS_Interval
<1>2. IsFiniteSet(F) /\ k <= n /\ k \in Nat
  <2>1. IsFiniteSet(F) /\ Cardinality(F) <= Cardinality(1..n)
    BY <1>1, FS_Subset
  <2>2. Cardinality(F) \in Nat
    BY <2>1, FS_CardinalityType
  <2>3. QED BY <1>1, <2>1, <2>2
<1>3. IsFiniteSet(1..k) /\ Cardinality(1..k) = k
  BY <1>2, FS_Interval
<1>4. \A i \in F: i <= k
  <2> SUFFICES ASSUME NEW i \in F PROVE i <= k
    OBVIOUS
  <2>1. i \in Nat /\ i >= 1 /\ 1..i \in SUBSET F
    OBVIOUS
  <2>2. Cardinality(1..i) = i
    BY <2>1, FS_Interval
  <2>3. Cardinality(1..i) <= k
    BY <1>2, <2>1, FS_Subset
  <2>4. QED BY <2>2, <2>3
<1>5. F \in SUBSET (1..k)
  BY <1>2, <1>4
<1>6. F = 1..k
  BY <1>3, <1>5, FS_Subset
<1>7. QED BY <1>2, <1>6

-----------------------------------------------------------------------------

Memory == {"none", "live", "freed"}
Transfers == [mem: Memory, kind: {"get", "post", "websocket"}, returned: BOOLEAN,
              responded: BOOLEAN, failed: BOOLEAN,
              content: {"none", "empty", "body", "websocket"}]

(* What a request has, whatever its node, handler and path are. *)
IsRequest(q) ==
  /\ q = [mem |-> q.mem, state |-> q.state, node |-> q.node, handler |-> q.handler,
          path |-> q.path, waiting_for_response |-> q.waiting_for_response,
          got_transfer_destroy |-> q.got_transfer_destroy,
          invoking_handler |-> q.invoking_handler]
  /\ q.mem \in Memory
  /\ q.waiting_for_response \in BOOLEAN
  /\ q.got_transfer_destroy \in BOOLEAN
  /\ q.invoking_handler \in BOOLEAN

NotNeeded(q) == ~q.waiting_for_response /\ q.got_transfer_destroy /\ ~q.invoking_handler

(* Someone has yet to answer. *)
ToAnswer(q) ==
  \/ q.waiting_for_response /\ q.state # "INIT"
  \/ q.state \in {"BLOCKED_PASS", "BLOCKED_INTERNAL_REDIRECT"}
  \/ q.state = "BLOCKED_ERROR" /\ q.invoking_handler

(* A request between two calls. *)
RequestKept(q, x) ==
  /\ q.mem = "none" => /\ ~q.waiting_for_response /\ ~q.got_transfer_destroy
                       /\ ~q.invoking_handler /\ q.state = "INIT"
  /\ q.mem # "none" => (q.mem = "freed" <=> NotNeeded(q))
  /\ q.state \in {"INIT", "WAITING", "GOT_RESPONSE"} => ~q.invoking_handler
  /\ q.state \in {"INVOKING", "BLOCKED_PASS", "BLOCKED_INTERNAL_REDIRECT"} => q.invoking_handler
  /\ q.state \in {"BLOCKED_ERROR", "BLOCKED_PASS", "BLOCKED_INTERNAL_REDIRECT"} =>
       ~q.waiting_for_response
  /\ ToAnswer(q) => ~x.responded
  /\ q.state = "INVOKING" /\ ~q.waiting_for_response =>
       ~q.got_transfer_destroy /\ ~(x.responded /\ x.content = "empty")
  /\ x.kind = "websocket" /\ q.invoking_handler => ~q.got_transfer_destroy
  /\ x.kind = "websocket" /\ q.state # "INIT" =>
       /\ ~q.waiting_for_response /\ ~x.responded
       /\ q.state \in {"INVOKING", "BLOCKED_PASS", "WAITING"}

(* A request and its transfer, which may be in the queue. *)
TransferKept(q, x, queued) ==
  /\ q.mem # "none" <=> x.returned
  /\ queued => x.mem = "live" /\ ~x.failed
  /\ x.returned /\ ~x.responded => x.mem = "live" /\ (queued \/ x.failed)
  /\ x.responded => x.returned
  /\ x.mem = "none" => ~x.returned /\ ~x.failed
  /\ q.got_transfer_destroy => x.responded \/ x.failed
  /\ x.failed => q.got_transfer_destroy

Queued(w, r) == \E i \in DOMAIN w.queue: w.queue[i] = r
Calling(w, r) == \E i \in DOMAIN w.stack: w.stack[i].request = r
Distinct(s) == \A i, j \in DOMAIN s: s[i] = s[j] => i = j

IsWorld(w) ==
  /\ w = [rreq |-> w.rreq, xfer |-> w.xfer, queue |-> w.queue, open |-> w.open,
          stack |-> w.stack, freed |-> w.freed, fault |-> w.fault, called |-> w.called]
  /\ w.rreq = [r \in Requests |-> w.rreq[r]]
  /\ \A r \in Requests: IsRequest(w.rreq[r])
  /\ w.xfer \in [Requests -> Transfers]
  /\ w.queue \in Seq(Requests) /\ Distinct(w.queue)
  /\ w.stack \in Seq([request: Requests, calls: BOOLEAN])
  /\ \A i, j \in DOMAIN w.stack: w.stack[i].request = w.stack[j].request => i = j
  /\ w.freed \in BOOLEAN

Kept(w, r) ==
  /\ RequestKept(w.rreq[r], w.xfer[r])
  /\ TransferKept(w.rreq[r], w.xfer[r], Queued(w, r))
  /\ w.rreq[r].invoking_handler <=> Calling(w, r)

WorldKept(w) ==
  /\ IsWorld(w)
  /\ \A r \in Requests: Kept(w, r)
  /\ w.freed => w.stack = <<>>
  /\ \A r \in Requests: w.freed => ~w.rreq[r].waiting_for_response

(* What may still go wrong is the walk along the match tree: no handler is *)
(* left to pass to, or the one that is found has no post data. *)
Survives(w) ==
  /\ w.fault \in {"none", "null pointer", "should not get here"}
  /\ w.fault = "none" => WorldKept(w)

ServerInv == Survives(World)

-----------------------------------------------------------------------------
(* Requests. *)

(* Requests that differ in some fields. *)
LEMMA WithMem ==
  ASSUME NEW q, IsRequest(q), NEW m \in Memory,
         NEW d, d = [q EXCEPT !.mem = m]
  PROVE  /\ IsRequest(d) /\ d.mem = m
         /\ d.state = q.state /\ d.waiting_for_response = q.waiting_for_response
         /\ d.got_transfer_destroy = q.got_transfer_destroy /\ d.invoking_handler = q.invoking_handler
<1>1. d = [mem |-> m, state |-> q.state, node |-> q.node,
           handler |-> q.handler, path |-> q.path, waiting_for_response |-> q.waiting_for_response,
           got_transfer_destroy |-> q.got_transfer_destroy, invoking_handler |-> q.invoking_handler]
  BY DEF IsRequest
<1>2. /\ d.mem = m /\ d.state = q.state /\ d.node = q.node /\ d.handler = q.handler
      /\ d.path = q.path /\ d.waiting_for_response = q.waiting_for_response
      /\ d.got_transfer_destroy = q.got_transfer_destroy /\ d.invoking_handler = q.invoking_handler
  BY <1>1
<1>3. QED BY <1>1, <1>2 DEF IsRequest

LEMMA WithState ==
  ASSUME NEW q, IsRequest(q), NEW s,
         NEW d, d = [q EXCEPT !.state = s]
  PROVE  /\ IsRequest(d) /\ d.mem = q.mem
         /\ d.state = s /\ d.waiting_for_response = q.waiting_for_response
         /\ d.got_transfer_destroy = q.got_transfer_destroy /\ d.invoking_handler = q.invoking_handler
<1>1. d = [mem |-> q.mem, state |-> s, node |-> q.node,
           handler |-> q.handler, path |-> q.path, waiting_for_response |-> q.waiting_for_response,
           got_transfer_destroy |-> q.got_transfer_destroy, invoking_handler |-> q.invoking_handler]
  BY DEF IsRequest
<1>2. /\ d.mem = q.mem /\ d.state = s /\ d.node = q.node /\ d.handler = q.handler
      /\ d.path = q.path /\ d.waiting_for_response = q.waiting_for_response
      /\ d.got_transfer_destroy = q.got_transfer_destroy /\ d.invoking_handler = q.invoking_handler
  BY <1>1
<1>3. QED BY <1>1, <1>2 DEF IsRequest

LEMMA WithAnswer ==
  ASSUME NEW q, IsRequest(q), NEW a \in BOOLEAN,
         NEW d, d = [q EXCEPT !.waiting_for_response = a]
  PROVE  /\ IsRequest(d) /\ d.mem = q.mem
         /\ d.state = q.state /\ d.waiting_for_response = a
         /\ d.got_transfer_destroy = q.got_transfer_destroy /\ d.invoking_handler = q.invoking_handler
<1>1. d = [mem |-> q.mem, state |-> q.state, node |-> q.node,
           handler |-> q.handler, path |-> q.path, waiting_for_response |-> a,
           got_transfer_destroy |-> q.got_transfer_destroy, invoking_handler |-> q.invoking_handler]
  BY DEF IsRequest
<1>2. /\ d.mem = q.mem /\ d.state = q.state /\ d.node = q.node /\ d.handler = q.handler
      /\ d.path = q.path /\ d.waiting_for_response = a
      /\ d.got_transfer_destroy = q.got_transfer_destroy /\ d.invoking_handler = q.invoking_handler
  BY <1>1
<1>3. QED BY <1>1, <1>2 DEF IsRequest

LEMMA WithDestroyed ==
  ASSUME NEW q, IsRequest(q), NEW t \in BOOLEAN,
         NEW d, d = [q EXCEPT !.got_transfer_destroy = t]
  PROVE  /\ IsRequest(d) /\ d.mem = q.mem
         /\ d.state = q.state /\ d.waiting_for_response = q.waiting_for_response
         /\ d.got_transfer_destroy = t /\ d.invoking_handler = q.invoking_handler
<1>1. d = [mem |-> q.mem, state |-> q.state, node |-> q.node,
           handler |-> q.handler, path |-> q.path, waiting_for_response |-> q.waiting_for_response,
           got_transfer_destroy |-> t, invoking_handler |-> q.invoking_handler]
  BY DEF IsRequest
<1>2. /\ d.mem = q.mem /\ d.state = q.state /\ d.node = q.node /\ d.handler = q.handler
      /\ d.path = q.path /\ d.waiting_for_response = q.waiting_for_response
      /\ d.got_transfer_destroy = t /\ d.invoking_handler = q.invoking_handler
  BY <1>1
<1>3. QED BY <1>1, <1>2 DEF IsRequest

LEMMA WithHandler ==
  ASSUME NEW q, IsRequest(q), NEW h,
         NEW d, d = [q EXCEPT !.handler = h]
  PROVE  /\ IsRequest(d) /\ d.mem = q.mem
         /\ d.state = q.state /\ d.waiting_for_response = q.waiting_for_response
         /\ d.got_transfer_destroy = q.got_transfer_destroy /\ d.invoking_handler = q.invoking_handler
<1>1. d = [mem |-> q.mem, state |-> q.state, node |-> q.node,
           handler |-> h, path |-> q.path, waiting_for_response |-> q.waiting_for_response,
           got_transfer_destroy |-> q.got_transfer_destroy, invoking_handler |-> q.invoking_handler]
  BY DEF IsRequest
<1>2. /\ d.mem = q.mem /\ d.state = q.state /\ d.node = q.node /\ d.handler = h
      /\ d.path = q.path /\ d.waiting_for_response = q.waiting_for_response
      /\ d.got_transfer_destroy = q.got_transfer_destroy /\ d.invoking_handler = q.invoking_handler
  BY <1>1
<1>3. QED BY <1>1, <1>2 DEF IsRequest

LEMMA WithAnswerDue ==
  ASSUME NEW q, IsRequest(q), NEW d, d = [q EXCEPT !.waiting_for_response = TRUE]
  PROVE  /\ IsRequest(d) /\ d.mem = q.mem
         /\ d.state = q.state /\ d.waiting_for_response
         /\ d.got_transfer_destroy = q.got_transfer_destroy /\ d.invoking_handler = q.invoking_handler
<1> DEFINE a == TRUE
<1>1. a \in BOOLEAN
  OBVIOUS
<1>2. a = TRUE
  OBVIOUS
<1>3. d = [q EXCEPT !.waiting_for_response = a]
  OBVIOUS
<1>0. IsRequest(q)
  OBVIOUS
<1> HIDE DEF a
<1>4. /\ IsRequest(d) /\ d.mem = q.mem
      /\ d.state = q.state /\ d.waiting_for_response = a
      /\ d.got_transfer_destroy = q.got_transfer_destroy /\ d.invoking_handler = q.invoking_handler
  BY ONLY <1>0, <1>1, <1>3, WithAnswer
<1>5. QED BY <1>4, <1>2

LEMMA WithoutAnswer ==
  ASSUME NEW q, IsRequest(q), NEW d, d = [q EXCEPT !.waiting_for_response = FALSE]
  PROVE  /\ IsRequest(d) /\ d.mem = q.mem
         /\ d.state = q.state /\ ~d.waiting_for_response
         /\ d.got_transfer_destroy = q.got_transfer_destroy /\ d.invoking_handler = q.invoking_handler
<1> DEFINE a == FALSE
<1>1. a \in BOOLEAN
  OBVIOUS
<1>2. a = FALSE
  OBVIOUS
<1>3. d = [q EXCEPT !.waiting_for_response = a]
  OBVIOUS
<1>0. IsRequest(q)
  OBVIOUS
<1> HIDE DEF a
<1>4. /\ IsRequest(d) /\ d.mem = q.mem
      /\ d.state = q.state /\ d.waiting_for_response = a
      /\ d.got_transfer_destroy = q.got_transfer_destroy /\ d.invoking_handler = q.invoking_handler
  BY ONLY <1>0, <1>1, <1>3, WithAnswer
<1>5. QED BY <1>4, <1>2

(* A request that will get an error page once its handler returns. *)
ErrorBlocked(q) == [q EXCEPT !.waiting_for_response = FALSE, !.state = "BLOCKED_ERROR"]

LEMMA ErrorBlockedIs ==
  ASSUME NEW q, IsRequest(q)
  PROVE  /\ IsRequest(ErrorBlocked(q)) /\ ErrorBlocked(q).mem = q.mem
         /\ ErrorBlocked(q).state = "BLOCKED_ERROR" /\ ~ErrorBlocked(q).waiting_for_response
         /\ ErrorBlocked(q).got_transfer_destroy = q.got_transfer_destroy
         /\ ErrorBlocked(q).invoking_handler = q.invoking_handler
<1> DEFINE d == ErrorBlocked(q)
           s == "BLOCKED_ERROR"
<1>1. d = [q EXCEPT !.waiting_for_response = FALSE, !.state = s]
  BY DEF ErrorBlocked
<1>2. s = "BLOCKED_ERROR"
  OBVIOUS
<1> DEFINE a == FALSE
<1>3. a \in BOOLEAN
  OBVIOUS
<1>4. ~a
  OBVIOUS
<1>5. d = [q EXCEPT !.waiting_for_response = a, !.state = s]
  BY <1>1
<1> HIDE DEF d, s, a
<1>6. d = [mem |-> q.mem, state |-> s, node |-> q.node,
           handler |-> q.handler, path |-> q.path, waiting_for_response |-> a,
           got_transfer_destroy |-> q.got_transfer_destroy, invoking_handler |-> q.invoking_handler]
  BY ONLY <1>5, IsRequest(q) DEF IsRequest
<1>7. /\ d.mem = q.mem /\ d.state = s /\ d.node = q.node /\ d.handler = q.handler
      /\ d.path = q.path /\ d.waiting_for_response = a
      /\ d.got_transfer_destroy = q.got_transfer_destroy /\ d.invoking_handler = q.invoking_handler
  BY ONLY <1>6
<1>8. IsRequest(d)
  BY ONLY IsRequest(q), <1>3, <1>6, <1>7 DEF IsRequest
<1>9. QED BY ONLY <1>2, <1>4, <1>7, <1>8 DEF d

(* A request as invoke_handler leaves it without calling the handler. *)
Blocked(q, s) == [q EXCEPT !.invoking_handler = TRUE, !.state = s]

LEMMA BlockedIs ==
  ASSUME NEW q, IsRequest(q), NEW s
  PROVE  /\ IsRequest(Blocked(q, s))
         /\ Blocked(q, s).mem = q.mem
         /\ Blocked(q, s).state = s
         /\ Blocked(q, s).waiting_for_response = q.waiting_for_response
         /\ Blocked(q, s).got_transfer_destroy = q.got_transfer_destroy
         /\ Blocked(q, s).invoking_handler
<1> DEFINE d == Blocked(q, s)
           i == TRUE
<1>1. d = [q EXCEPT !.invoking_handler = i, !.state = s]
  BY DEF Blocked
<1>2. i \in BOOLEAN
  OBVIOUS
<1>3. i
  OBVIOUS
<1> HIDE DEF d, i
<1>4. d = [mem |-> q.mem, state |-> s, node |-> q.node,
           handler |-> q.handler, path |-> q.path, waiting_for_response |-> q.waiting_for_response,
           got_transfer_destroy |-> q.got_transfer_destroy, invoking_handler |-> i]
  BY ONLY <1>1, IsRequest(q) DEF IsRequest
<1>5. /\ d.mem = q.mem /\ d.state = s /\ d.node = q.node /\ d.handler = q.handler /\ d.path = q.path
      /\ d.waiting_for_response = q.waiting_for_response
      /\ d.got_transfer_destroy = q.got_transfer_destroy
      /\ d.invoking_handler = i
  BY ONLY <1>4
<1>6. IsRequest(d)
  BY ONLY IsRequest(q), <1>2, <1>4, <1>5 DEF IsRequest
<1>7. QED BY ONLY <1>3, <1>5, <1>6 DEF d

(* A request whose handler is called. *)
Begun(q, a) == [q EXCEPT !.invoking_handler = TRUE, !.state = "INVOKING",
                   !.waiting_for_response = a]

LEMMA BegunIs ==
  ASSUME NEW q, IsRequest(q), NEW a \in BOOLEAN
  PROVE  /\ IsRequest(Begun(q, a))
         /\ Begun(q, a).mem = q.mem
         /\ Begun(q, a).state = "INVOKING"
         /\ Begun(q, a).waiting_for_response = a
         /\ Begun(q, a).got_transfer_destroy = q.got_transfer_destroy
         /\ Begun(q, a).invoking_handler
<1> DEFINE d == Begun(q, a)
           i == TRUE
           s == "INVOKING"
<1>1. d = [q EXCEPT !.invoking_handler = i, !.state = s, !.waiting_for_response = a]
  BY DEF Begun
<1>2. i \in BOOLEAN
  OBVIOUS
<1>3. a \in BOOLEAN
  OBVIOUS
<1>4. i
  OBVIOUS
<1>5. s = "INVOKING"
  OBVIOUS
<1> HIDE DEF d, i, s
<1>6. d = [mem |-> q.mem, state |-> s, node |-> q.node,
           handler |-> q.handler, path |-> q.path, waiting_for_response |-> a,
           got_transfer_destroy |-> q.got_transfer_destroy, invoking_handler |-> i]
  BY ONLY <1>1, IsRequest(q) DEF IsRequest
<1>7. /\ d.mem = q.mem /\ d.state = s /\ d.node = q.node /\ d.handler = q.handler /\ d.path = q.path
      /\ d.waiting_for_response = a
      /\ d.got_transfer_destroy = q.got_transfer_destroy
      /\ d.invoking_handler = i
  BY ONLY <1>6
<1>8. IsRequest(d)
  BY ONLY IsRequest(q), <1>2, <1>3, <1>6, <1>7 DEF IsRequest
<1>9. QED BY ONLY <1>4, <1>5, <1>7, <1>8 DEF d

(* A request whose handler has returned. *)
Returned(q) == [q EXCEPT !.invoking_handler = FALSE]

LEMMA ReturnedIs ==
  ASSUME NEW q, IsRequest(q)
  PROVE  /\ IsRequest(Returned(q))
         /\ Returned(q).mem = q.mem
         /\ Returned(q).state = q.state
         /\ Returned(q).waiting_for_response = q.waiting_for_response
         /\ Returned(q).got_transfer_destroy = q.got_transfer_destroy
         /\ ~Returned(q).invoking_handler
<1> DEFINE d == Returned(q)
           i == FALSE
<1>1. d = [q EXCEPT !.invoking_handler = i]
  BY DEF Returned
<1>2. i \in BOOLEAN
  OBVIOUS
<1>3. ~i
  OBVIOUS
<1> HIDE DEF d, i
<1>4. d = [mem |-> q.mem, state |-> q.state, node |-> q.node,
           handler |-> q.handler, path |-> q.path, waiting_for_response |-> q.waiting_for_response,
           got_transfer_destroy |-> q.got_transfer_destroy, invoking_handler |-> i]
  BY ONLY <1>1, IsRequest(q) DEF IsRequest
<1>5. /\ d.mem = q.mem /\ d.state = q.state /\ d.node = q.node /\ d.handler = q.handler /\ d.path = q.path
      /\ d.waiting_for_response = q.waiting_for_response
      /\ d.got_transfer_destroy = q.got_transfer_destroy
      /\ d.invoking_handler = i
  BY ONLY <1>4
<1>6. IsRequest(d)
  BY ONLY IsRequest(q), <1>2, <1>4, <1>5 DEF IsRequest
<1>7. QED BY ONLY <1>3, <1>5, <1>6 DEF d

(* A request that has been answered. *)
NotDue(q) == [q EXCEPT !.waiting_for_response = FALSE]

LEMMA NotDueIs ==
  ASSUME NEW q, IsRequest(q)
  PROVE  /\ IsRequest(NotDue(q))
         /\ NotDue(q).mem = q.mem
         /\ NotDue(q).state = q.state
         /\ ~NotDue(q).waiting_for_response
         /\ NotDue(q).got_transfer_destroy = q.got_transfer_destroy
         /\ NotDue(q).invoking_handler = q.invoking_handler
<1> DEFINE d == NotDue(q)
           a == FALSE
<1>1. d = [q EXCEPT !.waiting_for_response = a]
  BY DEF NotDue
<1>2. a \in BOOLEAN
  OBVIOUS
<1>3. ~a
  OBVIOUS
<1> HIDE DEF d, a
<1>4. d = [mem |-> q.mem, state |-> q.state, node |-> q.node,
           handler |-> q.handler, path |-> q.path, waiting_for_response |-> a,
           got_transfer_destroy |-> q.got_transfer_destroy, invoking_handler |-> q.invoking_handler]
  BY ONLY <1>1, IsRequest(q) DEF IsRequest
<1>5. /\ d.mem = q.mem /\ d.state = q.state /\ d.node = q.node /\ d.handler = q.handler /\ d.path = q.path
      /\ d.waiting_for_response = a
      /\ d.got_transfer_destroy = q.got_transfer_destroy
      /\ d.invoking_handler = q.invoking_handler
  BY ONLY <1>4
<1>6. IsRequest(d)
  BY ONLY IsRequest(q), <1>2, <1>4, <1>5 DEF IsRequest
<1>7. QED BY ONLY <1>3, <1>5, <1>6 DEF d

(* A request that was passed on while it is being called. *)
PassBlocked(q) == [q EXCEPT !.waiting_for_response = FALSE, !.state = "BLOCKED_PASS"]

LEMMA PassBlockedIs ==
  ASSUME NEW q, IsRequest(q)
  PROVE  /\ IsRequest(PassBlocked(q))
         /\ PassBlocked(q).mem = q.mem
         /\ PassBlocked(q).state = "BLOCKED_PASS"
         /\ ~PassBlocked(q).waiting_for_response
         /\ PassBlocked(q).got_transfer_destroy = q.got_transfer_destroy
         /\ PassBlocked(q).invoking_handler = q.invoking_handler
<1> DEFINE d == PassBlocked(q)
           a == FALSE
           s == "BLOCKED_PASS"
<1>1. d = [q EXCEPT !.waiting_for_response = a, !.state = s]
  BY DEF PassBlocked
<1>2. a \in BOOLEAN
  OBVIOUS
<1>3. ~a
  OBVIOUS
<1>4. s = "BLOCKED_PASS"
  OBVIOUS
<1> HIDE DEF d, a, s
<1>5. d = [mem |-> q.mem, state |-> s, node |-> q.node,
           handler |-> q.handler, path |-> q.path, waiting_for_response |-> a,
           got_transfer_destroy |-> q.got_transfer_destroy, invoking_handler |-> q.invoking_handler]
  BY ONLY <1>1, IsRequest(q) DEF IsRequest
<1>6. /\ d.mem = q.mem /\ d.state = s /\ d.node = q.node /\ d.handler = q.handler /\ d.path = q.path
      /\ d.waiting_for_response = a
      /\ d.got_transfer_destroy = q.got_transfer_destroy
      /\ d.invoking_handler = q.invoking_handler
  BY ONLY <1>5
<1>7. IsRequest(d)
  BY ONLY IsRequest(q), <1>2, <1>5, <1>6 DEF IsRequest
<1>8. QED BY ONLY <1>3, <1>4, <1>6, <1>7 DEF d

LEMMA MaybeFreeIs ==
  ASSUME NEW q, IsRequest(q)
  PROVE  /\ IsRequest(MaybeFree(q))
         /\ MaybeFree(q).mem = IF NotNeeded(q) THEN "freed" ELSE q.mem
         /\ MaybeFree(q).state = q.state
         /\ MaybeFree(q).waiting_for_response = q.waiting_for_response
         /\ MaybeFree(q).got_transfer_destroy = q.got_transfer_destroy
         /\ MaybeFree(q).invoking_handler = q.invoking_handler
<1>1. CASE NotNeeded(q)
  <2>1. MaybeFree(q) = [q EXCEPT !.mem = "freed"]
    BY <1>1 DEF NotNeeded, MaybeFree
  <2>2. QED BY <1>1, <2>1 DEF IsRequest, Memory
<1>2. CASE ~NotNeeded(q)
  BY <1>2 DEF NotNeeded, MaybeFree
<1>3. QED BY <1>1, <1>2

LEMMA TransferDestroyedIs ==
  ASSUME NEW q, IsRequest(q)
  PROVE  /\ IsRequest(TransferDestroyed(q))
         /\ TransferDestroyed(q).mem =
              IF ~q.waiting_for_response /\ ~q.invoking_handler THEN "freed" ELSE q.mem
         /\ TransferDestroyed(q).state = q.state
         /\ TransferDestroyed(q).waiting_for_response = q.waiting_for_response
         /\ TransferDestroyed(q).got_transfer_destroy
         /\ TransferDestroyed(q).invoking_handler = q.invoking_handler
<1> DEFINE d == [q EXCEPT !.got_transfer_destroy = TRUE]
<1>1. /\ IsRequest(d) /\ d.mem = q.mem /\ d.state = q.state
      /\ d.waiting_for_response = q.waiting_for_response /\ d.got_transfer_destroy
      /\ d.invoking_handler = q.invoking_handler
  BY WithDestroyed
<1>2. TransferDestroyed(q) = MaybeFree(d)
  BY DEF TransferDestroyed
<1> HIDE DEF d
<1>3. QED BY <1>1, <1>2, MaybeFreeIs DEF NotNeeded

(* A destroyed transfer that was answered leaves its request as it ought to *)
(* be. *)
LEMMA DestroyedKept ==
  ASSUME NEW q, IsRequest(q), NEW x \in Transfers, NEW queued,
         RequestKept(q, x), TransferKept(q, x, queued),
         x.responded \/ ~q.invoking_handler,
         q.mem # "none",
         x.responded => x.content = "empty" \/ ~q.invoking_handler,
         NEW e, e = TransferDestroyed(q),
         NEW y \in Transfers, y.responded = x.responded, y.kind = x.kind, y.content = x.content
  PROVE  RequestKept(e, y) /\ e.mem # "none" /\ e.got_transfer_destroy
         /\ e.invoking_handler = q.invoking_handler
<1>1. /\ IsRequest(e)
      /\ e.mem = IF ~q.waiting_for_response /\ ~q.invoking_handler THEN "freed" ELSE q.mem
      /\ e.state = q.state
      /\ e.waiting_for_response = q.waiting_for_response
      /\ e.got_transfer_destroy
      /\ e.invoking_handler = q.invoking_handler
  BY TransferDestroyedIs
<1>2. e.mem # "none"
  BY <1>1
<1>3. e.mem = "freed" <=> NotNeeded(e)
  BY <1>1 DEF RequestKept, NotNeeded
<1>4. ToAnswer(e) => ~y.responded
  BY <1>1 DEF RequestKept, ToAnswer
<1>5. /\ e.state \in {"INIT", "WAITING", "GOT_RESPONSE"} => ~e.invoking_handler
      /\ e.state \in {"INVOKING", "BLOCKED_PASS", "BLOCKED_INTERNAL_REDIRECT"} => e.invoking_handler
  BY <1>1 DEF RequestKept
<1>6. ~(e.state = "INVOKING" /\ ~e.waiting_for_response)
  BY <1>1 DEF RequestKept
<1>7. y.kind = "websocket" /\ e.invoking_handler => ~e.got_transfer_destroy
  BY <1>1 DEF RequestKept
<1>8. y.kind = "websocket" /\ e.state # "INIT" =>
       /\ ~e.waiting_for_response /\ ~y.responded
       /\ e.state \in {"INVOKING", "BLOCKED_PASS", "WAITING"}
  BY <1>1 DEF RequestKept
<1>9. QED BY <1>1, <1>2, <1>3, <1>4, <1>5, <1>6, <1>7, <1>8 DEF RequestKept

-----------------------------------------------------------------------------
(* Worlds. *)

Unmoved(v, w) ==
  v.stack = w.stack /\ v.freed = w.freed /\ v.fault = w.fault

OthersSame(v, w, r) ==
  \A s \in Requests \ {r}: v.rreq[s] = w.rreq[s] /\ v.xfer[s] = w.xfer[s]

WithRequest(w, r, q) == [w EXCEPT !.rreq[r] = q]
WithTransfer(w, r, x) == [w EXCEPT !.xfer[r] = x]

(* What a world is like after one request, or one transfer, was replaced. *)
LEMMA WorldWithRequest ==
  ASSUME NEW w, IsWorld(w), NEW r \in Requests, NEW q, IsRequest(q),
         NEW v, v = WithRequest(w, r, q)
  PROVE  /\ IsWorld(v) /\ Unmoved(v, w) /\ OthersSame(v, w, r)
         /\ v.rreq[r] = q /\ v.xfer = w.xfer /\ v.queue = w.queue
<1> DEFINE f == [w.rreq EXCEPT ![r] = q]
<1>1. v = [rreq |-> f, xfer |-> w.xfer, queue |-> w.queue, open |-> w.open,
           stack |-> w.stack, freed |-> w.freed, fault |-> w.fault, called |-> w.called]
  BY DEF IsWorld, WithRequest, WithTransfer
<1>2. /\ v.rreq = f /\ v.xfer = w.xfer /\ v.queue = w.queue /\ v.open = w.open
      /\ v.stack = w.stack /\ v.freed = w.freed /\ v.fault = w.fault /\ v.called = w.called
  BY <1>1
<1>3. f = [s \in Requests |-> IF s = r THEN q ELSE w.rreq[s]]
  BY DEF IsWorld
<1> HIDE DEF f
<1>4. /\ f[r] = q /\ \A s \in Requests \ {r}: f[s] = w.rreq[s]
      /\ f = [s \in Requests |-> f[s]]
  BY <1>3
<1>5. \A s \in Requests: IsRequest(f[s])
  BY <1>4 DEF IsWorld
<1>6. IsWorld(v)
  BY <1>1, <1>2, <1>4, <1>5 DEF IsWorld
<1>7. QED BY <1>2, <1>4, <1>6 DEF Unmoved, OthersSame

LEMMA WorldWithTransfer ==
  ASSUME NEW w, IsWorld(w), NEW r \in Requests, NEW x \in Transfers,
         NEW v, v = WithTransfer(w, r, x)
  PROVE  /\ IsWorld(v) /\ Unmoved(v, w) /\ OthersSame(v, w, r)
         /\ v.rreq = w.rreq /\ v.xfer[r] = x /\ v.queue = w.queue
<1> DEFINE f == [w.xfer EXCEPT ![r] = x]
<1>1. v = [rreq |-> w.rreq, xfer |-> f, queue |-> w.queue, open |-> w.open,
           stack |-> w.stack, freed |-> w.freed, fault |-> w.fault, called |-> w.called]
  BY DEF IsWorld, WithRequest, WithTransfer
<1>2. /\ v.rreq = w.rreq /\ v.xfer = f /\ v.queue = w.queue /\ v.open = w.open
      /\ v.stack = w.stack /\ v.freed = w.freed /\ v.fault = w.fault /\ v.called = w.called
  BY <1>1
<1>3. /\ f \in [Requests -> Transfers] /\ f[r] = x
      /\ \A s \in Requests \ {r}: f[s] = w.xfer[s]
  BY DEF IsWorld
<1> HIDE DEF f
<1>4. IsWorld(v)
  BY <1>1, <1>2, <1>3 DEF IsWorld
<1>5. QED BY <1>2, <1>3, <1>4 DEF Unmoved, OthersSame

-----------------------------------------------------------------------------
(* Starting transfers. *)

Ended(w, i) == w.xfer[w.queue[i]].responded /\ w.xfer[w.queue[i]].content = "empty"
Finished(w) == {i \in DOMAIN w.queue: \A j \in 1..i: Ended(w, j)}

(* The responses that end where they start are the first of the queue. *)
LEMMA FinishedFirst ==
  ASSUME NEW w, IsWorld(w)
  PROVE  /\ Cardinality(Finished(w)) \in 0..Len(w.queue)
         /\ Finished(w) = 1..Cardinality(Finished(w))
<1>1. Len(w.queue) \in Nat /\ DOMAIN w.queue = 1..Len(w.queue)
  BY DEF IsWorld
<1>2. Finished(w) \in SUBSET (1..Len(w.queue))
  BY <1>1 DEF Finished
<1>3. \A i \in Finished(w): 1..i \subseteq Finished(w)
  <2> SUFFICES ASSUME NEW i \in Finished(w), NEW k \in 1..i PROVE k \in Finished(w)
    OBVIOUS
  <2>1. i \in 1..Len(w.queue) /\ \A j \in 1..i: Ended(w, j)
    BY <1>1 DEF Finished
  <2>2. k \in 1..Len(w.queue) /\ \A j \in 1..k: Ended(w, j)
    BY <1>1, <2>1
  <2>3. QED BY <1>1, <2>2 DEF Finished
<1>4. QED BY <1>1, <1>2, <1>3, InitialSegment

(* What is left of the queue when the first k are done. *)
LEMMA RestOfQueue ==
  ASSUME NEW q \in Seq(Requests), Distinct(q), NEW k \in 0..Len(q)
  PROVE  LET rest == SubSeq(q, k + 1, Len(q)) IN
         /\ rest \in Seq(Requests) /\ Distinct(rest)
         /\ \A r \in Requests: (\E i \in DOMAIN rest: rest[i] = r) <=>
              (\E i \in DOMAIN q: q[i] = r) /\ ~\E i \in 1..k: q[i] = r
<1> DEFINE rest == SubSeq(q, k + 1, Len(q))
           n == Len(q)
<1>1. n \in Nat /\ DOMAIN q = 1..n /\ k \in 0..n
  OBVIOUS
<1>2. /\ rest \in Seq(Requests) /\ Len(rest) = n - k /\ DOMAIN rest = 1..(n - k)
      /\ \A i \in 1..(n - k): rest[i] = q[k + i]
  <2>1. \A i \in (k + 1)..n: q[i] \in Requests
    BY <1>1
  <2>2. k + 1 \in Int /\ n \in Int
    BY <1>1
  <2>3. /\ rest \in Seq(Requests)
        /\ Len(rest) = IF k + 1 <= n THEN n - (k + 1) + 1 ELSE 0
        /\ \A i \in 1..(n - (k + 1) + 1): rest[i] = q[k + 1 + i - 1]
    BY <2>1, <2>2, SubSeqProperties
  <2>4. QED BY <1>1, <2>3
<1> HIDE DEF rest, n
<1>3. Distinct(rest)
  <2> SUFFICES ASSUME NEW i \in DOMAIN rest, NEW j \in DOMAIN rest, rest[i] = rest[j]
               PROVE  i = j
    BY DEF Distinct
  <2>1. k + i \in DOMAIN q /\ k + j \in DOMAIN q /\ q[k + i] = q[k + j]
    BY <1>1, <1>2
  <2>2. k + i = k + j
    BY <2>1 DEF Distinct
  <2>3. QED BY <1>1, <1>2, <2>2
<1>4. ASSUME NEW r \in Requests
      PROVE  (\E i \in DOMAIN rest: rest[i] = r) <=>
              (\E i \in DOMAIN q: q[i] = r) /\ ~\E i \in 1..k: q[i] = r
  <2>1. ASSUME NEW i \in DOMAIN rest, rest[i] = r
        PROVE  (\E j \in DOMAIN q: q[j] = r) /\ ~\E j \in 1..k: q[j] = r
    <3>1. k + i \in DOMAIN q /\ q[k + i] = r
      BY <1>1, <1>2, <2>1
    <3>2. \A j \in 1..k: j \in DOMAIN q /\ j # k + i
      BY <1>1, <1>2
    <3>3. QED BY <3>1, <3>2 DEF Distinct
  <2>2. ASSUME NEW i \in DOMAIN q, q[i] = r, ~\E j \in 1..k: q[j] = r
        PROVE  \E j \in DOMAIN rest: rest[j] = r
    <3>1. i \in 1..n /\ ~(i \in 1..k)
      BY <1>1, <2>2
    <3>2. i - k \in 1..(n - k) /\ k + (i - k) = i
      BY <1>1, <3>1
    <3>3. rest[i - k] = r
      BY <1>2, <2>2, <3>2
    <3>4. QED BY <1>2, <3>2, <3>3
  <2>3. QED BY <2>1, <2>2
<1>5. QED BY <1>2, <1>3, <1>4 DEF rest, n

(* A request stays as it is, or its transfer was answered and is gone. *)
StaysOrEnds(v, w, s) ==
  \/ /\ v.rreq[s] = w.rreq[s] /\ v.xfer[s] = w.xfer[s]
     /\ Queued(v, s) <=> Queued(w, s)
  \/ /\ w.xfer[s].responded /\ w.xfer[s].content = "empty" /\ Queued(w, s)
     /\ v.rreq[s] = TransferDestroyed(w.rreq[s])
     /\ v.xfer[s] = [w.xfer[s] EXCEPT !.mem = "freed"] /\ ~Queued(v, s)

(* start_transfer ends some transfers and leaves everything else alone. *)
LEMMA StartTransfersGives ==
  ASSUME NEW w, IsWorld(w), NEW v, v = StartTransfers(w)
  PROVE  /\ IsWorld(v) /\ Unmoved(v, w)
         /\ \A s \in Requests: StaysOrEnds(v, w, s)
<1> DEFINE k == Cardinality(Finished(w))
           gone == {w.queue[i]: i \in Finished(w)}
           rest == SubSeq(w.queue, k + 1, Len(w.queue))
           qs == [s \in Requests |-> IF s \in gone THEN TransferDestroyed(w.rreq[s]) ELSE w.rreq[s]]
           xs == [s \in Requests |-> IF s \in gone THEN [w.xfer[s] EXCEPT !.mem = "freed"]
                                     ELSE w.xfer[s]]
<1>1. v = [w EXCEPT !.queue = rest, !.rreq = qs, !.xfer = xs]
  BY DEF StartTransfers, Finished, Ended
<1>2. k \in 0..Len(w.queue) /\ Finished(w) = 1..k
  BY FinishedFirst
<1>3. /\ rest \in Seq(Requests) /\ Distinct(rest)
      /\ \A s \in Requests: (\E i \in DOMAIN rest: rest[i] = s) <=> Queued(w, s) /\ s \notin gone
  <2>1. w.queue \in Seq(Requests) /\ Distinct(w.queue)
    BY DEF IsWorld
  <2>2. \A s \in Requests: s \in gone <=> \E i \in 1..k: w.queue[i] = s
    BY <1>2
  <2> HIDE DEF gone, k
  <2>3. /\ rest \in Seq(Requests) /\ Distinct(rest)
        /\ \A s \in Requests: (\E i \in DOMAIN rest: rest[i] = s) <=>
             (\E i \in DOMAIN w.queue: w.queue[i] = s) /\ ~\E i \in 1..k: w.queue[i] = s
    BY <1>2, <2>1, RestOfQueue
  <2> HIDE DEF rest
  <2>4. QED BY <2>2, <2>3 DEF Queued
<1>4. \A s \in Requests: s \in gone =>
        w.xfer[s].responded /\ w.xfer[s].content = "empty" /\ Queued(w, s)
  <2> SUFFICES ASSUME NEW i \in Finished(w)
               PROVE  Ended(w, i) /\ i \in DOMAIN w.queue
    BY DEF Ended, Queued
  <2>1. i \in DOMAIN w.queue /\ \A j \in 1..i: Ended(w, j)
    BY DEF Finished
  <2>2. i \in 1..i
    <3>1. w.queue \in Seq(Requests)
      BY DEF IsWorld
    <3>2. QED BY <2>1, <3>1
  <2>3. QED BY ONLY <2>1, <2>2
<1>5. xs \in [Requests -> Transfers]
  <2>1. \A x \in Transfers: [x EXCEPT !.mem = "freed"] \in Transfers
    BY DEF Transfers, Memory
  <2>2. \A s \in Requests: w.xfer[s] \in Transfers
    BY DEF IsWorld
  <2>3. \A s \in Requests: (IF s \in gone THEN [w.xfer[s] EXCEPT !.mem = "freed"] ELSE w.xfer[s]) \in Transfers
    BY <2>1, <2>2
  <2> HIDE DEF gone
  <2>4. QED BY <2>3
<1>6. qs = [s \in Requests |-> qs[s]] /\ \A s \in Requests: IsRequest(qs[s])
  <2>1. \A s \in Requests: IsRequest(w.rreq[s]) /\ IsRequest(TransferDestroyed(w.rreq[s]))
    BY TransferDestroyedIs DEF IsWorld
  <2>2. QED BY <2>1
<1>7. \A s \in Requests:
        \/ s \notin gone /\ qs[s] = w.rreq[s] /\ xs[s] = w.xfer[s]
        \/ s \in gone /\ qs[s] = TransferDestroyed(w.rreq[s])
           /\ xs[s] = [w.xfer[s] EXCEPT !.mem = "freed"]
  OBVIOUS
<1> HIDE DEF k, gone, rest, qs, xs
<1>8. v = [rreq |-> qs, xfer |-> xs, queue |-> rest, open |-> w.open, stack |-> w.stack,
           freed |-> w.freed, fault |-> w.fault, called |-> w.called]
  BY <1>1 DEF IsWorld
<1>9. /\ v.rreq = qs /\ v.xfer = xs /\ v.queue = rest /\ v.open = w.open
      /\ v.stack = w.stack /\ v.freed = w.freed /\ v.fault = w.fault /\ v.called = w.called
  BY <1>8
<1>10. IsWorld(v)
  BY <1>3, <1>5, <1>6, <1>8, <1>9 DEF IsWorld
<1>11. \A s \in Requests: Queued(v, s) <=> Queued(w, s) /\ s \notin gone
  BY <1>3, <1>9 DEF Queued
<1>12. \A s \in Requests: StaysOrEnds(v, w, s)
  BY <1>4, <1>7, <1>9, <1>11 DEF StaysOrEnds
<1>13. QED BY <1>9, <1>10, <1>12 DEF Unmoved

(* The requests but r are between two calls. *)
RestKept(w, r) == \A s \in Requests \ {r}: Kept(w, s)

(* What happens to r does not disturb the other requests. *)
LEMMA OthersStayKept ==
  ASSUME NEW w, NEW r \in Requests, RestKept(w, r),
         NEW v, Unmoved(v, w), OthersSame(v, w, r),
         \A s \in Requests \ {r}: Queued(v, s) <=> Queued(w, s)
  PROVE  RestKept(v, r)
<1> SUFFICES ASSUME NEW s \in Requests \ {r} PROVE Kept(v, s)
  BY DEF RestKept
<1>1. Kept(w, s) /\ v.rreq[s] = w.rreq[s] /\ v.xfer[s] = w.xfer[s]
  BY DEF RestKept, OthersSame
<1>2. (Calling(v, s) <=> Calling(w, s)) /\ (Queued(v, s) <=> Queued(w, s))
  BY DEF Calling, Unmoved
<1>3. QED BY <1>1, <1>2 DEF Kept, TransferKept

(* A transfer that was answered may leave the queue and be freed. *)
LEMMA EndedTransferKept ==
  ASSUME NEW q, NEW x \in Transfers, NEW e, NEW y \in Transfers,
         TransferKept(q, x, TRUE), x.responded, y = [x EXCEPT !.mem = "freed"],
         e.mem # "none"
  PROVE  TransferKept(e, y, FALSE)
<1>1. x.returned /\ y.returned = x.returned /\ y.responded = x.responded /\ y.failed = x.failed
  BY DEF TransferKept, Transfers
<1>2. QED BY <1>1 DEF TransferKept

(* Starting transfers keeps each request. *)
LEMMA StartKeepsOne ==
  ASSUME NEW w, IsWorld(w), NEW s \in Requests, Kept(w, s),
         NEW v, IsWorld(v), Unmoved(v, w), StaysOrEnds(v, w, s)
  PROVE  Kept(v, s)
<1>1. Calling(v, s) <=> Calling(w, s)
  BY DEF Calling, Unmoved
<1>2. CASE /\ v.rreq[s] = w.rreq[s] /\ v.xfer[s] = w.xfer[s]
           /\ Queued(v, s) <=> Queued(w, s)
  BY <1>1, <1>2 DEF Kept, TransferKept
<1>3. CASE /\ w.xfer[s].responded /\ w.xfer[s].content = "empty" /\ Queued(w, s)
           /\ v.rreq[s] = TransferDestroyed(w.rreq[s])
           /\ v.xfer[s] = [w.xfer[s] EXCEPT !.mem = "freed"] /\ ~Queued(v, s)
  <2> DEFINE q == w.rreq[s]
             x == w.xfer[s]
             e == v.rreq[s]
             y == v.xfer[s]
  <2>1. IsRequest(q) /\ x \in Transfers /\ y \in Transfers
    BY DEF IsWorld
  <2>2. RequestKept(q, x) /\ TransferKept(q, x, TRUE)
    BY <1>3 DEF Kept, TransferKept
  <2>3. /\ y = [x EXCEPT !.mem = "freed"] /\ x.responded /\ x.content = "empty"
        /\ e = TransferDestroyed(q)
    BY <1>3
  <2>4. q.invoking_handler <=> Calling(w, s)
    BY DEF Kept
  <2>5. q.mem # "none"
    BY <2>2, <2>3 DEF TransferKept
  <2> HIDE DEF q, x, e, y
  <2>6. y.responded = x.responded /\ y.kind = x.kind /\ y.content = x.content
    BY <2>1, <2>3 DEF Transfers
  <2>7. /\ RequestKept(e, y) /\ e.mem # "none"
        /\ e.invoking_handler = q.invoking_handler
    BY <2>1, <2>2, <2>3, <2>5, <2>6, DestroyedKept
  <2>8. TransferKept(e, y, FALSE)
    BY <2>1, <2>2, <2>3, <2>7, EndedTransferKept
  <2>9. QED BY <1>1, <1>3, <2>4, <2>7, <2>8 DEF Kept, TransferKept, q, x, e, y
<1>4. QED BY <1>2, <1>3 DEF StaysOrEnds

-----------------------------------------------------------------------------
(* Answers. *)

(* What r has once it was answered with content. *)
Answered(v, w, r, content) ==
  /\ IsWorld(v) /\ Unmoved(v, w) /\ RestKept(v, r)
  /\ TransferKept(v.rreq[r], v.xfer[r], Queued(v, r))
  /\ v.xfer[r].kind = w.xfer[r].kind
  /\ v.xfer[r].responded /\ ~w.xfer[r].responded
  /\ ~w.xfer[r].failed => v.xfer[r].content = content
  /\ \/ v.rreq[r] = w.rreq[r]
     \/ content = "empty" /\ ~w.xfer[r].failed /\ v.rreq[r] = TransferDestroyed(w.rreq[r])

(* dsk_http_server_stream_respond answers a request once. *)
LEMMA StreamRespondGives ==
  ASSUME NEW w, IsWorld(w), w.fault = "none", NEW r \in Requests, RestKept(w, r),
         TransferKept(w.rreq[r], w.xfer[r], Queued(w, r)), w.rreq[r].mem # "none",
         NEW content \in {"empty", "body"},
         NEW v, v = StreamRespond(w, r, content),
         v.fault = "none" \/ ~w.xfer[r].responded
  PROVE  Answered(v, w, r, content)
<1> DEFINE x == w.xfer[r]
<1>1. x \in Transfers /\ IsRequest(w.rreq[r])
  BY DEF IsWorld
<1>2. x.mem = "live" /\ ~x.responded /\ x.returned
  <2>1. Fail(w, "responded twice").fault = "responded twice"
    BY DEF Fail, IsWorld
  <2>2. CASE v.fault = "none"
    <3>1. x.mem = "live" /\ ~x.responded
      BY <2>1, <2>2 DEF StreamRespond
    <3>2. QED BY <3>1 DEF TransferKept
  <2>3. CASE ~x.responded
    BY <2>3 DEF TransferKept
  <2>4. QED BY <2>2, <2>3
<1>3. CASE x.failed
  <2> DEFINE y == [x EXCEPT !.responded = TRUE, !.mem = "freed"]
  <2>1. v = WithTransfer(w, r, y)
    BY <1>2, <1>3 DEF StreamRespond, WithTransfer
  <2>2. /\ y \in Transfers /\ y.responded /\ y.returned = x.returned /\ y.failed = x.failed
        /\ y.kind = x.kind /\ y.mem = "freed"
    BY <1>1 DEF Transfers, Memory
  <2> HIDE DEF y
  <2>3. /\ IsWorld(v) /\ Unmoved(v, w) /\ OthersSame(v, w, r)
        /\ v.rreq = w.rreq /\ v.xfer[r] = y /\ v.queue = w.queue
    BY <2>1, <2>2, WorldWithTransfer
  <2>4. RestKept(v, r)
    BY <2>3, OthersStayKept DEF Queued
  <2>5. Queued(v, r) <=> Queued(w, r)
    BY <2>3 DEF Queued
  <2>6. TransferKept(v.rreq[r], y, Queued(v, r))
    BY <1>2, <1>3, <2>2, <2>3, <2>5 DEF TransferKept
  <2>7. QED BY <1>2, <1>3, <2>2, <2>3, <2>4, <2>6 DEF Answered
<1>4. CASE ~x.failed
  <2> DEFINE y == [x EXCEPT !.responded = TRUE, !.content = content]
             u == WithTransfer(w, r, y)
  <2>1. v = StartTransfers(u)
    BY <1>2, <1>4 DEF StreamRespond, WithTransfer
  <2>2. /\ y \in Transfers /\ y.responded /\ y.returned = x.returned /\ y.failed = x.failed
        /\ y.kind = x.kind /\ y.content = content /\ y.mem = x.mem
    BY <1>1 DEF Transfers
  <2> HIDE DEF y
  <2>3. /\ IsWorld(u) /\ Unmoved(u, w) /\ OthersSame(u, w, r)
        /\ u.rreq = w.rreq /\ u.xfer[r] = y /\ u.queue = w.queue
    BY <2>2, WorldWithTransfer
  <2> HIDE DEF u
  <2>4. RestKept(u, r)
    BY <2>3, OthersStayKept DEF Queued
  <2>5. Queued(u, r) <=> Queued(w, r)
    BY <2>3 DEF Queued
  <2>6. TransferKept(u.rreq[r], y, Queued(u, r))
    BY <1>2, <1>4, <2>2, <2>3, <2>5 DEF TransferKept
  <2>7. /\ IsWorld(v) /\ Unmoved(v, u)
        /\ \A s \in Requests: StaysOrEnds(v, u, s)
    BY <2>1, <2>3, StartTransfersGives
  <2>8. RestKept(v, r)
    BY <2>3, <2>4, <2>7, StartKeepsOne DEF RestKept
  <2>9. Unmoved(v, w)
    BY <2>3, <2>7 DEF Unmoved
  <2>10. CASE /\ v.rreq[r] = u.rreq[r] /\ v.xfer[r] = u.xfer[r]
              /\ Queued(v, r) <=> Queued(u, r)
    <3>1. TransferKept(v.rreq[r], v.xfer[r], Queued(v, r))
      BY <2>3, <2>6, <2>10 DEF TransferKept
    <3>2. QED BY <1>2, <1>4, <2>2, <2>3, <2>7, <2>8, <2>9, <2>10, <3>1 DEF Answered
  <2>11. CASE /\ u.xfer[r].responded /\ u.xfer[r].content = "empty" /\ Queued(u, r)
              /\ v.rreq[r] = TransferDestroyed(u.rreq[r])
              /\ v.xfer[r] = [u.xfer[r] EXCEPT !.mem = "freed"] /\ ~Queued(v, r)
    <3> DEFINE e == v.rreq[r]
               z == v.xfer[r]
    <3>1. z \in Transfers /\ z = [y EXCEPT !.mem = "freed"] /\ ~Queued(v, r)
      BY <2>3, <2>7, <2>11 DEF IsWorld
    <3>2. e = TransferDestroyed(w.rreq[r]) /\ e.mem # "none" /\ content = "empty"
      BY <1>1, <2>2, <2>3, <2>11, TransferDestroyedIs
    <3> HIDE DEF e, z
    <3>3. z.kind = x.kind /\ z.responded /\ z.content = content
      BY <2>2, <3>1 DEF Transfers
    <3>4. TransferKept(u.rreq[r], y, TRUE)
      BY <2>6, <2>11 DEF TransferKept
    <3>5. TransferKept(e, z, FALSE)
      BY <2>2, <3>1, <3>2, <3>4, EndedTransferKept
    <3>6. TransferKept(v.rreq[r], v.xfer[r], Queued(v, r))
      BY <3>1, <3>5 DEF TransferKept, e, z
    <3>7. QED BY <1>2, <1>4, <2>7, <2>8, <2>9, <3>2, <3>3, <3>6 DEF Answered, e, z
  <2>12. QED BY <2>7, <2>10, <2>11 DEF StaysOrEnds
<1>5. QED BY <1>3, <1>4

-----------------------------------------------------------------------------

(* A world in the middle of a call about r: its request is not as it will be. *)
Between(w, r) ==
  /\ IsWorld(w) /\ w.fault = "none" /\ RestKept(w, r)
  /\ TransferKept(w.rreq[r], w.xfer[r], Queued(w, r)) /\ w.rreq[r].mem # "none"
  /\ w.rreq[r].invoking_handler <=> Calling(w, r)
  /\ ~w.freed

(* A call about r begins with all requests kept, *)
LEMMA KeptIsBetween ==
  ASSUME NEW w, WorldKept(w), w.fault = "none", ~w.freed, NEW r \in Requests,
         w.rreq[r].mem # "none"
  PROVE  Between(w, r)
BY DEF WorldKept, Between, RestKept, Kept

(* In the middle of a call a flag or the state of the request changes. *)
LEMMA StillBetween ==
  ASSUME NEW r \in Requests, NEW w, Between(w, r), NEW e, IsRequest(e), e.mem # "none",
         e.invoking_handler = w.rreq[r].invoking_handler,
         e.got_transfer_destroy = w.rreq[r].got_transfer_destroy,
         NEW v, v = WithRequest(w, r, e)
  PROVE  /\ Between(v, r) /\ v.rreq[r] = e /\ v.xfer = w.xfer /\ v.queue = w.queue
         /\ Unmoved(v, w)
<1>1. /\ IsWorld(v) /\ Unmoved(v, w) /\ OthersSame(v, w, r)
      /\ v.rreq[r] = e /\ v.xfer = w.xfer /\ v.queue = w.queue
  BY WorldWithRequest DEF Between
<1>2. RestKept(v, r)
  BY <1>1, OthersStayKept DEF Between, Queued
<1>3. (Queued(v, r) <=> Queued(w, r)) /\ (Calling(v, r) <=> Calling(w, r))
  BY <1>1 DEF Queued, Calling, Unmoved
<1>4. v.fault = "none" /\ ~v.freed
  BY <1>1 DEF Unmoved, Between
<1>5. TransferKept(e, w.xfer[r], Queued(v, r))
  BY <1>3 DEF Between, TransferKept
<1>6. e.invoking_handler <=> Calling(v, r)
  BY <1>3 DEF Between
<1>7. QED BY <1>1, <1>2, <1>4, <1>5, <1>6 DEF Between

(* and ends so when the request of r is as it ought to be. *)
LEMMA BetweenIsKept ==
  ASSUME NEW r \in Requests, NEW w, Between(w, r), RequestKept(w.rreq[r], w.xfer[r])
  PROVE  Survives(w)
BY DEF Survives, WorldKept, Between, RestKept, Kept

(* An error page is sent, and the request freed if nobody needs it. *)
LEMMA SendErrorKeeps ==
  ASSUME NEW r \in Requests, NEW w, Between(w, r), ~w.xfer[r].responded,
         ~ToAnswer(w.rreq[r]), w.rreq[r].state # "INVOKING",
         w.rreq[r].mem = "freed" => NotNeeded(w.rreq[r]),
         w.rreq[r].state \in {"INIT", "WAITING", "GOT_RESPONSE"} => ~w.rreq[r].invoking_handler,
         w.xfer[r].kind = "websocket" => w.rreq[r].state = "INIT",
         NEW v, v = SendError(w, r)
  PROVE  Survives(v)
<1> DEFINE sent == StreamRespond(w, r, "body")
           q == w.rreq[r]
           e == MaybeFree(sent.rreq[r])
<1>1. v = WithRequest(sent, r, e)
  BY DEF SendError, WithRequest
<1>3. Answered(sent, w, r, "body")
  BY StreamRespondGives DEF Between
<1> HIDE DEF sent
<1>2. sent.fault = "none"
  BY <1>3 DEF Answered, Unmoved, Between
<1>4. /\ IsWorld(sent) /\ Unmoved(sent, w) /\ RestKept(sent, r)
      /\ TransferKept(sent.rreq[r], sent.xfer[r], Queued(sent, r))
      /\ sent.xfer[r].kind = w.xfer[r].kind /\ sent.rreq[r] = q
  BY <1>3 DEF Answered
<1>5. IsRequest(q) /\ q.mem # "none"
  BY DEF Between, IsWorld
<1>6. /\ IsRequest(e) /\ e.mem = IF NotNeeded(q) THEN "freed" ELSE q.mem
      /\ e.state = q.state /\ e.waiting_for_response = q.waiting_for_response
      /\ e.got_transfer_destroy = q.got_transfer_destroy
      /\ e.invoking_handler = q.invoking_handler
  BY <1>4, <1>5, MaybeFreeIs
<1>7. e.mem # "none"
  BY <1>5, <1>6
<1>8. Calling(sent, r) <=> Calling(w, r)
  BY <1>4 DEF Calling, Unmoved
<1>9. Between(sent, r)
  BY <1>2, <1>4, <1>5, <1>8 DEF Between, Unmoved
<1>10. Between(v, r) /\ v.rreq[r] = e /\ v.xfer = sent.xfer
  BY <1>1, <1>4, <1>6, <1>7, <1>9, StillBetween
<1>11. e.mem = "freed" <=> NotNeeded(e)
  BY <1>5, <1>6 DEF NotNeeded
<1>12. ~ToAnswer(e) /\ e.state # "INVOKING"
  BY <1>6 DEF ToAnswer
<1>13. e.state \in {"INIT", "WAITING", "GOT_RESPONSE"} => ~e.invoking_handler
  BY <1>6
<1>14. sent.xfer[r].kind = "websocket" => e.state = "INIT"
  BY <1>4, <1>6
<1> HIDE DEF e, q
<1>15. RequestKept(e, sent.xfer[r])
  BY <1>7, <1>11, <1>12, <1>13, <1>14 DEF RequestKept, ToAnswer
<1>16. QED BY <1>10, <1>15, BetweenIsKept

(* _dsk_http_server_request_respond_error, and what calls it. *)
LEMMA RespondErrorKeeps ==
  ASSUME NEW r \in Requests, NEW w, Between(w, r), w.rreq[r].mem = "live",
         ~w.xfer[r].responded,
         w.rreq[r].state \in {"INIT", "INVOKING", "WAITING"},
         w.rreq[r].state = "INIT" \/ w.rreq[r].waiting_for_response,
         w.rreq[r].invoking_handler <=> w.rreq[r].state = "INVOKING",
         w.rreq[r].state # "INIT" => w.xfer[r].kind # "websocket",
         NEW v, v = RespondError(w, r)
  PROVE  Survives(v)
<1> DEFINE q == w.rreq[r]
           x == w.xfer[r]
<1>1. IsRequest(q) /\ q.mem = "live" /\ IsWorld(w) /\ x \in Transfers
  BY DEF Between, IsWorld
<1>2. /\ q.state \in {"WAITING", "INVOKING", "INIT"}
      /\ q.state = "INIT" \/ q.waiting_for_response
  OBVIOUS
<1>3. CASE q.state = "INVOKING"
  <2> DEFINE e == [q EXCEPT !.waiting_for_response = FALSE, !.state = "BLOCKED_ERROR"]
  <2>1. v = WithRequest(w, r, e)
    BY <1>2, <1>3 DEF RespondError, WithRequest
  <2>2. /\ IsRequest(e) /\ e.mem = "live" /\ e.state = "BLOCKED_ERROR"
        /\ ~e.waiting_for_response /\ e.invoking_handler = q.invoking_handler
        /\ e.got_transfer_destroy = q.got_transfer_destroy
    <3>1. e = [q EXCEPT !.waiting_for_response = FALSE, !.state = "BLOCKED_ERROR"]
      OBVIOUS
    <3> HIDE DEF e, q
    <3>2. IsRequest(q) /\ q.mem = "live"
      BY <1>1
    <3>3. e = ErrorBlocked(q)
      BY ONLY <3>1 DEF ErrorBlocked
    <3>4. QED BY ONLY <3>2, <3>3, ErrorBlockedIs
  <2> HIDE DEF e
  <2>3. Between(v, r) /\ v.rreq[r] = e /\ v.xfer = w.xfer
    <3>1. e.mem # "none" /\ e.invoking_handler = q.invoking_handler
      BY <1>3, <2>2
    <3>2. QED BY <2>1, <2>2, <3>1, StillBetween
  <2>4. ~x.responded /\ x.kind # "websocket"
    BY <1>3
  <2>5. RequestKept(e, x)
    BY <1>3, <2>2, <2>4 DEF RequestKept, NotNeeded, ToAnswer
  <2>6. QED BY <2>3, <2>5, BetweenIsKept
<1>4. CASE q.state = "WAITING"
  <2> DEFINE e == [q EXCEPT !.waiting_for_response = FALSE]
             u == WithRequest(w, r, e)
  <2>1. v = SendError(u, r)
    BY <1>2, <1>4 DEF RespondError, WithRequest
  <2>2. /\ IsRequest(e) /\ e.mem = "live" /\ e.state = "WAITING"
        /\ e.waiting_for_response = FALSE /\ e.invoking_handler = q.invoking_handler
        /\ e.got_transfer_destroy = q.got_transfer_destroy
    <3>1. e = [q EXCEPT !.waiting_for_response = FALSE]
      OBVIOUS
    <3> HIDE DEF e, q
    <3>2. QED BY <1>1, <1>4, <3>1, WithoutAnswer
  <2> HIDE DEF e
  <2>3. Between(u, r) /\ u.rreq[r] = e /\ u.xfer = w.xfer
    BY <2>2, StillBetween
  <2> HIDE DEF u
  <2>4. ~ToAnswer(e) /\ x.kind # "websocket" /\ ~e.invoking_handler
    BY <1>4, <2>2 DEF ToAnswer
  <2>5. QED BY <2>1, <2>2, <2>3, <2>4, SendErrorKeeps
<1>5. CASE q.state = "INIT"
  <2>1. v = SendError(w, r)
    BY <1>2, <1>5 DEF RespondError
  <2>2. ~ToAnswer(q) /\ ~q.invoking_handler
    BY <1>5 DEF ToAnswer
  <2>3. QED BY <1>5, <2>1, <2>2, SendErrorKeeps
<1>6. QED BY <1>2, <1>3, <1>4, <1>5

(* No handler was found: the error page for it. *)
LEMMA NoHandlerFoundKeeps ==
  ASSUME NEW r \in Requests, NEW w, Between(w, r), w.rreq[r].mem = "live",
         ~w.xfer[r].responded,
         w.rreq[r].state \in {"INIT", "INVOKING", "WAITING"},
         w.rreq[r].invoking_handler <=> w.rreq[r].state = "INVOKING",
         w.rreq[r].state # "INIT" => w.xfer[r].kind # "websocket",
         NEW v, v = NoHandlerFound(w, r)
  PROVE  Survives(v)
<1> DEFINE q == w.rreq[r]
           e == [q EXCEPT !.waiting_for_response = TRUE]
           u == WithRequest(w, r, e)
<1>1. IsRequest(q) /\ q.mem = "live"
  BY DEF Between, IsWorld
<1>2. v = RespondError(u, r)
  BY DEF NoHandlerFound, WithRequest
<1>3. /\ IsRequest(e) /\ e.mem = "live" /\ e.state = q.state /\ e.waiting_for_response
      /\ e.invoking_handler = q.invoking_handler
      /\ e.got_transfer_destroy = q.got_transfer_destroy
  <2>1. e = [q EXCEPT !.waiting_for_response = TRUE]
    OBVIOUS
  <2> HIDE DEF e, q
  <2>2. QED BY <1>1, <2>1, WithAnswerDue
<1> HIDE DEF e
<1>4. Between(u, r) /\ u.rreq[r] = e /\ u.xfer = w.xfer
  BY <1>3, StillBetween
<1> HIDE DEF u
<1>5. QED BY <1>2, <1>3, <1>4, RespondErrorKeeps

-----------------------------------------------------------------------------
(* Calling a handler. *)

(* The three ends of invoke_handler before a handler returns. *)
Pushed(w, r, e, c, tried) ==
  [rreq |-> [w.rreq EXCEPT ![r] = e], xfer |-> w.xfer, queue |-> w.queue,
   open |-> w.open, stack |-> Append(w.stack, [request |-> r, calls |-> c]), freed |-> w.freed,
   fault |-> w.fault, called |-> tried]

(* The frame that invoke_handler pushes belongs to the request it calls. *)
LEMMA CallBegun ==
  ASSUME NEW r \in Requests, NEW w, Between(w, r), ~w.rreq[r].invoking_handler,
         NEW e, IsRequest(e), e.mem # "none", e.invoking_handler,
         e.got_transfer_destroy = w.rreq[r].got_transfer_destroy,
         RequestKept(e, w.xfer[r]),
         NEW c \in BOOLEAN, NEW tried, NEW v, v = Pushed(w, r, e, c, tried)
  PROVE  Survives(v)
<1> DEFINE u == WithRequest(w, r, e)
           n == Len(w.stack)
           k == [request |-> r, calls |-> c]
<1>1. IsWorld(w) /\ ~Calling(w, r)
  BY DEF Between
<1>2. /\ v.rreq = [w.rreq EXCEPT ![r] = e] /\ v.xfer = w.xfer /\ v.queue = w.queue
      /\ v.stack = Append(w.stack, k) /\ v.freed = w.freed /\ v.fault = w.fault
  BY DEF Pushed
<1>11. k \in [request: Requests, calls: BOOLEAN] /\ k.request = r
  OBVIOUS
<1> HIDE DEF k
<1>3. /\ IsWorld(u) /\ u.rreq[r] = e /\ OthersSame(u, w, r) /\ u.xfer = w.xfer /\ u.queue = w.queue
      /\ Unmoved(u, w)
  BY <1>1, WorldWithRequest
<1>4. u.rreq = v.rreq
  BY <1>1, <1>2 DEF WithRequest, IsWorld
<1> HIDE DEF u
<1>5. /\ n \in Nat /\ v.stack \in Seq([request: Requests, calls: BOOLEAN])
      /\ DOMAIN v.stack = 1..(n + 1) /\ DOMAIN w.stack = 1..n
      /\ \A i \in 1..n: v.stack[i] = w.stack[i]
      /\ v.stack[n + 1] = k
  <2>1. w.stack \in Seq([request: Requests, calls: BOOLEAN])
    BY <1>1 DEF IsWorld
  <2> DEFINE s == w.stack
  <2>2. v.stack = Append(s, k)
    BY <1>2
  <2> HIDE DEF s
  <2>3. QED BY <1>11, <2>1, <2>2, AppendProperties DEF s
<1> HIDE DEF n
<1>6. \A s \in Requests: Calling(v, s) <=> Calling(w, s) \/ s = r
  <2> SUFFICES ASSUME NEW s \in Requests PROVE Calling(v, s) <=> Calling(w, s) \/ s = r
    OBVIOUS
  <2>1. ASSUME Calling(w, s) PROVE Calling(v, s)
    BY <1>5, <2>1 DEF Calling
  <2>2. Calling(v, r)
    BY <1>5, <1>11 DEF Calling
  <2>3. ASSUME NEW i \in DOMAIN v.stack, v.stack[i].request = s PROVE Calling(w, s) \/ s = r
    <3>1. CASE i = n + 1
      BY <1>5, <1>11, <2>3, <3>1
    <3>2. CASE i # n + 1
      BY <1>5, <2>3, <3>2 DEF Calling
    <3>3. QED BY <3>1, <3>2
  <2>4. QED BY <2>1, <2>2, <2>3 DEF Calling
<1>7. \A i, j \in DOMAIN v.stack: v.stack[i].request = v.stack[j].request => i = j
  <2> SUFFICES ASSUME NEW i \in DOMAIN v.stack, NEW j \in DOMAIN v.stack,
                      v.stack[i].request = v.stack[j].request, i # j
               PROVE  FALSE
    OBVIOUS
  <2>1. \A l \in 1..n: w.stack[l].request # r
    BY <1>1, <1>5 DEF Calling
  <2>2. i \in 1..n /\ j \in 1..n
    <3>1. i \in 1..(n + 1) /\ j \in 1..(n + 1)
      BY <1>5
    <3>2. CASE i = n + 1
      <4>1. j \in 1..n /\ v.stack[i] = k /\ v.stack[j] = w.stack[j]
        BY <1>5, <3>1, <3>2
      <4>2. w.stack[j].request = r
        BY <1>11, <4>1
      <4>3. QED BY <2>1, <4>1, <4>2
    <3>3. CASE j = n + 1
      <4>1. i \in 1..n /\ v.stack[j] = k /\ v.stack[i] = w.stack[i]
        BY <1>5, <3>1, <3>3
      <4>2. w.stack[i].request = r
        BY <1>11, <4>1
      <4>3. QED BY <2>1, <4>1, <4>2
    <3>4. QED BY <1>5, <3>1, <3>2, <3>3
  <2>3. QED BY <1>1, <1>5, <2>2 DEF IsWorld
<1>8. IsWorld(v)
  <2>1. v = [rreq |-> v.rreq, xfer |-> v.xfer, queue |-> v.queue, open |-> v.open,
             stack |-> v.stack, freed |-> v.freed, fault |-> v.fault, called |-> v.called]
    BY DEF Pushed
  <2>2. /\ v.rreq = [s \in Requests |-> v.rreq[s]] /\ \A s \in Requests: IsRequest(v.rreq[s])
    BY <1>3, <1>4 DEF IsWorld
  <2>3. /\ v.xfer \in [Requests -> Transfers] /\ v.queue \in Seq(Requests) /\ Distinct(v.queue)
        /\ v.freed \in BOOLEAN
    BY <1>1, <1>2 DEF IsWorld
  <2>4. QED BY <1>5, <1>7, <2>1, <2>2, <2>3 DEF IsWorld
<1>9. ASSUME NEW s \in Requests PROVE Kept(v, s)
  <2>1. (Queued(v, s) <=> Queued(w, s)) /\ v.xfer[s] = w.xfer[s]
    BY <1>2 DEF Queued
  <2>2. CASE s = r
    <3>1. v.rreq[s] = e
      BY <1>3, <1>4, <2>2
    <3>2. TransferKept(e, w.xfer[r], Queued(v, r))
      BY <2>1, <2>2 DEF TransferKept, Between
    <3>3. Calling(v, r)
      BY <1>6
    <3>4. QED BY <2>1, <2>2, <3>1, <3>2, <3>3 DEF Kept
  <2>3. CASE s # r
    <3>1. v.rreq[s] = w.rreq[s] /\ Kept(w, s)
      BY <1>3, <1>4, <2>3 DEF OthersSame, Between, RestKept
    <3>2. Calling(v, s) <=> Calling(w, s)
      BY <1>6, <2>3
    <3>3. QED BY <2>1, <3>1, <3>2 DEF Kept, TransferKept
  <2>4. QED BY <2>2, <2>3
<1>10. QED BY <1>2, <1>8, <1>9 DEF WorldKept, Survives, Between

(* Worlds and requests that differ in one part. *)
Marked(q) == [q EXCEPT !.invoking_handler = TRUE]
InState(q, s) == [q EXCEPT !.state = s]
Due(q, a) == [q EXCEPT !.waiting_for_response = a]
WithStack(w, s) == [w EXCEPT !.stack = s]
WithCalled(w, r, t) == [w EXCEPT !.called[r] = t]
WithCall(w, r, c) == WithStack(w, Append(w.stack, [request |-> r, calls |-> c]))

(* The updates of invoke_handler, one after the other and at once. *)
LEMMA BlockedInSteps ==
  ASSUME NEW q, NEW s
  PROVE  InState(Marked(q), s) = Blocked(q, s)
BY DEF InState, Marked, Blocked

LEMMA BegunInSteps ==
  ASSUME NEW q, NEW a
  PROVE  Due(InState(Marked(q), "INVOKING"), a) = Begun(q, a)
BY DEF InState, Marked, Due, Begun

LEMMA PushedInSteps ==
  ASSUME NEW w, IsWorld(w), NEW r \in Requests, NEW c, NEW q,
         NEW u, u = WithRequest(WithCall(w, r, c), r, q)
  PROVE  /\ u.rreq[r] = q
         /\ \A e, t: WithCalled(WithRequest(u, r, e), r, t) =
                       Pushed(w, r, e, c, [w.called EXCEPT ![r] = t])
         /\ \A e: WithRequest(u, r, e) = Pushed(w, r, e, c, w.called)
<1> DEFINE st == Append(w.stack, [request |-> r, calls |-> c])
<1>1. u = WithRequest(WithStack(w, st), r, q)
  BY DEF WithCall
<1>2. \A e, t: Pushed(w, r, e, c, t) = [rreq |-> [w.rreq EXCEPT ![r] = e], xfer |-> w.xfer,
        queue |-> w.queue, open |-> w.open, stack |-> st, freed |-> w.freed,
        fault |-> w.fault, called |-> t]
  BY DEF Pushed
<1> HIDE DEF st
<1>3. u = [rreq |-> [w.rreq EXCEPT ![r] = q], xfer |-> w.xfer,
           queue |-> w.queue, open |-> w.open, stack |-> st, freed |-> w.freed,
           fault |-> w.fault, called |-> w.called]
  BY <1>1 DEF IsWorld, WithRequest, WithStack
<1>4. u.rreq[r] = q
  BY <1>3 DEF IsWorld
<1>5. ASSUME NEW e
      PROVE  WithRequest(u, r, e) = [rreq |-> [w.rreq EXCEPT ![r] = e], xfer |-> w.xfer,
           queue |-> w.queue, open |-> w.open, stack |-> st, freed |-> w.freed,
           fault |-> w.fault, called |-> w.called]
  <2>1. [u.rreq EXCEPT ![r] = e] = [w.rreq EXCEPT ![r] = e]
    <3> DEFINE f == w.rreq
    <3>1. f = [s \in Requests |-> f[s]]
      BY DEF IsWorld
    <3>2. u.rreq = [f EXCEPT ![r] = q]
      BY <1>3
    <3> HIDE DEF f
    <3>3. [[f EXCEPT ![r] = q] EXCEPT ![r] = e] = [s \in Requests |-> IF s = r THEN e ELSE f[s]]
      BY <3>1
    <3>4. [f EXCEPT ![r] = e] = [s \in Requests |-> IF s = r THEN e ELSE f[s]]
      BY <3>1
    <3>5. QED BY <3>2, <3>3, <3>4 DEF f
  <2> DEFINE g == [u.rreq EXCEPT ![r] = e]
  <2>2. WithRequest(u, r, e) = [u EXCEPT !.rreq = g]
    BY DEF WithRequest
  <2>3. g = [w.rreq EXCEPT ![r] = e]
    BY <2>1
  <2> HIDE DEF g
  <2>4. WithRequest(u, r, e) = [rreq |-> g, xfer |-> w.xfer,
           queue |-> w.queue, open |-> w.open, stack |-> st, freed |-> w.freed,
           fault |-> w.fault, called |-> w.called]
    BY <1>3, <2>2
  <2>5. QED BY <2>3, <2>4
<1>6. ASSUME NEW e, NEW t
      PROVE  WithCalled(WithRequest(u, r, e), r, t) =
        [rreq |-> [w.rreq EXCEPT ![r] = e], xfer |-> w.xfer,
         queue |-> w.queue, open |-> w.open, stack |-> st, freed |-> w.freed,
         fault |-> w.fault, called |-> [w.called EXCEPT ![r] = t]]
  BY <1>5 DEF WithCalled
<1>7. ASSUME NEW e PROVE WithRequest(u, r, e) = Pushed(w, r, e, c, w.called)
  BY <1>2, <1>5
<1>8. ASSUME NEW e, NEW t
      PROVE  WithCalled(WithRequest(u, r, e), r, t) =
               Pushed(w, r, e, c, [w.called EXCEPT ![r] = t])
  BY <1>2, <1>6
<1>9. QED BY <1>4, <1>7, <1>8

(* invoke_handler pushes a frame and leaves the request in one of three *)
(* states. *)
Invoked(v, w, r, handler, a, c) ==
  LET kind == w.xfer[r].kind
  IN  \/ /\ Suits(kind, handler.type) /\ (a <=> kind # "websocket")
         /\ v = Pushed(w, r, Begun(w.rreq[r], a), c,
                       [w.called EXCEPT ![r] = Append(w.called[r], handler.id)])
      \/ /\ kind = "post" /\ handler.type = "CGI"
         /\ v = Pushed(w, r, Blocked(w.rreq[r], "NEED_POST_DATA"), c, w.called)
      \/ /\ ~Suits(kind, handler.type)
         /\ v = Pushed(w, r, Blocked(w.rreq[r], "BLOCKED_PASS"), c, w.called)

LEMMA InvokeHandlerIs ==
  ASSUME NEW w, IsWorld(w), NEW r \in Requests,
         ~w.freed, ~w.rreq[r].invoking_handler, ~w.rreq[r].waiting_for_response,
         w.rreq[r].state \in {"INIT", "WAITING", "NEED_POST_DATA"},
         NEW v, v = InvokeHandler(w, r)
  PROVE  \E a, c \in BOOLEAN: Invoked(v, w, r, HandlerOf(w, r), a, c)
<1> DEFINE q == w.rreq[r]
           handler == HandlerOf(w, r)
           kind == w.xfer[r].kind
           calls == Suits(kind, handler.type) /\ ~(kind = "post" /\ handler.type = "CGI")
           pushed == [w EXCEPT !.stack = Append(@, [request |-> r, calls |-> calls]),
                               !.rreq[r].invoking_handler = TRUE]
<1>3. ~(q.state \notin {"INIT", "WAITING", "NEED_POST_DATA"}
              \/ q.invoking_handler \/ q.waiting_for_response)
  OBVIOUS
<1>4. v = IF calls
           THEN [pushed EXCEPT !.rreq[r].state = "INVOKING",
                               !.rreq[r].waiting_for_response = (kind # "websocket"),
                               !.called[r] = Append(@, handler.id)]
      ELSE IF Suits(kind, handler.type)
           THEN [pushed EXCEPT !.rreq[r].state = "NEED_POST_DATA"]
           ELSE [pushed EXCEPT !.rreq[r].state = "BLOCKED_PASS"]
  BY <1>3 DEF InvokeHandler
<1>5. calls \in BOOLEAN
  BY DEF Suits
<1>6. pushed = WithRequest(WithCall(w, r, calls), r, Marked(q))
  <2> DEFINE ws == WithStack(w, Append(w.stack, [request |-> r, calls |-> calls]))
  <2>1. pushed = WithRequest(ws, r, Marked(ws.rreq[r]))
    BY DEF WithRequest, WithStack, Marked
  <2>2. ws.rreq = w.rreq
    BY DEF WithStack, IsWorld
  <2>3. QED BY <2>1, <2>2 DEF WithCall
<1>7. /\ pushed.rreq[r] = Marked(q)
      /\ \A e, t: WithCalled(WithRequest(pushed, r, e), r, t) =
                    Pushed(w, r, e, calls, [w.called EXCEPT ![r] = t])
      /\ \A e: WithRequest(pushed, r, e) = Pushed(w, r, e, calls, w.called)
  <2> HIDE DEF pushed, calls
  <2>1. QED BY <1>6, PushedInSteps
<1>8. CASE calls
  <2> DEFINE a == kind # "websocket"
             u == WithRequest(pushed, r, Due(InState(pushed.rreq[r], "INVOKING"), a))
             t == Append(pushed.called[r], handler.id)
  <2>1. v = WithCalled(u, r, t)
    <3>1. v = [pushed EXCEPT !.rreq[r].state = "INVOKING",
                             !.rreq[r].waiting_for_response = a,
                             !.called[r] = Append(@, handler.id)]
      BY <1>4, <1>8
    <3> HIDE DEF pushed, handler, a
    <3>2. QED BY ONLY <3>1 DEF WithRequest, WithCalled, Due, InState
  <2>2. u = WithRequest(pushed, r, Begun(q, a))
    BY <1>7, BegunInSteps
  <2> HIDE DEF u, t, calls, pushed
  <2>3. WithCalled(u, r, t) = Pushed(w, r, Begun(q, a), calls, [w.called EXCEPT ![r] = t])
    BY <1>7, <2>2
  <2>4. a \in BOOLEAN /\ (a <=> kind # "websocket") /\ Suits(kind, handler.type)
    BY <1>8 DEF calls
  <2>5. v = Pushed(w, r, Begun(q, a), calls, [w.called EXCEPT ![r] = t])
    BY <2>1, <2>3
  <2>6. t = Append(w.called[r], handler.id)
    <3>1. pushed.called = w.called
      BY DEF IsWorld, pushed
    <3>2. QED BY <3>1 DEF t
  <2> HIDE DEF a, handler
  <2>7. QED BY <1>5, <2>4, <2>5, <2>6 DEF Invoked, handler
<1>9. CASE ~calls /\ Suits(kind, handler.type)
  <2>1. v = WithRequest(pushed, r, InState(pushed.rreq[r], "NEED_POST_DATA"))
    <3>1. v = [pushed EXCEPT !.rreq[r].state = "NEED_POST_DATA"]
      BY <1>4, <1>9
    <3> HIDE DEF pushed
    <3>2. QED BY ONLY <3>1 DEF WithRequest, InState
  <2>2. v = WithRequest(pushed, r, Blocked(q, "NEED_POST_DATA"))
    BY <1>7, <2>1, BlockedInSteps
  <2>3. kind = "post" /\ handler.type = "CGI"
    BY <1>9
  <2> HIDE DEF calls, pushed
  <2>4. v = Pushed(w, r, Blocked(q, "NEED_POST_DATA"), calls, w.called)
    BY <1>7, <2>2
  <2>5. QED BY <1>5, <2>3, <2>4 DEF Invoked
<1>10. CASE ~calls /\ ~Suits(kind, handler.type)
  <2>1. v = WithRequest(pushed, r, InState(pushed.rreq[r], "BLOCKED_PASS"))
    <3>1. v = [pushed EXCEPT !.rreq[r].state = "BLOCKED_PASS"]
      BY <1>4, <1>10
    <3> HIDE DEF pushed
    <3>2. QED BY ONLY <3>1 DEF WithRequest, InState
  <2>2. v = WithRequest(pushed, r, Blocked(q, "BLOCKED_PASS"))
    BY <1>7, <2>1, BlockedInSteps
  <2> HIDE DEF calls, pushed
  <2>3. ~Suits(kind, handler.type)
    BY <1>10
  <2>4. v = Pushed(w, r, Blocked(q, "BLOCKED_PASS"), calls, w.called)
    BY <1>7, <2>2
  <2>5. QED BY <1>5, <2>3, <2>4 DEF Invoked
<1>11. QED BY <1>8, <1>9, <1>10

(* invoke_handler, for a request that no handler has and nobody answered. *)
LEMMA InvokeHandlerKeeps ==
  ASSUME NEW r \in Requests, NEW w, Between(w, r), w.rreq[r].mem = "live",
         ~w.xfer[r].responded, ~w.rreq[r].invoking_handler,
         ~w.rreq[r].waiting_for_response,
         w.rreq[r].state \in {"INIT", "WAITING", "NEED_POST_DATA"},
         w.xfer[r].kind = "websocket" => ~w.rreq[r].got_transfer_destroy,
         NEW v, v = InvokeHandler(w, r)
  PROVE  Survives(v)
<1> DEFINE q == w.rreq[r]
           x == w.xfer[r]
<1>1. IsWorld(w) /\ w.fault = "none" /\ IsRequest(q) /\ x \in Transfers
  BY DEF Between, IsWorld
<1>2. /\ ~w.freed /\ ~w.rreq[r].invoking_handler /\ ~w.rreq[r].waiting_for_response
      /\ w.rreq[r].state \in {"INIT", "WAITING", "NEED_POST_DATA"}
  BY DEF Between
<1>3. PICK a \in BOOLEAN, c \in BOOLEAN: Invoked(v, w, r, HandlerOf(w, r), a, c)
  BY <1>1, <1>2, InvokeHandlerIs
<1>9. PICK tried:
           \/ (a <=> x.kind # "websocket") /\ v = Pushed(w, r, Begun(q, a), c, tried)
           \/ x.kind # "websocket" /\ v = Pushed(w, r, Blocked(q, "NEED_POST_DATA"), c, tried)
           \/ v = Pushed(w, r, Blocked(q, "BLOCKED_PASS"), c, tried)
  BY <1>3 DEF Invoked
<1>4. q.mem = "live" /\ ~x.responded /\ (x.kind = "websocket" => ~q.got_transfer_destroy)
  OBVIOUS
<1>5. ~q.waiting_for_response
  BY <1>2
<1>6. CASE (a <=> x.kind # "websocket") /\ v = Pushed(w, r, Begun(q, a), c, tried)
  <2> DEFINE e == Begun(q, a)
  <2>1. /\ IsRequest(e) /\ e.mem = "live" /\ e.state = "INVOKING" /\ e.waiting_for_response = a
        /\ e.got_transfer_destroy = q.got_transfer_destroy /\ e.invoking_handler
    BY <1>1, <1>4, BegunIs
  <2>2. v = Pushed(w, r, e, c, tried)
    BY <1>6
  <2> HIDE DEF e, q, x
  <2>3. RequestKept(e, x)
    BY <1>4, <1>6, <2>1 DEF RequestKept, NotNeeded, ToAnswer
  <2>4. QED BY <1>2, <2>1, <2>2, <2>3, CallBegun DEF q, x
<1>7. CASE x.kind # "websocket" /\ v = Pushed(w, r, Blocked(q, "NEED_POST_DATA"), c, tried)
  <2> DEFINE e == Blocked(q, "NEED_POST_DATA")
  <2>1. /\ IsRequest(e) /\ e.mem = "live" /\ e.state = "NEED_POST_DATA"
        /\ e.waiting_for_response = q.waiting_for_response
        /\ e.got_transfer_destroy = q.got_transfer_destroy /\ e.invoking_handler
    BY <1>1, <1>4, BlockedIs
  <2>2. v = Pushed(w, r, e, c, tried)
    BY <1>7
  <2> HIDE DEF e, q, x
  <2>3. RequestKept(e, x)
    BY <1>2, <1>4, <1>7, <2>1 DEF RequestKept, NotNeeded, ToAnswer
  <2>4. QED BY <1>2, <2>1, <2>2, <2>3, CallBegun DEF q, x
<1>8. CASE v = Pushed(w, r, Blocked(q, "BLOCKED_PASS"), c, tried)
  <2> DEFINE e == Blocked(q, "BLOCKED_PASS")
  <2>1. /\ IsRequest(e) /\ e.mem = "live" /\ e.state = "BLOCKED_PASS"
        /\ e.waiting_for_response = q.waiting_for_response
        /\ e.got_transfer_destroy = q.got_transfer_destroy /\ e.invoking_handler
    BY <1>1, <1>4, BlockedIs
  <2>2. v = Pushed(w, r, e, c, tried)
    BY <1>8
  <2> HIDE DEF e, q, x
  <2>3. RequestKept(e, x)
    BY <1>4, <1>5, <2>1 DEF RequestKept, NotNeeded, ToAnswer
  <2>4. QED BY <1>2, <2>1, <2>2, <2>3, CallBegun DEF q, x
<1>10. QED BY <1>6, <1>7, <1>8, <1>9

(* The match of a request changes. *)
MovedTo(q, n, h) == [q EXCEPT !.node = n, !.handler = h]
NextHandler(q, h) == [q EXCEPT !.handler = h]

SameRequest(e, q) ==
  /\ e.mem = q.mem /\ e.state = q.state /\ e.waiting_for_response = q.waiting_for_response
  /\ e.got_transfer_destroy = q.got_transfer_destroy /\ e.invoking_handler = q.invoking_handler

LEMMA MovedToIs ==
  ASSUME NEW q, IsRequest(q), NEW n, NEW h
  PROVE  IsRequest(MovedTo(q, n, h)) /\ SameRequest(MovedTo(q, n, h), q)
<1> DEFINE d == MovedTo(q, n, h)
<1>1. d = [q EXCEPT !.node = n, !.handler = h]
  BY DEF MovedTo
<1> HIDE DEF d
<1>2. d = [mem |-> q.mem, state |-> q.state, node |-> n, handler |-> h, path |-> q.path,
           waiting_for_response |-> q.waiting_for_response,
           got_transfer_destroy |-> q.got_transfer_destroy,
           invoking_handler |-> q.invoking_handler]
  BY <1>1 DEF IsRequest
<1>3. /\ d.mem = q.mem /\ d.state = q.state /\ d.node = n /\ d.handler = h
      /\ d.path = q.path /\ d.waiting_for_response = q.waiting_for_response
      /\ d.got_transfer_destroy = q.got_transfer_destroy
      /\ d.invoking_handler = q.invoking_handler
  BY <1>2
<1>4. IsRequest(d) /\ SameRequest(d, q)
  BY <1>2, <1>3 DEF IsRequest, SameRequest
<1>5. QED BY <1>4 DEF d

LEMMA NextHandlerIs ==
  ASSUME NEW q, IsRequest(q), NEW h
  PROVE  IsRequest(NextHandler(q, h)) /\ SameRequest(NextHandler(q, h), q)
<1> DEFINE d == NextHandler(q, h)
<1>1. d = [q EXCEPT !.handler = h]
  BY DEF NextHandler
<1> HIDE DEF d
<1>2. IsRequest(d) /\ SameRequest(d, q)
  BY <1>1, WithHandler DEF SameRequest
<1>3. QED BY <1>2 DEF d

(* A request may move along the match tree in the middle of a call. *)
LEMMA MovedBetween ==
  ASSUME NEW r \in Requests, NEW w, Between(w, r), NEW e, IsRequest(e),
         SameRequest(e, w.rreq[r]), NEW v, v = WithRequest(w, r, e)
  PROVE  /\ Between(v, r) /\ SameRequest(v.rreq[r], w.rreq[r]) /\ v.xfer = w.xfer
         /\ Unmoved(v, w) /\ IsRequest(v.rreq[r])
<1>1. e.mem # "none"
  BY DEF Between, SameRequest
<1>2. /\ Between(v, r) /\ v.rreq[r] = e /\ v.xfer = w.xfer /\ v.queue = w.queue
      /\ Unmoved(v, w)
  BY <1>1, StillBetween DEF SameRequest
<1>3. QED BY <1>2

(* find_first_match moves the request. *)
LEMMA FindFirstKeeps ==
  ASSUME NEW r \in Requests, NEW w, Between(w, r), NEW v, v = FindFirst(w, r)
  PROVE  /\ Between(v, r) /\ SameRequest(v.rreq[r], w.rreq[r]) /\ v.xfer = w.xfer
         /\ Unmoved(v, w) /\ IsRequest(v.rreq[r])
<1> DEFINE node == FirstMatch(w.rreq[r].path)[Top]
<1>1. IsRequest(w.rreq[r])
  BY DEF Between, IsWorld
<1>2. CASE node = NoNode
  <2>1. v = w
    BY <1>2 DEF FindFirst
  <2>2. QED BY <1>1, <2>1 DEF SameRequest, Unmoved
<1>3. CASE node # NoNode
  <2> DEFINE e == MovedTo(w.rreq[r], node, 1)
  <2>1. v = [w EXCEPT !.rreq[r].node = node, !.rreq[r].handler = 1]
    BY <1>3 DEF FindFirst
  <2> HIDE DEF node
  <2>2. v = WithRequest(w, r, e)
    BY ONLY <2>1 DEF WithRequest, MovedTo
  <2>3. IsRequest(e) /\ SameRequest(e, w.rreq[r])
    BY <1>1, MovedToIs
  <2> HIDE DEF e
  <2>4. QED BY <2>2, <2>3, MovedBetween
<1>4. QED BY <1>2, <1>3

(* advance_to_next_handler calls the next handler or finds no match above. *)
LEMMA PassOnKeeps ==
  ASSUME NEW r \in Requests, NEW w, Between(w, r), w.rreq[r].mem = "live",
         ~w.xfer[r].responded, ~w.rreq[r].invoking_handler,
         ~w.rreq[r].waiting_for_response,
         w.rreq[r].state \in {"INIT", "WAITING", "NEED_POST_DATA"},
         w.xfer[r].kind = "websocket" => ~w.rreq[r].got_transfer_destroy,
         NEW v, v = PassOn(w, r)
  PROVE  Survives(v)
<1> DEFINE q == w.rreq[r]
           node == NextMatch(q.node, q.path)
           h == q.handler + 1
<1>1. IsWorld(w) /\ IsRequest(q) /\ ~w.freed
  BY DEF Between, IsWorld
<1>2. Survives(Fail(w, "null pointer"))
  BY <1>1 DEF Fail, IsWorld, Survives
<1>3. ASSUME NEW e, IsRequest(e), SameRequest(e, q), v = InvokeHandler(WithRequest(w, r, e), r)
      PROVE  Survives(v)
  <2> DEFINE u == WithRequest(w, r, e)
  <2>1. v = InvokeHandler(u, r)
    BY <1>3
  <2>2. /\ Between(u, r) /\ SameRequest(u.rreq[r], q) /\ u.xfer = w.xfer
    BY <1>3, MovedBetween
  <2> HIDE DEF u
  <2>3. /\ u.rreq[r].mem = "live" /\ ~u.xfer[r].responded
        /\ ~u.rreq[r].invoking_handler /\ ~u.rreq[r].waiting_for_response
        /\ u.rreq[r].state \in {"INIT", "WAITING", "NEED_POST_DATA"}
        /\ u.xfer[r].kind = "websocket" => ~u.rreq[r].got_transfer_destroy
    BY <2>2 DEF SameRequest
  <2>4. QED BY <2>1, <2>2, <2>3, InvokeHandlerKeeps
<1>4. CASE q.handler < Len(nodes[q.node].handlers)
  <2>1. v = InvokeHandler([w EXCEPT !.rreq[r].handler = @ + 1], r)
    BY <1>1, <1>4 DEF PassOn
  <2>2. [w EXCEPT !.rreq[r].handler = @ + 1] = WithRequest(w, r, NextHandler(q, h))
    BY ONLY TRUE DEF WithRequest, NextHandler
  <2>3. IsRequest(NextHandler(q, h)) /\ SameRequest(NextHandler(q, h), q)
    BY <1>1, NextHandlerIs
  <2> HIDE DEF q, h
  <2>4. QED BY <1>3, <2>1, <2>2, <2>3
<1>5. CASE ~(q.handler < Len(nodes[q.node].handlers)) /\ node # NoNode
  <2>1. v = InvokeHandler([w EXCEPT !.rreq[r].node = node, !.rreq[r].handler = 1], r)
    BY <1>1, <1>5 DEF PassOn
  <2> HIDE DEF node
  <2>2. [w EXCEPT !.rreq[r].node = node, !.rreq[r].handler = 1] = WithRequest(w, r, MovedTo(q, node, 1))
    BY ONLY TRUE DEF WithRequest, MovedTo
  <2>3. IsRequest(MovedTo(q, node, 1)) /\ SameRequest(MovedTo(q, node, 1), q)
    BY <1>1, MovedToIs
  <2> HIDE DEF q, h
  <2>4. QED BY <1>3, <2>1, <2>2, <2>3
<1>6. CASE ~(q.handler < Len(nodes[q.node].handlers)) /\ node = NoNode
  BY <1>1, <1>2, <1>6 DEF PassOn
<1>7. QED BY <1>4, <1>5, <1>6

-----------------------------------------------------------------------------
(* The connection is shut down while no handler is being called. *)

(* What becomes of a request and its transfer, when it is in the queue. *)
LEMMA ShutDownOne ==
  ASSUME NEW q, IsRequest(q), NEW x \in Transfers, RequestKept(q, x),
         TransferKept(q, x, TRUE), ~q.invoking_handler,
         NEW e, e = IF x.returned THEN TransferDestroyed(q) ELSE q,
         NEW y, y = IF x.returned /\ ~x.responded THEN [x EXCEPT !.failed = TRUE]
                    ELSE [x EXCEPT !.mem = "freed"]
  PROVE  /\ IsRequest(e) /\ y \in Transfers
         /\ RequestKept(e, y) /\ TransferKept(e, y, FALSE) /\ ~e.invoking_handler
         /\ e.waiting_for_response = q.waiting_for_response
<1>1. /\ y \in Transfers /\ y.responded = x.responded /\ y.kind = x.kind
      /\ y.content = x.content /\ y.returned = x.returned
      /\ y.mem = IF x.returned /\ ~x.responded THEN x.mem ELSE "freed"
      /\ x.returned /\ ~x.responded => y.failed
  BY DEF Transfers, Memory
<1>2. CASE x.returned
  <2>1. e = TransferDestroyed(q) /\ q.mem # "none"
    BY <1>2 DEF TransferKept
  <2>2. /\ RequestKept(e, y) /\ e.mem # "none" /\ e.got_transfer_destroy
        /\ e.invoking_handler = q.invoking_handler
    <3> DEFINE queued == TRUE
    <3>1. TransferKept(q, x, queued)
      OBVIOUS
    <3> HIDE DEF queued
    <3>2. /\ y \in Transfers /\ y.responded = x.responded /\ y.kind = x.kind
          /\ y.content = x.content
      BY <1>1
    <3>3. IsRequest(q) /\ RequestKept(q, x) /\ ~q.invoking_handler /\ x \in Transfers
      OBVIOUS
    <3>4. QED BY ONLY <2>1, <3>1, <3>2, <3>3, DestroyedKept
  <2>3. IsRequest(e) /\ e.waiting_for_response = q.waiting_for_response
    BY <2>1, TransferDestroyedIs
  <2>4. TransferKept(e, y, FALSE)
    BY <1>1, <1>2, <2>2 DEF TransferKept
  <2>5. QED BY <1>1, <2>2, <2>3, <2>4
<1>3. CASE ~x.returned
  <2>1. e = q /\ q.mem = "none" /\ ~x.responded
    BY <1>3 DEF TransferKept
  <2>2. RequestKept(e, y)
    BY <1>1, <2>1 DEF RequestKept, ToAnswer
  <2>3. TransferKept(e, y, FALSE)
    BY <1>1, <1>3, <2>1 DEF TransferKept, RequestKept
  <2>4. QED BY <1>1, <2>1, <2>2, <2>3
<1>4. QED BY <1>2, <1>3

(* do_shutdown keeps all requests and takes no answer from anybody. *)
LEMMA DoShutdownKeeps ==
  ASSUME NEW w, WorldKept(w), w.stack = <<>>, NEW v, v = DoShutdown(w)
  PROVE  /\ WorldKept(v) /\ v.stack = <<>> /\ Unmoved(v, w)
         /\ \A s \in Requests: v.rreq[s].waiting_for_response = w.rreq[s].waiting_for_response
<1> DEFINE at == ToSet(w.queue)
           qs == [s \in Requests |-> IF s \in at /\ w.xfer[s].returned
                                     THEN TransferDestroyed(w.rreq[s]) ELSE w.rreq[s]]
           kept == {s \in at: w.xfer[s].returned /\ ~w.xfer[s].responded}
           xs == [s \in Requests |-> IF s \in kept THEN [w.xfer[s] EXCEPT !.failed = TRUE]
                                     ELSE IF s \in at THEN [w.xfer[s] EXCEPT !.mem = "freed"]
                                     ELSE w.xfer[s]]
           empty == <<>>
           closed == FALSE
<1>1. IsWorld(w) /\ \A s \in Requests: Kept(w, s)
  BY DEF WorldKept
<1>2. v = [w EXCEPT !.rreq = qs, !.xfer = xs, !.queue = empty, !.open = closed]
  BY DEF DoShutdown
<1>3. \A s \in Requests: s \in at <=> Queued(w, s)
  BY DEF Queued, ToSet
<1>4. ASSUME NEW s \in Requests, s \in at
      PROVE  /\ qs[s] = IF w.xfer[s].returned THEN TransferDestroyed(w.rreq[s]) ELSE w.rreq[s]
             /\ xs[s] = IF w.xfer[s].returned /\ ~w.xfer[s].responded
                        THEN [w.xfer[s] EXCEPT !.failed = TRUE]
                        ELSE [w.xfer[s] EXCEPT !.mem = "freed"]
  BY <1>4
<1>5. \A s \in Requests: s \notin at => qs[s] = w.rreq[s] /\ xs[s] = w.xfer[s]
  OBVIOUS
<1>6. /\ qs = [s \in Requests |-> qs[s]] /\ xs = [s \in Requests |-> xs[s]]
      /\ empty \in Seq(Requests) /\ Distinct(empty) /\ DOMAIN empty = {}
  BY DEF Distinct
<1> HIDE DEF at, qs, xs, kept, empty, closed
<1>7. v = [rreq |-> qs, xfer |-> xs, queue |-> empty, open |-> closed, stack |-> w.stack,
           freed |-> w.freed, fault |-> w.fault, called |-> w.called]
  BY <1>1, <1>2 DEF IsWorld
<1>8. /\ v.rreq = qs /\ v.xfer = xs /\ v.queue = empty /\ v.open = closed
      /\ v.stack = w.stack /\ v.freed = w.freed /\ v.fault = w.fault /\ v.called = w.called
  BY <1>7
<1>9. ASSUME NEW s \in Requests
      PROVE  /\ IsRequest(qs[s]) /\ xs[s] \in Transfers
             /\ RequestKept(qs[s], xs[s]) /\ TransferKept(qs[s], xs[s], FALSE)
             /\ ~qs[s].invoking_handler
             /\ qs[s].waiting_for_response = w.rreq[s].waiting_for_response
  <2> DEFINE q == w.rreq[s]
             x == w.xfer[s]
             e == qs[s]
             y == xs[s]
  <2>1. IsRequest(q) /\ x \in Transfers /\ RequestKept(q, x) /\ ~q.invoking_handler
    BY <1>1 DEF IsWorld, Kept, Calling
  <2>2. CASE s \in at
    <3>1. TransferKept(q, x, TRUE)
      BY <1>1, <1>3, <2>2 DEF Kept, TransferKept
    <3>2. /\ e = IF x.returned THEN TransferDestroyed(q) ELSE q
          /\ y = IF x.returned /\ ~x.responded THEN [x EXCEPT !.failed = TRUE]
                 ELSE [x EXCEPT !.mem = "freed"]
      BY <1>4, <2>2
    <3> HIDE DEF q, x, e, y
    <3>3. /\ IsRequest(e) /\ y \in Transfers
          /\ RequestKept(e, y) /\ TransferKept(e, y, FALSE) /\ ~e.invoking_handler
          /\ e.waiting_for_response = q.waiting_for_response
      BY <2>1, <3>1, <3>2, ShutDownOne
    <3>4. QED BY <3>3 DEF e, y, q
  <2>3. CASE s \notin at
    <3>1. TransferKept(q, x, FALSE)
      BY <1>1, <1>3, <2>3 DEF Kept, TransferKept
    <3>2. e = q /\ y = x
      BY <1>5, <2>3
    <3>3. QED BY <2>1, <3>1, <3>2
  <2>4. QED BY <2>2, <2>3
<1>10. IsWorld(v)
  <2>1. xs \in [Requests -> Transfers]
    BY <1>6, <1>9
  <2>2. \A s \in Requests: IsRequest(qs[s])
    BY <1>9
  <2>3. v = [rreq |-> v.rreq, xfer |-> v.xfer, queue |-> v.queue, open |-> v.open,
             stack |-> v.stack, freed |-> v.freed, fault |-> v.fault, called |-> v.called]
    BY <1>7, <1>8
  <2>4. QED BY <1>1, <1>6, <1>8, <2>1, <2>2, <2>3 DEF IsWorld
<1>11. ASSUME NEW s \in Requests PROVE Kept(v, s)
  <2>1. ~Queued(v, s) /\ ~Calling(v, s)
    BY <1>6, <1>8 DEF Queued, Calling
  <2>2. QED BY <1>8, <1>9, <2>1 DEF Kept, TransferKept
<1>12. \A s \in Requests: v.rreq[s].waiting_for_response = w.rreq[s].waiting_for_response
  BY <1>8, <1>9
<1>13. QED BY <1>8, <1>10, <1>11, <1>12 DEF WorldKept, Unmoved

-----------------------------------------------------------------------------
(* The actions. *)

(* The parts of the world are the variables. *)
LEMMA WorldIs ==
  /\ World.rreq = rreq /\ World.xfer = xfer /\ World.queue = queue /\ World.open = open
  /\ World.stack = stack /\ World.freed = freed /\ World.fault = fault /\ World.called = called
BY DEF World

(* An action that becomes a world which survives leaves such a world. *)
LEMMA BecomesKept ==
  ASSUME NEW v, Becomes(v), Survives(v)
  PROVE  Survives(World)'
<1>1. CASE v.fault # "none"
  BY <1>1 DEF Becomes, Survives, World
<1>2. CASE v.fault = "none"
  <2>1. WorldKept(v)
    BY <1>2 DEF Survives
  <2>2. v = [rreq |-> v.rreq, xfer |-> v.xfer, queue |-> v.queue, open |-> v.open,
             stack |-> v.stack, freed |-> v.freed, fault |-> v.fault, called |-> v.called]
    BY <2>1 DEF WorldKept, IsWorld
  <2>3. World' = v
    BY <2>2 DEF Becomes, World
  <2>4. QED BY <2>3
<1>3. QED BY <1>1, <1>2

(* Registration leaves the requests alone. *)
LEMMA ConfigureKeeps ==
  ASSUME Survives(World), Configure
  PROVE  Survives(World)'
<1>1. UNCHANGED requests
  BY DEF Configure, AddMatch, MatchSave, MatchRestore, Listen, RegisterHandler
<1>2. World' = World
  BY <1>1 DEF requests, World
<1>3. QED BY <1>2

(* The client goes away. *)
LEMMA ClientGoneKeeps ==
  ASSUME WorldKept(World), fault = "none", ClientGone
  PROVE  Survives(World)'
<1> DEFINE w == World
           v == DoShutdown(w)
<1>1. Becomes(v) /\ w.stack = <<>>
  BY WorldIs DEF ClientGone, InLoop
<1>2. Survives(v)
  <2>1. WorldKept(w) /\ w.fault = "none"
    BY WorldIs
  <2> HIDE DEF w
  <2>2. WorldKept(v) /\ Unmoved(v, w)
    BY <1>1, <2>1, DoShutdownKeeps
  <2> HIDE DEF v
  <2>3. QED BY <2>1, <2>2 DEF Survives, Unmoved
<1> HIDE DEF v
<1>3. QED BY <1>1, <1>2, BecomesKept

(* dsk_http_server_finalize, when nobody has yet to answer. *)
LEMMA FinalizeKeeps ==
  ASSUME WorldKept(World), fault = "none", Careful, Finalize
  PROVE  Survives(World)'
<1> DEFINE w == World
           u == DoShutdown(w)
           t == TRUE
           v == [u EXCEPT !.freed = t]
<1>1. Becomes(v) /\ w.stack = <<>> /\ \A r \in Requests: ~w.rreq[r].waiting_for_response
  BY WorldIs DEF Finalize
<1>2. /\ WorldKept(u) /\ u.stack = <<>>
      /\ \A r \in Requests: ~u.rreq[r].waiting_for_response
      /\ u.fault = "none"
  <2>1. WorldKept(w) /\ w.fault = "none"
    BY WorldIs
  <2> HIDE DEF w
  <2>2. QED BY <1>1, <2>1, DoShutdownKeeps DEF Unmoved
<1>3. t \in BOOLEAN
  OBVIOUS
<1> HIDE DEF u, t
<1>4. v = [rreq |-> u.rreq, xfer |-> u.xfer, queue |-> u.queue, open |-> u.open,
           stack |-> u.stack, freed |-> t, fault |-> u.fault, called |-> u.called]
  <2>1. IsWorld(u)
    BY <1>2 DEF WorldKept
  <2>2. v = [u EXCEPT !.freed = t]
    OBVIOUS
  <2> HIDE DEF v
  <2>3. QED BY ONLY <2>1, <2>2 DEF IsWorld
<1>5. /\ v.rreq = u.rreq /\ v.xfer = u.xfer /\ v.queue = u.queue /\ v.open = u.open
      /\ v.stack = u.stack /\ v.freed = t /\ v.fault = u.fault /\ v.called = u.called
  BY <1>4
<1> HIDE DEF v
<1>6. IsWorld(v)
  BY <1>2, <1>3, <1>4, <1>5 DEF WorldKept, IsWorld
<1>7. \A r \in Requests: Kept(v, r)
  <2>1. ASSUME NEW r \in Requests
        PROVE  /\ Kept(u, r) /\ (Queued(v, r) <=> Queued(u, r))
               /\ (Calling(v, r) <=> Calling(u, r))
    BY <1>2, <1>5 DEF WorldKept, Queued, Calling
  <2>2. QED BY <1>5, <2>1 DEF Kept, TransferKept
<1>8. Survives(v)
  BY <1>2, <1>5, <1>6, <1>7 DEF WorldKept, Survives
<1>9. QED BY <1>1, <1>8, BecomesKept

(* Whoever has to answer a request answers for the first time. *)
LEMMA HasToAnswerGives ==
  ASSUME WorldKept(World), fault = "none", NEW r \in Requests, HasToAnswer(r),
         NEW w, w = World
  PROVE  /\ Between(w, r) /\ w.rreq[r].mem = "live" /\ w.rreq[r].waiting_for_response
         /\ w.rreq[r].state \in {"INVOKING", "WAITING"}
         /\ w.rreq[r].invoking_handler <=> w.rreq[r].state = "INVOKING"
         /\ w.rreq[r].got_transfer_destroy => w.xfer[r].failed
         /\ ~w.xfer[r].responded /\ w.xfer[r].kind # "websocket"
         /\ w.rreq = rreq /\ w.xfer = xfer /\ w.freed = freed /\ w.stack = stack
         /\ IsRequest(w.rreq[r]) /\ w.xfer[r] \in Transfers /\ w.fault = "none"
<1>1. /\ w.rreq = rreq /\ w.xfer = xfer /\ w.freed = freed /\ w.stack = stack
      /\ w.fault = "none" /\ WorldKept(w)
  BY WorldIs
<1>2. /\ w.rreq[r].mem = "live" /\ w.rreq[r].waiting_for_response
      /\ w.rreq[r].state \in {"INVOKING", "WAITING"}
  BY <1>1 DEF HasToAnswer
<1>3. Between(w, r)
  <2>1. ~w.freed
    BY <1>1, <1>2 DEF WorldKept
  <2>2. QED BY <1>1, <1>2, <2>1, KeptIsBetween
<1>4. Kept(w, r) /\ IsRequest(w.rreq[r]) /\ w.xfer[r] \in Transfers
  BY <1>1 DEF WorldKept, IsWorld
<1>5. RequestKept(w.rreq[r], w.xfer[r]) /\ TransferKept(w.rreq[r], w.xfer[r], Queued(w, r))
  BY <1>4 DEF Kept
<1> DEFINE q == w.rreq[r]
           x == w.xfer[r]
<1>6. /\ q.waiting_for_response /\ q.state \in {"INVOKING", "WAITING"}
      /\ RequestKept(q, x) /\ TransferKept(q, x, Queued(w, r))
  BY <1>2, <1>5
<1> HIDE DEF q, x
<1>7. ~x.responded /\ x.kind # "websocket" /\ (q.invoking_handler <=> q.state = "INVOKING")
  BY <1>6, <1>4 DEF RequestKept, ToAnswer, q, IsRequest
<1>8. q.got_transfer_destroy => x.failed
  BY <1>6, <1>7 DEF TransferKept
<1>9. QED BY <1>1, <1>2, <1>3, <1>4, <1>7, <1>8 DEF q, x

(* The request is no longer waited for, and otherwise as it was. *)
LEMMA NoLongerDue ==
  ASSUME NEW r \in Requests, NEW w, Between(w, r), NEW q, q = w.rreq[r],
         NEW v, v = WithRequest(w, r, NotDue(q))
  PROVE  /\ Between(v, r) /\ v.xfer = w.xfer /\ Unmoved(v, w) /\ v.rreq[r] = NotDue(q)
         /\ v.queue = w.queue
         /\ IsRequest(NotDue(q)) /\ NotDue(q).mem = q.mem /\ NotDue(q).state = q.state
         /\ ~NotDue(q).waiting_for_response
         /\ NotDue(q).got_transfer_destroy = q.got_transfer_destroy
         /\ NotDue(q).invoking_handler = q.invoking_handler
<1> DEFINE e == NotDue(q)
<1>1. IsRequest(q) /\ q.mem # "none"
  BY DEF Between, IsWorld
<1>2. /\ IsRequest(e) /\ e.mem = q.mem /\ e.state = q.state /\ ~e.waiting_for_response
      /\ e.got_transfer_destroy = q.got_transfer_destroy
      /\ e.invoking_handler = q.invoking_handler
  BY <1>1, NotDueIs
<1> HIDE DEF e
<1>3. v = WithRequest(w, r, e)
  BY DEF e
<1>4. /\ Between(v, r) /\ v.rreq[r] = e /\ v.xfer = w.xfer /\ v.queue = w.queue /\ Unmoved(v, w)
  BY <1>1, <1>2, <1>3, StillBetween
<1>5. QED BY <1>2, <1>4 DEF e

(* dsk_http_server_request_respond_error *)
LEMMA RespondWithErrorKeeps ==
  ASSUME WorldKept(World), Careful, fault = "none", NEW r \in Requests, RespondWithError(r)
  PROVE  Survives(World)'
<1> DEFINE w == World
           v == RespondError(w, r)
<1>1. HasToAnswer(r) /\ Becomes(v)
  BY DEF RespondWithError
<1>2. w = World
  OBVIOUS
<1> HIDE DEF w
<1>3. /\ Between(w, r) /\ w.rreq[r].mem = "live"
      /\ w.rreq[r].state \in {"INVOKING", "WAITING"} /\ w.rreq[r].waiting_for_response
      /\ w.rreq[r].invoking_handler <=> w.rreq[r].state = "INVOKING"
      /\ ~w.xfer[r].responded /\ w.xfer[r].kind # "websocket"
  BY <1>1, <1>2, HasToAnswerGives
<1>4. Survives(v)
  BY <1>3, RespondErrorKeeps
<1> HIDE DEF v
<1>5. QED BY <1>1, <1>4, BecomesKept

(* dsk_http_server_request_pass *)
LEMMA PassKeeps ==
  ASSUME WorldKept(World), fault = "none", NEW r \in Requests, Pass(r)
  PROVE  Survives(World)'
<1> DEFINE w == World
           q == w.rreq[r]
           u == WithRequest(w, r, NotDue(q))
           v == IF q.state = "INVOKING" THEN WithRequest(w, r, PassBlocked(q))
                ELSE PassOn(u, r)
<1>1. HasToAnswer(r)
  BY DEF Pass
<1>2. Becomes(v)
  <2>1. Becomes(IF rreq[r].state = "INVOKING"
                THEN [w EXCEPT !.rreq[r].waiting_for_response = FALSE,
                               !.rreq[r].state = "BLOCKED_PASS"]
                ELSE PassOn([w EXCEPT !.rreq[r].waiting_for_response = FALSE], r))
    BY DEF Pass
  <2>2. q.state = rreq[r].state
    BY WorldIs
  <2> HIDE DEF w
  <2>3. [w EXCEPT !.rreq[r].waiting_for_response = FALSE] = u
    BY ONLY TRUE DEF WithRequest, NotDue
  <2>4. [w EXCEPT !.rreq[r].waiting_for_response = FALSE,
                  !.rreq[r].state = "BLOCKED_PASS"] = WithRequest(w, r, PassBlocked(q))
    BY ONLY TRUE DEF WithRequest, PassBlocked
  <2> HIDE DEF u, q
  <2>5. QED BY ONLY <2>1, <2>2, <2>3, <2>4
<1>3. w = World
  OBVIOUS
<1> HIDE DEF w
<1>4. /\ Between(w, r) /\ q.mem = "live"
      /\ q.state \in {"INVOKING", "WAITING"} /\ (q.invoking_handler <=> q.state = "INVOKING")
      /\ ~w.xfer[r].responded /\ w.xfer[r].kind # "websocket" /\ IsRequest(q)
  BY <1>1, <1>3, HasToAnswerGives
<1>5. CASE q.state = "INVOKING"
  <2> DEFINE e == PassBlocked(q)
  <2>1. v = WithRequest(w, r, e)
    BY <1>5
  <2>2. /\ IsRequest(e) /\ e.mem = "live" /\ e.state = "BLOCKED_PASS"
        /\ ~e.waiting_for_response /\ e.got_transfer_destroy = q.got_transfer_destroy
        /\ e.invoking_handler = q.invoking_handler /\ e.invoking_handler
    BY <1>4, <1>5, PassBlockedIs
  <2> HIDE DEF e, v
  <2>3. Between(v, r) /\ v.rreq[r] = e /\ v.xfer = w.xfer
    BY <1>4, <2>1, <2>2, StillBetween
  <2> DEFINE x == w.xfer[r]
  <2>4. ~x.responded /\ x.kind # "websocket"
    BY <1>4
  <2> HIDE DEF x
  <2>5. RequestKept(e, x)
    BY <2>2, <2>4 DEF RequestKept, NotNeeded
  <2>6. Survives(v)
    BY <2>3, <2>5, BetweenIsKept DEF x
  <2>7. QED BY <1>2, <2>6, BecomesKept
<1>6. CASE q.state # "INVOKING"
  <2>1. v = PassOn(u, r)
    BY <1>6
  <2>2. /\ Between(u, r) /\ u.xfer = w.xfer /\ u.rreq[r].mem = "live"
        /\ ~u.rreq[r].invoking_handler /\ ~u.rreq[r].waiting_for_response
        /\ u.rreq[r].state = "WAITING"
    BY <1>4, <1>6, NoLongerDue
  <2> HIDE DEF u, v
  <2>3. Survives(v)
    BY <1>4, <2>1, <2>2, PassOnKeeps
  <2>4. QED BY <1>2, <2>3, BecomesKept
<1>7. QED BY <1>5, <1>6

(* A response is one step of the call about its request. *)
LEMMA StreamRespondBetween ==
  ASSUME NEW r \in Requests, NEW w, Between(w, r), ~w.xfer[r].responded,
         NEW content \in {"empty", "body"}, NEW v, v = StreamRespond(w, r, content)
  PROVE  /\ Between(v, r) /\ v.xfer[r].responded /\ v.xfer[r].kind = w.xfer[r].kind
         /\ ~w.xfer[r].failed => v.xfer[r].content = content
         /\ \/ v.rreq[r] = w.rreq[r]
            \/ content = "empty" /\ ~w.xfer[r].failed
               /\ v.rreq[r] = TransferDestroyed(w.rreq[r])
<1>1. Answered(v, w, r, content)
  BY StreamRespondGives DEF Between
<1>2. IsRequest(w.rreq[r]) /\ w.rreq[r].mem # "none"
  BY DEF Between, IsWorld
<1>3. /\ v.rreq[r].mem # "none"
      /\ v.rreq[r].invoking_handler = w.rreq[r].invoking_handler
  BY <1>1, <1>2, TransferDestroyedIs DEF Answered
<1>4. Calling(v, r) <=> Calling(w, r)
  BY <1>1 DEF Answered, Unmoved, Calling
<1>5. Between(v, r)
  BY <1>1, <1>3, <1>4 DEF Answered, Unmoved, Between
<1>6. QED BY <1>1, <1>5 DEF Answered

LEMMA InStateIs ==
  ASSUME NEW q, IsRequest(q), NEW s
  PROVE  /\ IsRequest(InState(q, s)) /\ InState(q, s).mem = q.mem /\ InState(q, s).state = s
         /\ InState(q, s).waiting_for_response = q.waiting_for_response
         /\ InState(q, s).got_transfer_destroy = q.got_transfer_destroy
         /\ InState(q, s).invoking_handler = q.invoking_handler
<1> DEFINE d == InState(q, s)
<1>1. d = [q EXCEPT !.state = s]
  BY DEF InState
<1> HIDE DEF d
<1>2. /\ IsRequest(d) /\ d.mem = q.mem /\ d.state = s
      /\ d.waiting_for_response = q.waiting_for_response
      /\ d.got_transfer_destroy = q.got_transfer_destroy
      /\ d.invoking_handler = q.invoking_handler
  BY <1>1, WithState
<1>3. QED BY <1>2 DEF d

(* dsk_http_server_request_respond *)
LEMMA RespondKeeps ==
  ASSUME WorldKept(World), Careful, fault = "none", NEW r \in Requests,
         NEW content \in {"empty", "body"}, Respond(r, content)
  PROVE  Survives(World)'
<1> DEFINE w == World
           q == w.rreq[r]
           u == WithRequest(w, r, NotDue(q))
           sent == StreamRespond(u, r, content)
           p == sent.rreq[r]
           y == sent.xfer[r]
           v == IF w.xfer[r].failed THEN sent
                ELSE IF p.mem = "freed" THEN Fail(sent, "used after free")
                ELSE IF q.state = "INVOKING"
                     THEN WithRequest(sent, r, InState(p, "GOT_RESPONSE_WHILE_INVOKING"))
                ELSE WithRequest(sent, r, MaybeFree(InState(p, "GOT_RESPONSE")))
<1>1. /\ HasToAnswer(r) /\ ~w.xfer[r].failed
      /\ q.state = "WAITING" => content # "empty"
  BY WorldIs DEF Respond
<1>2. Becomes(v)
  <2> DEFINE u0 == [w EXCEPT !.rreq[r].waiting_for_response = FALSE]
             s0 == StreamRespond(u0, r, content)
  <2>1. Becomes(IF xfer[r].failed THEN s0
                ELSE IF s0.rreq[r].mem = "freed" THEN Fail(s0, "used after free")
                ELSE IF rreq[r].state = "INVOKING"
                     THEN [s0 EXCEPT !.rreq[r].state = "GOT_RESPONSE_WHILE_INVOKING"]
                ELSE [s0 EXCEPT !.rreq[r] = MaybeFree([@ EXCEPT !.state = "GOT_RESPONSE"])])
    BY DEF Respond
  <2>2. w.xfer[r].failed = xfer[r].failed /\ q.state = rreq[r].state
    BY WorldIs
  <2> HIDE DEF w
  <2>3. u0 = u
    BY ONLY TRUE DEF WithRequest, NotDue
  <2>4. s0 = sent
    BY <2>3
  <2> HIDE DEF s0, sent
  <2>5. /\ [s0 EXCEPT !.rreq[r].state = "GOT_RESPONSE_WHILE_INVOKING"] =
           WithRequest(s0, r, InState(s0.rreq[r], "GOT_RESPONSE_WHILE_INVOKING"))
        /\ [s0 EXCEPT !.rreq[r] = MaybeFree([@ EXCEPT !.state = "GOT_RESPONSE"])] =
           WithRequest(s0, r, MaybeFree(InState(s0.rreq[r], "GOT_RESPONSE")))
    BY ONLY TRUE DEF WithRequest, InState
  <2>6. QED BY <2>1, <2>2, <2>4, <2>5
<1>3. w = World
  OBVIOUS
<1> HIDE DEF w
<1>4. /\ Between(w, r) /\ q.mem = "live"
      /\ q.state \in {"INVOKING", "WAITING"} /\ (q.invoking_handler <=> q.state = "INVOKING")
      /\ ~w.xfer[r].responded /\ w.xfer[r].kind # "websocket" /\ IsRequest(q)
  BY <1>1, <1>3, HasToAnswerGives
<1> DEFINE d == NotDue(q)
<1>5. /\ Between(u, r) /\ u.xfer = w.xfer /\ u.rreq[r] = d /\ IsRequest(d)
      /\ d.mem = "live" /\ d.state = q.state /\ ~d.waiting_for_response
      /\ d.got_transfer_destroy = q.got_transfer_destroy
      /\ d.invoking_handler = q.invoking_handler
  BY <1>4, NoLongerDue
<1> HIDE DEF u, d
<1>6. /\ Between(sent, r) /\ y.responded /\ y.kind # "websocket" /\ y.content = content
      /\ p = d \/ (content = "empty" /\ p = TransferDestroyed(d))
  BY <1>1, <1>4, <1>5, StreamRespondBetween
<1>7. /\ IsRequest(p) /\ p.state = q.state /\ ~p.waiting_for_response
      /\ p.invoking_handler = q.invoking_handler
      /\ p.mem = "live" \/ (p.mem = "freed" /\ ~q.invoking_handler)
  BY <1>5, <1>6, TransferDestroyedIs
<1>8. Fail(sent, "used after free").fault # "none" /\ sent.fault = "none"
  BY <1>6 DEF Fail, Between, IsWorld
<1> HIDE DEF sent
<1>9. CASE q.state = "INVOKING"
  <2> DEFINE e == InState(p, "GOT_RESPONSE_WHILE_INVOKING")
  <2>1. v = WithRequest(sent, r, e)
    BY <1>1, <1>4, <1>7, <1>9
  <2>2. /\ IsRequest(e) /\ e.mem = "live" /\ e.state = "GOT_RESPONSE_WHILE_INVOKING"
        /\ ~e.waiting_for_response /\ e.got_transfer_destroy = p.got_transfer_destroy
        /\ e.invoking_handler = p.invoking_handler /\ e.invoking_handler
    BY <1>4, <1>7, <1>9, InStateIs
  <2> HIDE DEF e, v, p, y
  <2>3. RequestKept(e, y)
    BY <1>6, <2>2 DEF RequestKept, NotNeeded, ToAnswer
  <2>4. Between(v, r) /\ v.rreq[r] = e /\ v.xfer = sent.xfer
    BY <1>6, <2>1, <2>2, StillBetween DEF p
  <2>5. Survives(v)
    BY <2>3, <2>4, BetweenIsKept DEF y
  <2>6. QED BY <1>2, <2>5, BecomesKept
<1>10. CASE q.state # "INVOKING"
  <2> DEFINE b == InState(p, "GOT_RESPONSE")
             e == MaybeFree(b)
  <2>1. v = WithRequest(sent, r, e) /\ p = d
    BY <1>1, <1>4, <1>5, <1>6, <1>7, <1>10
  <2>2. /\ IsRequest(b) /\ b.mem = "live" /\ b.state = "GOT_RESPONSE"
        /\ ~b.waiting_for_response /\ b.got_transfer_destroy = p.got_transfer_destroy
        /\ b.invoking_handler = p.invoking_handler /\ ~b.invoking_handler
    <3>1. IsRequest(p) /\ p.mem = "live" /\ ~p.waiting_for_response /\ ~p.invoking_handler
      BY <1>4, <1>5, <1>7, <1>10, <2>1
    <3> HIDE DEF p
    <3>2. QED BY <3>1, InStateIs
  <2> HIDE DEF b
  <2>3. /\ IsRequest(e) /\ e.mem = (IF NotNeeded(b) THEN "freed" ELSE "live")
        /\ e.state = "GOT_RESPONSE" /\ ~e.waiting_for_response
        /\ e.got_transfer_destroy = p.got_transfer_destroy
        /\ e.got_transfer_destroy = b.got_transfer_destroy
        /\ e.invoking_handler = p.invoking_handler /\ ~e.invoking_handler
    BY <2>2, MaybeFreeIs
  <2> HIDE DEF e, v, p, y
  <2>4. e.mem # "none" /\ (e.mem = "freed" <=> NotNeeded(e))
    BY <2>2, <2>3 DEF NotNeeded
  <2>5. RequestKept(e, y)
    BY <1>6, <2>3, <2>4 DEF RequestKept, ToAnswer
  <2>6. Between(v, r) /\ v.rreq[r] = e /\ v.xfer = sent.xfer
    <3>1. /\ IsRequest(e) /\ e.mem # "none"
          /\ e.got_transfer_destroy = sent.rreq[r].got_transfer_destroy
          /\ e.invoking_handler = sent.rreq[r].invoking_handler
      BY <2>3, <2>4 DEF p
    <3>2. v = WithRequest(sent, r, e)
      BY <2>1
    <3>3. QED BY <1>6, <3>1, <3>2, StillBetween
  <2>7. Survives(v)
    BY <2>5, <2>6, BetweenIsKept DEF y
  <2>8. QED BY <1>2, <2>7, BecomesKept
<1>11. QED BY <1>9, <1>10

(* dsk_http_server_request_redirect *)
LEMMA RedirectKeeps ==
  ASSUME WorldKept(World), Careful, fault = "none", NEW r \in Requests, Redirect(r)
  PROVE  Survives(World)'
<1> DEFINE w == World
           q == w.rreq[r]
           d == NotDue(q)
           u == WithRequest(w, r, d)
           sent == StreamRespond(u, r, "body")
           p == sent.rreq[r]
           y == sent.xfer[r]
           e == MaybeFree(p)
           v == WithRequest(sent, r, e)
<1>1. HasToAnswer(r) /\ ~(w.xfer[r].failed /\ q.state = "INVOKING")
  BY WorldIs DEF Redirect
<1>2. Becomes(v)
  <2> DEFINE u0 == [w EXCEPT !.rreq[r].waiting_for_response = FALSE]
             s0 == StreamRespond(u0, r, "body")
  <2>1. Becomes([s0 EXCEPT !.rreq[r] = MaybeFree(@)])
    BY DEF Redirect
  <2> HIDE DEF w
  <2>2. u0 = u
    BY ONLY TRUE DEF WithRequest, NotDue
  <2>3. s0 = sent
    BY <2>2
  <2> HIDE DEF s0, sent
  <2>4. [s0 EXCEPT !.rreq[r] = MaybeFree(@)] = WithRequest(s0, r, MaybeFree(s0.rreq[r]))
    BY ONLY TRUE DEF WithRequest
  <2>5. QED BY <2>1, <2>3, <2>4
<1>3. w = World
  OBVIOUS
<1> HIDE DEF w
<1>4. /\ Between(w, r) /\ q.mem = "live"
      /\ q.state \in {"INVOKING", "WAITING"} /\ (q.invoking_handler <=> q.state = "INVOKING")
      /\ q.got_transfer_destroy => w.xfer[r].failed
      /\ ~w.xfer[r].responded /\ w.xfer[r].kind # "websocket" /\ IsRequest(q)
  BY <1>1, <1>3, HasToAnswerGives
<1>5. /\ Between(u, r) /\ u.xfer = w.xfer /\ u.rreq[r] = d /\ IsRequest(d)
      /\ d.mem = "live" /\ d.state = q.state /\ ~d.waiting_for_response
      /\ d.got_transfer_destroy = q.got_transfer_destroy
      /\ d.invoking_handler = q.invoking_handler
  BY <1>4, NoLongerDue
<1> HIDE DEF u, d
<1>6. /\ Between(sent, r) /\ y.responded /\ y.kind # "websocket" /\ p = d
      /\ ~w.xfer[r].failed => y.content = "body"
  BY <1>1, <1>4, <1>5, StreamRespondBetween
<1>7. /\ IsRequest(p) /\ p.mem = "live" /\ ~p.waiting_for_response
      /\ p.state \in {"INVOKING", "WAITING"} /\ (p.invoking_handler <=> p.state = "INVOKING")
      /\ p.state = "INVOKING" => ~p.got_transfer_destroy /\ y.content = "body"
  BY <1>1, <1>4, <1>5, <1>6
<1> HIDE DEF sent, p, y
<1>8. /\ IsRequest(e) /\ e.mem = (IF NotNeeded(p) THEN "freed" ELSE "live")
      /\ e.state = p.state /\ e.waiting_for_response = p.waiting_for_response
      /\ e.got_transfer_destroy = p.got_transfer_destroy
      /\ e.invoking_handler = p.invoking_handler
  BY <1>7, MaybeFreeIs
<1>9. e.mem # "none" /\ (e.mem = "freed" <=> NotNeeded(e)) /\ ~e.waiting_for_response
  BY <1>7, <1>8 DEF NotNeeded
<1>10. /\ e.state \in {"INVOKING", "WAITING"} /\ (e.invoking_handler <=> e.state = "INVOKING")
       /\ e.state = "INVOKING" => ~e.got_transfer_destroy /\ y.content = "body"
  BY <1>7, <1>8
<1>11. v = WithRequest(sent, r, e) /\ p = sent.rreq[r] /\ y = sent.xfer[r]
  BY DEF p, y
<1> HIDE DEF e, v
<1>12. RequestKept(e, y)
  BY <1>6, <1>9, <1>10 DEF RequestKept, ToAnswer
<1>13. Between(v, r) /\ v.rreq[r] = e /\ v.xfer = sent.xfer
  BY <1>6, <1>8, <1>9, <1>11, StillBetween
<1>14. Survives(v)
  BY <1>11, <1>12, <1>13, BetweenIsKept
<1>15. QED BY <1>2, <1>14, BecomesKept

(* A world in the middle of a call whose history or paths change. *)
AtPath(q, path) == [q EXCEPT !.path = path]

LEMMA AtPathIs ==
  ASSUME NEW q, IsRequest(q), NEW path
  PROVE  IsRequest(AtPath(q, path)) /\ SameRequest(AtPath(q, path), q)
<1> DEFINE d == AtPath(q, path)
<1>1. d = [q EXCEPT !.path = path]
  BY DEF AtPath
<1> HIDE DEF d
<1>2. d = [mem |-> q.mem, state |-> q.state, node |-> q.node, handler |-> q.handler,
           path |-> path, waiting_for_response |-> q.waiting_for_response,
           got_transfer_destroy |-> q.got_transfer_destroy,
           invoking_handler |-> q.invoking_handler]
  BY <1>1 DEF IsRequest
<1>3. /\ d.mem = q.mem /\ d.state = q.state /\ d.node = q.node /\ d.handler = q.handler
      /\ d.path = path /\ d.waiting_for_response = q.waiting_for_response
      /\ d.got_transfer_destroy = q.got_transfer_destroy
      /\ d.invoking_handler = q.invoking_handler
  BY <1>2
<1>4. IsRequest(d) /\ SameRequest(d, q)
  BY <1>2, <1>3 DEF IsRequest, SameRequest
<1>5. QED BY <1>4 DEF d

(* The history of a request may change. *)
LEMMA CalledBetween ==
  ASSUME NEW r \in Requests, NEW w, Between(w, r), NEW t, NEW v, v = WithCalled(w, r, t)
  PROVE  Between(v, r) /\ v.rreq = w.rreq /\ v.xfer = w.xfer
<1> DEFINE c == [w.called EXCEPT ![r] = t]
<1>1. IsWorld(w)
  BY DEF Between
<1>2. v = [w EXCEPT !.called = c]
  BY DEF WithCalled
<1> HIDE DEF c
<1>3. v = [rreq |-> w.rreq, xfer |-> w.xfer, queue |-> w.queue, open |-> w.open,
           stack |-> w.stack, freed |-> w.freed, fault |-> w.fault, called |-> c]
  BY <1>1, <1>2 DEF IsWorld
<1>4. /\ v.rreq = w.rreq /\ v.xfer = w.xfer /\ v.queue = w.queue /\ v.open = w.open
      /\ v.stack = w.stack /\ v.freed = w.freed /\ v.fault = w.fault /\ v.called = c
  BY <1>3
<1>5. IsWorld(v)
  BY <1>1, <1>3, <1>4 DEF IsWorld
<1>6. \A s \in Requests: (Queued(v, s) <=> Queued(w, s)) /\ (Calling(v, s) <=> Calling(w, s))
  BY <1>4 DEF Queued, Calling
<1>7. RestKept(v, r)
  <2>1. Unmoved(v, w) /\ OthersSame(v, w, r)
    BY <1>4 DEF Unmoved, OthersSame
  <2>2. QED BY <1>6, <2>1, OthersStayKept DEF Between
<1>8. TransferKept(v.rreq[r], v.xfer[r], Queued(v, r))
  BY <1>4, <1>6 DEF Between, TransferKept
<1>9. QED BY <1>4, <1>5, <1>6, <1>7, <1>8 DEF Between

(* What an internal redirect does before it looks for a handler. *)
Redirected(w, r, path, t) ==
  [w EXCEPT !.rreq[r].waiting_for_response = FALSE,
            !.rreq[r].path = path, !.called[r] = t,
            !.rreq[r].state = IF @ = "WAITING" THEN "INIT" ELSE @]

(* It does so one field after the other. *)
LEMMA RedirectedInSteps ==
  ASSUME NEW r \in Requests, NEW w, NEW q, q = w.rreq[r], NEW path, NEW t
  PROVE  LET u1 == WithRequest(w, r, NotDue(q))
             u2 == WithRequest(u1, r, AtPath(u1.rreq[r], path))
             u3 == WithCalled(u2, r, t)
             s == IF u3.rreq[r].state = "WAITING" THEN "INIT" ELSE u3.rreq[r].state
         IN  Redirected(w, r, path, t) = WithRequest(u3, r, InState(u3.rreq[r], s))
BY ONLY q = w.rreq[r], ZenonT(60)
   DEF Redirected, WithRequest, NotDue, AtPath, WithCalled, InState

(* An internal redirect forgets the handlers that were called. *)
LEMMA RedirectedBetween ==
  ASSUME NEW r \in Requests, NEW w, Between(w, r), NEW q, q = w.rreq[r], IsRequest(q),
         q.mem = "live", q.state \in {"INVOKING", "WAITING"},
         q.invoking_handler <=> q.state = "INVOKING",
         NEW path, NEW t,
         NEW v, v = Redirected(w, r, path, t)
  PROVE  /\ Between(v, r) /\ v.xfer = w.xfer
         /\ IsRequest(v.rreq[r]) /\ v.rreq[r].mem = "live"
         /\ v.rreq[r].state = IF q.state = "WAITING" THEN "INIT" ELSE q.state
         /\ ~v.rreq[r].waiting_for_response
         /\ v.rreq[r].invoking_handler = q.invoking_handler
<1> DEFINE u1 == WithRequest(w, r, NotDue(q))
           e == AtPath(u1.rreq[r], path)
           u2 == WithRequest(u1, r, e)
           u3 == WithCalled(u2, r, t)
           s == IF u3.rreq[r].state = "WAITING" THEN "INIT" ELSE u3.rreq[r].state
           d == InState(u3.rreq[r], s)
           u4 == WithRequest(u3, r, d)
<1>1. v = u4
  <2>1. Redirected(w, r, path, t) = u4
    BY RedirectedInSteps
  <2> HIDE DEF u4
  <2>2. QED BY <2>1
<1>2. /\ Between(u1, r) /\ u1.xfer = w.xfer /\ IsRequest(u1.rreq[r])
      /\ u1.rreq[r].mem = "live" /\ u1.rreq[r].state = q.state
      /\ ~u1.rreq[r].waiting_for_response
      /\ u1.rreq[r].invoking_handler = q.invoking_handler
  BY NoLongerDue
<1> HIDE DEF u1
<1>3. IsRequest(e) /\ SameRequest(e, u1.rreq[r])
  BY <1>2, AtPathIs
<1> HIDE DEF e
<1>4. /\ Between(u2, r) /\ SameRequest(u2.rreq[r], u1.rreq[r]) /\ u2.xfer = u1.xfer
      /\ IsRequest(u2.rreq[r])
  BY <1>2, <1>3, MovedBetween
<1> HIDE DEF u2
<1>5. Between(u3, r) /\ u3.rreq = u2.rreq /\ u3.xfer = u2.xfer
  BY <1>4, CalledBetween
<1> HIDE DEF u3
<1>6. /\ IsRequest(u3.rreq[r]) /\ u3.rreq[r].mem = "live" /\ u3.rreq[r].state = q.state
      /\ ~u3.rreq[r].waiting_for_response
      /\ u3.rreq[r].invoking_handler = q.invoking_handler
  BY <1>2, <1>4, <1>5 DEF SameRequest
<1>7. s = IF q.state = "WAITING" THEN "INIT" ELSE q.state
  BY <1>6
<1> HIDE DEF s
<1>8. /\ IsRequest(d) /\ d.mem = "live" /\ d.state = s /\ ~d.waiting_for_response
      /\ d.invoking_handler = u3.rreq[r].invoking_handler
      /\ d.got_transfer_destroy = u3.rreq[r].got_transfer_destroy
      /\ d.invoking_handler = q.invoking_handler
  BY <1>6, InStateIs
<1> HIDE DEF d
<1>9. Between(u4, r) /\ u4.rreq[r] = d /\ u4.xfer = u3.xfer
  <2>1. u4 = WithRequest(u3, r, d)
    OBVIOUS
  <2>2. IsRequest(d) /\ d.mem # "none" /\ r \in Requests /\ Between(u3, r)
    BY <1>5, <1>8
  <2>3. /\ d.invoking_handler = u3.rreq[r].invoking_handler
        /\ d.got_transfer_destroy = u3.rreq[r].got_transfer_destroy
    BY <1>8
  <2> HIDE DEF u4
  <2>4. QED BY ONLY <2>1, <2>2, <2>3, StillBetween
<1> HIDE DEF u4
<1>10. QED BY <1>1, <1>2, <1>4, <1>5, <1>7, <1>8, <1>9

(* dsk_http_server_request_internal_redirect *)
LEMMA InternalRedirectKeeps ==
  ASSUME WorldKept(World), fault = "none", NEW r \in Requests, NEW path \in Paths,
         InternalRedirect(r, path)
  PROVE  Survives(World)'
<1> DEFINE w == World
           q == w.rreq[r]
           none == <<>>
           u == Redirected(w, r, path, none)
           f == FindFirst(u, r)
           v == IF freed THEN Fail(u, "used after free")
                ELSE IF ~Found(u, r) THEN NoHandlerFound(u, r)
                ELSE IF rreq[r].state = "INVOKING"
                     THEN [f EXCEPT !.rreq[r].state = "BLOCKED_INTERNAL_REDIRECT"]
                ELSE InvokeHandler(f, r)
<1>1. HasToAnswer(r) /\ Becomes(v)
  BY DEF InternalRedirect, Redirected
<1>2. w = World /\ rreq[r].state = q.state
  BY WorldIs
<1> HIDE DEF w
<1>3. /\ Between(w, r) /\ q.mem = "live"
      /\ q.state \in {"INVOKING", "WAITING"} /\ (q.invoking_handler <=> q.state = "INVOKING")
      /\ ~w.xfer[r].responded /\ w.xfer[r].kind # "websocket" /\ IsRequest(q)
  BY <1>1, <1>2, HasToAnswerGives
<1>4. /\ Between(u, r) /\ u.xfer = w.xfer
      /\ IsRequest(u.rreq[r]) /\ u.rreq[r].mem = "live"
      /\ u.rreq[r].state = IF q.state = "WAITING" THEN "INIT" ELSE q.state
      /\ ~u.rreq[r].waiting_for_response
      /\ u.rreq[r].invoking_handler = q.invoking_handler
  <2> HIDE DEF none
  <2>1. u = Redirected(w, r, path, none)
    OBVIOUS
  <2> HIDE DEF u
  <2>2. QED BY <1>3, <2>1, RedirectedBetween
<1> HIDE DEF u
<1>5. /\ Between(f, r) /\ SameRequest(f.rreq[r], u.rreq[r]) /\ f.xfer = u.xfer
      /\ IsRequest(f.rreq[r])
  BY <1>4, FindFirstKeeps
<1>7. ~freed
  BY <1>2, <1>3, WorldIs DEF Between
<1> HIDE DEF f
<1>8. CASE ~Found(u, r)
  <2>1. v = NoHandlerFound(u, r)
    BY <1>7, <1>8
  <2> HIDE DEF v
  <2>2. Survives(v)
    BY <1>3, <1>4, <2>1, NoHandlerFoundKeeps
  <2>3. QED BY <1>1, <2>2, BecomesKept
<1>9. CASE Found(u, r) /\ q.state = "INVOKING"
  <2> DEFINE e == InState(f.rreq[r], "BLOCKED_INTERNAL_REDIRECT")
  <2>1. v = [f EXCEPT !.rreq[r].state = "BLOCKED_INTERNAL_REDIRECT"]
    BY <1>2, <1>7, <1>9
  <2>2. v = WithRequest(f, r, e)
    BY ONLY <2>1 DEF WithRequest, InState
  <2>3. /\ IsRequest(e) /\ e.mem = "live" /\ e.state = "BLOCKED_INTERNAL_REDIRECT"
        /\ ~e.waiting_for_response
        /\ e.got_transfer_destroy = f.rreq[r].got_transfer_destroy
        /\ e.invoking_handler = f.rreq[r].invoking_handler /\ e.invoking_handler
    BY <1>3, <1>4, <1>5, <1>9, InStateIs DEF SameRequest
  <2> HIDE DEF e, v
  <2>4. Between(v, r) /\ v.rreq[r] = e /\ v.xfer = f.xfer
    BY <1>5, <2>2, <2>3, StillBetween
  <2> DEFINE x == f.xfer[r]
  <2>5. ~x.responded /\ x.kind # "websocket"
    BY <1>3, <1>4, <1>5
  <2> HIDE DEF x
  <2>6. RequestKept(e, x)
    BY <2>3, <2>5 DEF RequestKept, NotNeeded
  <2>7. Survives(v)
    BY <2>4, <2>6, BetweenIsKept DEF x
  <2>8. QED BY <1>1, <2>7, BecomesKept
<1>10. CASE Found(u, r) /\ q.state # "INVOKING"
  <2>1. v = InvokeHandler(f, r)
    BY <1>2, <1>7, <1>10
  <2>2. /\ f.rreq[r].mem = "live" /\ ~f.xfer[r].responded /\ f.xfer[r].kind # "websocket"
        /\ ~f.rreq[r].invoking_handler /\ ~f.rreq[r].waiting_for_response
        /\ f.rreq[r].state = "INIT"
    BY <1>3, <1>4, <1>5, <1>10 DEF SameRequest
  <2> HIDE DEF v
  <2>3. Survives(v)
    BY <1>5, <2>1, <2>2, InvokeHandlerKeeps
  <2>4. QED BY <1>1, <2>3, BecomesKept
<1>11. QED BY <1>8, <1>9, <1>10

WithOpen(w, o) == [w EXCEPT !.open = o]

(* The connection may be taken from the stream. *)
LEMMA OpenBetween ==
  ASSUME NEW r \in Requests, NEW w, Between(w, r), NEW o, NEW v, v = WithOpen(w, o)
  PROVE  Between(v, r) /\ v.rreq = w.rreq /\ v.xfer = w.xfer
<1>1. IsWorld(w)
  BY DEF Between
<1>2. v = [rreq |-> w.rreq, xfer |-> w.xfer, queue |-> w.queue, open |-> o,
           stack |-> w.stack, freed |-> w.freed, fault |-> w.fault, called |-> w.called]
  BY <1>1 DEF IsWorld, WithOpen
<1>3. /\ v.rreq = w.rreq /\ v.xfer = w.xfer /\ v.queue = w.queue /\ v.open = o
      /\ v.stack = w.stack /\ v.freed = w.freed /\ v.fault = w.fault /\ v.called = w.called
  BY <1>2
<1>4. IsWorld(v)
  BY <1>1, <1>2, <1>3 DEF IsWorld
<1>5. \A s \in Requests: (Queued(v, s) <=> Queued(w, s)) /\ (Calling(v, s) <=> Calling(w, s))
  BY <1>3 DEF Queued, Calling
<1>6. RestKept(v, r)
  <2>1. Unmoved(v, w) /\ OthersSame(v, w, r)
    BY <1>3 DEF Unmoved, OthersSame
  <2>2. QED BY <1>5, <2>1, OthersStayKept DEF Between
<1>7. TransferKept(v.rreq[r], v.xfer[r], Queued(v, r))
  BY <1>3, <1>5 DEF Between, TransferKept
<1>8. QED BY <1>3, <1>4, <1>5, <1>6, <1>7 DEF Between

(* The transfer changes in what its place in the queue does not depend on. *)
LEMMA TransferBetween ==
  ASSUME NEW r \in Requests, NEW w, Between(w, r), NEW y \in Transfers,
         y.mem = w.xfer[r].mem, y.returned = w.xfer[r].returned,
         y.responded = w.xfer[r].responded, y.failed = w.xfer[r].failed,
         NEW v, v = WithTransfer(w, r, y)
  PROVE  Between(v, r) /\ v.rreq = w.rreq /\ v.xfer[r] = y
<1>1. /\ IsWorld(v) /\ Unmoved(v, w) /\ OthersSame(v, w, r)
      /\ v.rreq = w.rreq /\ v.xfer[r] = y /\ v.queue = w.queue
  BY WorldWithTransfer DEF Between
<1>2. \A s \in Requests: (Queued(v, s) <=> Queued(w, s)) /\ (Calling(v, s) <=> Calling(w, s))
  BY <1>1 DEF Queued, Calling, Unmoved
<1>3. RestKept(v, r)
  BY <1>1, <1>2, OthersStayKept DEF Between
<1>4. TransferKept(v.rreq[r], v.xfer[r], Queued(v, r))
  BY <1>1, <1>2 DEF Between, TransferKept
<1>5. QED BY <1>1, <1>2, <1>3, <1>4 DEF Between, Unmoved

(* dsk_http_server_request_respond_websocket, from the handler itself *)
LEMMA RespondWebsocketKeeps ==
  ASSUME WorldKept(World), Careful, fault = "none", NEW r \in Requests,
         NEW valid \in BOOLEAN, RespondWebsocket(r, valid)
  PROVE  Survives(World)'
<1> DEFINE w == World
           q == w.rreq[r]
           x == w.xfer[r]
           y == [x EXCEPT !.content = "websocket"]
           u == WithTransfer(w, r, y)
           closed == FALSE
           t == WithOpen(u, closed)
           e == MaybeFree(t.rreq[r])
           v == WithRequest(t, r, e)
<1>1. /\ x.kind = "websocket" /\ q.state = "INVOKING" /\ valid
      /\ Becomes(IF q.mem = "freed" \/ x.failed THEN Fail(w, "used after free")
                 ELSE [[w EXCEPT !.xfer[r].content = "websocket", !.open = FALSE]
                         EXCEPT !.rreq[r] = MaybeFree(@)])
  BY WorldIs DEF RespondWebsocket
<1>2. WorldKept(w) /\ w.fault = "none"
  BY WorldIs
<1> HIDE DEF w
<1>3. ~(q.mem = "freed" \/ x.failed)
  <2>1. RequestKept(q, x) /\ TransferKept(q, x, Queued(w, r))
    BY <1>2 DEF WorldKept, Kept
  <2>2. q.invoking_handler /\ ~q.got_transfer_destroy
    BY <1>1, <2>1 DEF RequestKept
  <2>3. QED BY <2>1, <2>2 DEF RequestKept, NotNeeded, TransferKept
<1>4. Becomes(v)
  <2>1. Becomes([[w EXCEPT !.xfer[r].content = "websocket", !.open = FALSE]
                    EXCEPT !.rreq[r] = MaybeFree(@)])
    BY <1>1, <1>3
  <2>2. [[w EXCEPT !.xfer[r].content = "websocket", !.open = FALSE]
           EXCEPT !.rreq[r] = MaybeFree(@)] = v
    BY ONLY TRUE DEF WithTransfer, WithOpen, WithRequest
  <2> HIDE DEF v
  <2>3. QED BY <2>1, <2>2
<1>5. Kept(w, r) /\ IsRequest(q) /\ x \in Transfers
  BY <1>2 DEF WorldKept, IsWorld
<1>6. RequestKept(q, x) /\ q.mem # "none" /\ q.invoking_handler /\ q.mem # "freed"
  BY <1>1, <1>3, <1>5 DEF Kept, RequestKept
<1>7. Between(w, r)
  <2>1. ~w.freed
    BY <1>2, <1>5, <1>6 DEF WorldKept, Kept, Calling
  <2>2. QED BY <1>2, <1>6, <2>1, KeptIsBetween
<1>8. /\ y \in Transfers /\ y.content = "websocket" /\ y.mem = x.mem /\ y.kind = x.kind
      /\ y.returned = x.returned /\ y.responded = x.responded /\ y.failed = x.failed
  BY <1>5 DEF Transfers
<1> HIDE DEF y
<1>9. Between(u, r) /\ u.rreq = w.rreq /\ u.xfer[r] = y
  BY <1>7, <1>8, TransferBetween
<1> HIDE DEF u, closed
<1>10. Between(t, r) /\ t.rreq[r] = q /\ t.xfer[r] = y
  BY <1>9, OpenBetween
<1> HIDE DEF t
<1>11. /\ IsRequest(e) /\ e.mem = q.mem /\ e.state = "INVOKING"
       /\ e.waiting_for_response = q.waiting_for_response
       /\ e.got_transfer_destroy = q.got_transfer_destroy
       /\ e.invoking_handler = q.invoking_handler
  BY <1>1, <1>5, <1>6, <1>10, MaybeFreeIs DEF NotNeeded
<1>12. v = WithRequest(t, r, e)
  OBVIOUS
<1> HIDE DEF e, v, q, x
<1>13. RequestKept(e, y)
  <2>1. /\ q.state = "INVOKING" /\ x.kind = "websocket" /\ q.invoking_handler
        /\ RequestKept(q, x) /\ q.mem # "none" /\ q.mem # "freed"
    BY <1>1, <1>6
  <2>2. ~q.got_transfer_destroy /\ ~q.waiting_for_response /\ ~x.responded
    BY <2>1 DEF RequestKept
  <2>3. /\ ~e.got_transfer_destroy /\ ~e.waiting_for_response /\ e.invoking_handler
        /\ e.state = "INVOKING" /\ e.mem # "none" /\ e.mem # "freed" /\ ~y.responded
    BY <1>8, <1>11, <2>1, <2>2
  <2>4. QED BY <2>3 DEF RequestKept, NotNeeded, ToAnswer
<1>14. Between(v, r) /\ v.rreq[r] = e /\ v.xfer = t.xfer
  <2>1. /\ IsRequest(e) /\ e.mem # "none" /\ Between(t, r)
        /\ e.got_transfer_destroy = t.rreq[r].got_transfer_destroy
        /\ e.invoking_handler = t.rreq[r].invoking_handler
    BY <1>6, <1>10, <1>11
  <2>2. QED BY <1>12, <2>1, StillBetween
<1>15. Survives(v)
  BY <1>10, <1>13, <1>14, BetweenIsKept
<1>16. QED BY <1>4, <1>15, BecomesKept

-----------------------------------------------------------------------------
(* A handler returns. *)

(* The innermost frame is the one of the request whose handler returns. *)
LEMMA CallEnded ==
  ASSUME NEW w, WorldKept(w), w.fault = "none", w.stack # <<>>,
         NEW r, r = Last(w.stack).request
  PROVE  /\ r \in Requests /\ Kept(w, r) /\ w.rreq[r].invoking_handler /\ ~w.freed
         /\ IsRequest(w.rreq[r]) /\ w.xfer[r] \in Transfers
         /\ \A u: u = WithRequest(WithStack(w, Front(w.stack)), r, Returned(w.rreq[r])) =>
              /\ Between(u, r) /\ u.rreq[r] = Returned(w.rreq[r]) /\ u.xfer = w.xfer
<1> DEFINE n == Len(w.stack)
           C == [request: Requests, calls: BOOLEAN]
           front == Front(w.stack)
           q == w.rreq[r]
           e == Returned(q)
           t == WithStack(w, front)
<1>1. /\ IsWorld(w) /\ w.stack \in Seq(C)
      /\ \A i, j \in DOMAIN w.stack: w.stack[i].request = w.stack[j].request => i = j
      /\ \A s \in Requests: Kept(w, s)
  BY DEF WorldKept, IsWorld
<1>2. n \in Nat /\ n # 0 /\ DOMAIN w.stack = 1..n
  <2> DEFINE st == w.stack
  <2>1. st \in Seq(C) /\ st # <<>>
    BY <1>1
  <2> HIDE DEF st, C
  <2>2. Len(st) \in Nat /\ Len(st) # 0 /\ DOMAIN st = 1..Len(st)
    BY <2>1, EmptySeq, LenProperties
  <2>3. QED BY <2>2 DEF st
<1>3. /\ front \in Seq(C) /\ DOMAIN front = 1..(n - 1)
      /\ \A i \in 1..(n - 1): front[i] = w.stack[i]
  <2> DEFINE st == w.stack
  <2>1. front = SubSeq(st, 1, n - 1)
    BY DEF Front
  <2> HIDE DEF st, C, n, front
  <2>2. st \in Seq(C) /\ \A i \in 1..n: st[i] \in C
    <3>1. st \in Seq(C) /\ DOMAIN st = 1..n
      BY <1>1, <1>2 DEF st
    <3>2. QED BY <3>1, LenProperties
  <2>3. \A i \in 1..(n - 1): st[i] \in C
    BY <1>2, <2>2
  <2>4. 1 \in Int /\ n - 1 \in Int
    BY <1>2
  <2>5. /\ front \in Seq(C) /\ Len(front) = IF 1 <= n - 1 THEN n - 1 - 1 + 1 ELSE 0
        /\ \A i \in 1..(n - 1 - 1 + 1): front[i] = st[1 + i - 1]
    BY <2>1, <2>3, <2>4, SubSeqProperties
  <2>6. DOMAIN front = 1..Len(front) /\ Len(front) = n - 1
    BY <1>2, <2>5, LenProperties
  <2>7. \A i \in 1..(n - 1): 1 + i - 1 = i
    BY <1>2
  <2>8. QED BY <1>2, <2>5, <2>6, <2>7 DEF st
<1>4. r = w.stack[n].request /\ r \in Requests
  <2> DEFINE st == w.stack
  <2>1. r = st[n].request
    BY DEF Last
  <2>2. st \in Seq(C) /\ n \in DOMAIN st
    BY <1>1, <1>2
  <2> HIDE DEF st, C, n
  <2>3. st[n] \in C
    BY <2>2, LenProperties
  <2>4. st[n].request \in Requests
    BY <2>3 DEF C
  <2>5. QED BY <2>1, <2>4 DEF st
<1> HIDE DEF n, front, C
<1>5. Kept(w, r) /\ q.invoking_handler /\ ~w.freed /\ IsRequest(q) /\ w.xfer[r] \in Transfers
  <2>1. Calling(w, r)
    BY <1>2, <1>4 DEF Calling
  <2>2. QED BY <1>1, <1>4, <2>1 DEF Kept, WorldKept, IsWorld
<1>6. \A s \in Requests: (\E i \in DOMAIN front: front[i].request = s) <=> Calling(w, s) /\ s # r
  <2> SUFFICES ASSUME NEW s \in Requests
               PROVE  (\E i \in DOMAIN front: front[i].request = s) <=> Calling(w, s) /\ s # r
    OBVIOUS
  <2>1. ASSUME NEW i \in DOMAIN front, front[i].request = s
        PROVE  Calling(w, s) /\ s # r
    <3>1. i \in 1..n /\ n \in 1..n /\ i # n /\ w.stack[i].request = s
      BY <1>2, <1>3, <2>1
    <3>2. QED BY <1>1, <1>2, <1>4, <3>1 DEF Calling
  <2>2. ASSUME Calling(w, s), s # r
        PROVE  \E i \in DOMAIN front: front[i].request = s
    <3>1. PICK i \in 1..n: w.stack[i].request = s
      BY <1>2, <2>2 DEF Calling
    <3>2. i \in 1..(n - 1)
      BY <1>2, <1>4, <2>2, <3>1
    <3>3. QED BY <1>3, <3>1, <3>2
  <2>3. QED BY <2>1, <2>2
<1>7. \A i, j \in DOMAIN front: front[i].request = front[j].request => i = j
  <2> SUFFICES ASSUME NEW i \in DOMAIN front, NEW j \in DOMAIN front,
                      front[i].request = front[j].request
               PROVE  i = j
    OBVIOUS
  <2>1. i \in DOMAIN w.stack /\ j \in DOMAIN w.stack
    BY <1>2, <1>3
  <2>2. w.stack[i].request = w.stack[j].request
    BY <1>3
  <2>3. QED BY <1>1, <2>1, <2>2
<1>8. t = [rreq |-> w.rreq, xfer |-> w.xfer, queue |-> w.queue, open |-> w.open,
           stack |-> front, freed |-> w.freed, fault |-> w.fault, called |-> w.called]
  <2>1. w = [rreq |-> w.rreq, xfer |-> w.xfer, queue |-> w.queue, open |-> w.open,
             stack |-> w.stack, freed |-> w.freed, fault |-> w.fault, called |-> w.called]
    BY <1>1 DEF IsWorld
  <2>2. t = [w EXCEPT !.stack = front]
    BY DEF WithStack
  <2>3. QED BY ONLY <2>1, <2>2
<1>9. /\ t.rreq = w.rreq /\ t.xfer = w.xfer /\ t.queue = w.queue /\ t.open = w.open
      /\ t.stack = front /\ t.freed = w.freed /\ t.fault = w.fault /\ t.called = w.called
  BY <1>8
<1>10. IsWorld(t)
  BY <1>1, <1>3, <1>7, <1>8, <1>9 DEF IsWorld, C
<1>11. \A s \in Requests: Calling(t, s) <=> Calling(w, s) /\ s # r
  BY <1>6, <1>9 DEF Calling
<1>12. \A s \in Requests: Queued(t, s) <=> Queued(w, s)
  BY <1>9 DEF Queued
<1> HIDE DEF t
<1>13. ASSUME NEW u, u = WithRequest(t, r, e)
       PROVE  Between(u, r) /\ u.rreq[r] = e /\ u.xfer = w.xfer
  <2>1. /\ IsRequest(e) /\ e.mem = q.mem /\ ~e.invoking_handler
        /\ e.got_transfer_destroy = q.got_transfer_destroy
    BY <1>5, ReturnedIs
  <2> HIDE DEF e
  <2>2. /\ IsWorld(u) /\ Unmoved(u, t) /\ OthersSame(u, t, r)
        /\ u.rreq[r] = e /\ u.xfer = t.xfer /\ u.queue = t.queue
    BY <1>4, <1>10, <1>13, <2>1, WorldWithRequest
  <2>3. \A s \in Requests: /\ Queued(u, s) <=> Queued(w, s)
                           /\ Calling(u, s) <=> Calling(w, s) /\ s # r
    BY <1>11, <1>12, <2>2 DEF Queued, Calling, Unmoved
  <2>4. RestKept(u, r)
    <3> SUFFICES ASSUME NEW s \in Requests \ {r} PROVE Kept(u, s)
      BY DEF RestKept
    <3>1. Kept(w, s) /\ u.rreq[s] = w.rreq[s] /\ u.xfer[s] = w.xfer[s]
      BY <1>1, <1>9, <2>2 DEF OthersSame
    <3>2. (Queued(u, s) <=> Queued(w, s)) /\ (Calling(u, s) <=> Calling(w, s))
      BY <2>3
    <3>3. QED BY <3>1, <3>2 DEF Kept, TransferKept
  <2>5. TransferKept(e, u.xfer[r], Queued(u, r)) /\ e.mem # "none"
    <3>1. TransferKept(q, w.xfer[r], Queued(w, r)) /\ q.mem # "none"
      BY <1>5 DEF Kept, RequestKept
    <3>2. QED BY <1>4, <1>9, <2>1, <2>2, <2>3, <3>1 DEF TransferKept
  <2>6. ~Calling(u, r) /\ ~e.invoking_handler /\ u.fault = "none" /\ ~u.freed
    BY <1>4, <1>5, <1>9, <2>1, <2>2, <2>3 DEF Unmoved
  <2>7. QED BY <1>9, <2>2, <2>4, <2>5, <2>6 DEF Between
<1>14. QED BY <1>4, <1>5, <1>13 DEF t, front

(* What a handler leaves when it returns, for each state of the request. *)
Returns(u, r, state) ==
  LET p == u.rreq[r]
      init == WithRequest(u, r, InState(p, "INIT"))
  IN  CASE state = "INVOKING" -> WithRequest(u, r, InState(p, "WAITING"))
        [] state = "BLOCKED_ERROR" -> SendError(u, r)
        [] state = "BLOCKED_PASS" -> PassOn(init, r)
        [] state = "BLOCKED_INTERNAL_REDIRECT" -> InvokeHandler(init, r)
        [] state = "GOT_RESPONSE_WHILE_INVOKING" -> WithRequest(u, r, MaybeFree(p))
        [] OTHER -> Fail(u, "should not get here")

(* What invoke_handler does with the state the handler left. *)
LEMMA ReturnsKeeps ==
  ASSUME NEW r \in Requests, NEW u, Between(u, r), NEW q, IsRequest(q), q.invoking_handler,
         NEW x \in Transfers, RequestKept(q, x),
         u.rreq[r] = Returned(q), u.xfer[r] = x,
         NEW v, v = Returns(u, r, q.state)
  PROVE  Survives(v)
<1> DEFINE d == Returned(q)
           init == WithRequest(u, r, InState(d, "INIT"))
<1>1. q.mem = "live"
  BY DEF RequestKept, NotNeeded, IsRequest, Memory
<1>2. /\ IsRequest(d) /\ d.mem = "live" /\ d.state = q.state /\ ~d.invoking_handler
      /\ d.waiting_for_response = q.waiting_for_response
      /\ d.got_transfer_destroy = q.got_transfer_destroy
  BY <1>1, ReturnedIs
<1>3. u.rreq[r] = d /\ u.xfer[r] = x /\ u.fault = "none" /\ IsWorld(u)
  BY DEF Between
<1> HIDE DEF d
<1>4. CASE q.state = "INVOKING"
  <2> DEFINE e == InState(d, "WAITING")
  <2>1. v = WithRequest(u, r, e)
    BY <1>3, <1>4 DEF Returns
  <2>2. /\ IsRequest(e) /\ e.mem = "live" /\ e.state = "WAITING" /\ ~e.invoking_handler
        /\ e.waiting_for_response = q.waiting_for_response
        /\ e.got_transfer_destroy = q.got_transfer_destroy
        /\ e.invoking_handler = d.invoking_handler
        /\ e.got_transfer_destroy = d.got_transfer_destroy
    BY <1>2, InStateIs
  <2> HIDE DEF e
  <2>3. ~q.waiting_for_response => ~q.got_transfer_destroy
    BY <1>4 DEF RequestKept
  <2>4. q.waiting_for_response => ~x.responded
    BY <1>4 DEF RequestKept, ToAnswer
  <2>5. x.kind = "websocket" => ~q.waiting_for_response /\ ~x.responded
    BY <1>4 DEF RequestKept
  <2>6. RequestKept(e, x)
    BY <2>2, <2>3, <2>4, <2>5 DEF RequestKept, NotNeeded, ToAnswer
  <2>7. Between(v, r) /\ v.rreq[r] = e /\ v.xfer = u.xfer
    <3>1. /\ e.mem # "none" /\ e.invoking_handler = u.rreq[r].invoking_handler
          /\ e.got_transfer_destroy = u.rreq[r].got_transfer_destroy
      BY <1>3, <2>2
    <3>2. QED BY <2>1, <2>2, <3>1, StillBetween
  <2>8. QED BY <1>3, <2>6, <2>7, BetweenIsKept
<1>5. CASE q.state = "BLOCKED_ERROR"
  <2>1. v = SendError(u, r)
    BY <1>5 DEF Returns
  <2>2. ~d.waiting_for_response /\ x.kind # "websocket" /\ ~x.responded
    BY <1>2, <1>5 DEF RequestKept, ToAnswer
  <2>3. ~ToAnswer(d)
    BY <1>2, <1>5, <2>2 DEF ToAnswer
  <2>4. QED BY <1>2, <1>3, <1>5, <2>1, <2>2, <2>3, SendErrorKeeps
<1>6. CASE q.state \in {"BLOCKED_PASS", "BLOCKED_INTERNAL_REDIRECT"}
  <2> DEFINE e == InState(d, "INIT")
  <2>1. v = PassOn(init, r) \/ v = InvokeHandler(init, r)
    BY <1>3, <1>6 DEF Returns
  <2>2. /\ IsRequest(e) /\ e.mem = "live" /\ e.state = "INIT" /\ ~e.invoking_handler
        /\ e.waiting_for_response = q.waiting_for_response
        /\ e.got_transfer_destroy = q.got_transfer_destroy
        /\ e.invoking_handler = d.invoking_handler
        /\ e.got_transfer_destroy = d.got_transfer_destroy
    BY <1>2, InStateIs
  <2> HIDE DEF e
  <2>3. init = WithRequest(u, r, e)
    BY DEF e
  <2> HIDE DEF init
  <2>4. Between(init, r) /\ init.rreq[r] = e /\ init.xfer = u.xfer
    <3>1. /\ e.mem # "none" /\ e.invoking_handler = u.rreq[r].invoking_handler
          /\ e.got_transfer_destroy = u.rreq[r].got_transfer_destroy
      BY <1>3, <2>2
    <3>2. QED BY <2>2, <2>3, <3>1, StillBetween
  <2>5. /\ ~x.responded /\ ~q.waiting_for_response
        /\ x.kind = "websocket" => ~q.got_transfer_destroy
    BY <1>6 DEF RequestKept, ToAnswer
  <2>6. /\ init.rreq[r].mem = "live" /\ ~init.xfer[r].responded
        /\ ~init.rreq[r].invoking_handler /\ ~init.rreq[r].waiting_for_response
        /\ init.rreq[r].state = "INIT"
        /\ init.xfer[r].kind = "websocket" => ~init.rreq[r].got_transfer_destroy
    BY <1>3, <2>2, <2>4, <2>5
  <2>7. CASE v = PassOn(init, r)
    BY <2>4, <2>6, <2>7, PassOnKeeps
  <2>8. CASE v = InvokeHandler(init, r)
    BY <2>4, <2>6, <2>8, InvokeHandlerKeeps
  <2>9. QED BY <2>1, <2>7, <2>8
<1>7. CASE q.state = "GOT_RESPONSE_WHILE_INVOKING"
  <2> DEFINE e == MaybeFree(d)
  <2>1. v = WithRequest(u, r, e)
    BY <1>3, <1>7 DEF Returns
  <2>2. /\ IsRequest(e) /\ e.mem = (IF NotNeeded(d) THEN "freed" ELSE "live")
        /\ e.state = d.state /\ e.waiting_for_response = d.waiting_for_response
        /\ e.got_transfer_destroy = d.got_transfer_destroy
        /\ e.invoking_handler = d.invoking_handler
    BY <1>2, MaybeFreeIs
  <2> HIDE DEF e
  <2>3. e.mem # "none" /\ (e.mem = "freed" <=> NotNeeded(e))
    BY <2>2 DEF NotNeeded
  <2>4. x.kind # "websocket" /\ (q.waiting_for_response => ~x.responded)
    BY <1>7 DEF RequestKept, ToAnswer
  <2>5. e.state = "GOT_RESPONSE_WHILE_INVOKING" /\ (e.waiting_for_response => ~x.responded)
    BY <1>2, <1>7, <2>2, <2>4
  <2>6. RequestKept(e, x)
    BY <2>3, <2>4, <2>5 DEF RequestKept, ToAnswer
  <2>7. Between(v, r) /\ v.rreq[r] = e /\ v.xfer = u.xfer
    <3>1. /\ e.invoking_handler = u.rreq[r].invoking_handler
          /\ e.got_transfer_destroy = u.rreq[r].got_transfer_destroy
      BY <1>3, <2>2
    <3>2. QED BY <2>1, <2>2, <2>3, <3>1, StillBetween
  <2>8. QED BY <1>3, <2>6, <2>7, BetweenIsKept
<1>8. CASE q.state \notin {"INVOKING", "BLOCKED_ERROR", "BLOCKED_PASS",
                           "BLOCKED_INTERNAL_REDIRECT", "GOT_RESPONSE_WHILE_INVOKING"}
  <2>1. Survives(Fail(u, "should not get here"))
    BY <1>3 DEF Fail, IsWorld, Survives
  <2>2. v = Fail(u, "should not get here")
    BY <1>8 DEF Returns
  <2>3. QED BY <2>1, <2>2
<1>9. QED BY <1>4, <1>5, <1>6, <1>7, <1>8

(* A handler returns to invoke_handler. *)
LEMMA HandlerReturnsKeeps ==
  ASSUME WorldKept(World), fault = "none", HandlerReturns
  PROVE  Survives(World)'
<1> DEFINE w == World
           r == Last(w.stack).request
           q == w.rreq[r]
           u == WithRequest(WithStack(w, Front(w.stack)), r, Returned(q))
           v == Returns(u, r, q.state)
<1>1. w.stack # <<>> /\ w.fault = "none" /\ WorldKept(w)
  BY WorldIs DEF HandlerReturns
<1>2. Becomes(v)
  <2> DEFINE u0 == [w EXCEPT !.stack = Front(@), !.rreq[r].invoking_handler = FALSE]
             i0 == [u0 EXCEPT !.rreq[r].state = "INIT"]
             v0 == CASE q.state = "INVOKING" -> [u0 EXCEPT !.rreq[r].state = "WAITING"]
                     [] q.state = "BLOCKED_ERROR" -> SendError(u0, r)
                     [] q.state = "BLOCKED_PASS" -> PassOn(i0, r)
                     [] q.state = "BLOCKED_INTERNAL_REDIRECT" -> InvokeHandler(i0, r)
                     [] q.state = "GOT_RESPONSE_WHILE_INVOKING" ->
                          [u0 EXCEPT !.rreq[r] = MaybeFree(@)]
                     [] OTHER -> Fail(u0, "should not get here")
  <2>1. Becomes(v0)
    <3>1. w.stack = stack /\ w.rreq = rreq
      BY WorldIs
    <3>2. r = Last(stack).request /\ q.state = rreq[r].state
      BY <3>1
    <3> HIDE DEF r
    <3>3. QED BY <3>2 DEF HandlerReturns
  <2> HIDE DEF w, r
  <2>2. u0 = u
    <3> DEFINE t == WithStack(w, Front(w.stack))
    <3>1. u0 = WithRequest(t, r, Returned(t.rreq[r]))
      BY DEF WithRequest, WithStack, Returned
    <3>2. t.rreq = w.rreq
      BY <1>1 DEF WithStack, WorldKept, IsWorld
    <3>3. QED BY <3>1, <3>2
  <2> HIDE DEF u0, u
  <2>3. /\ i0 = WithRequest(u0, r, InState(u0.rreq[r], "INIT"))
        /\ [u0 EXCEPT !.rreq[r].state = "WAITING"] =
             WithRequest(u0, r, InState(u0.rreq[r], "WAITING"))
        /\ [u0 EXCEPT !.rreq[r] = MaybeFree(@)] = WithRequest(u0, r, MaybeFree(u0.rreq[r]))
    BY ONLY TRUE DEF WithRequest, InState
  <2> HIDE DEF i0
  <2>4. v0 = v
    BY <2>2, <2>3 DEF Returns
  <2> HIDE DEF v0, v
  <2>5. QED BY <2>1, <2>4
<1> HIDE DEF w
<1>3. r = Last(w.stack).request
  OBVIOUS
<1> HIDE DEF r
<1>4. /\ r \in Requests /\ Kept(w, r) /\ q.invoking_handler
      /\ IsRequest(q) /\ w.xfer[r] \in Transfers
  BY <1>1, <1>3, CallEnded
<1>5. Between(u, r) /\ u.rreq[r] = Returned(q) /\ u.xfer = w.xfer
  BY <1>1, <1>3, CallEnded
<1>6. RequestKept(q, w.xfer[r])
  BY <1>4 DEF Kept
<1> HIDE DEF u, q
<1>7. Survives(v)
  BY <1>4, <1>5, <1>6, ReturnsKeeps
<1> HIDE DEF v
<1>8. QED BY <1>2, <1>7, BecomesKept

(* A request that is handed out. *)
Handed(x) == [x EXCEPT !.returned = TRUE]
Live(q) == [q EXCEPT !.mem = "live"]

LEMMA HandedIs ==
  ASSUME NEW x \in Transfers
  PROVE  /\ Handed(x) \in Transfers /\ Handed(x).returned
         /\ Handed(x).mem = x.mem /\ Handed(x).kind = x.kind
         /\ Handed(x).responded = x.responded /\ Handed(x).failed = x.failed
<1> DEFINE y == Handed(x)
           b == TRUE
<1>1. y = [x EXCEPT !.returned = b]
  BY DEF Handed
<1>2. b \in BOOLEAN
  OBVIOUS
<1>3. b
  OBVIOUS
<1> HIDE DEF y, b
<1>4. /\ y \in Transfers /\ y.returned = b
      /\ y.mem = x.mem /\ y.kind = x.kind
      /\ y.responded = x.responded /\ y.failed = x.failed
  BY <1>1, <1>2 DEF Transfers
<1>5. QED BY <1>3, <1>4 DEF y

LEMMA LiveIs ==
  ASSUME NEW q, IsRequest(q)
  PROVE  /\ IsRequest(Live(q)) /\ Live(q).mem = "live" /\ Live(q).state = q.state
         /\ Live(q).waiting_for_response = q.waiting_for_response
         /\ Live(q).got_transfer_destroy = q.got_transfer_destroy
         /\ Live(q).invoking_handler = q.invoking_handler
<1> DEFINE d == Live(q)
           m == "live"
<1>1. d = [q EXCEPT !.mem = m]
  BY DEF Live
<1>2. m \in Memory
  BY DEF Memory
<1>3. m = "live"
  OBVIOUS
<1> HIDE DEF d, m
<1>4. /\ IsRequest(d) /\ d.mem = m
      /\ d.state = q.state /\ d.waiting_for_response = q.waiting_for_response
      /\ d.got_transfer_destroy = q.got_transfer_destroy
      /\ d.invoking_handler = q.invoking_handler
  BY <1>1, <1>2, WithMem
<1>5. QED BY <1>3, <1>4 DEF d

(* A request becomes live when its transfer is handed out. *)
LEMMA HandedOut ==
  ASSUME NEW w, WorldKept(w), w.fault = "none", ~w.freed, NEW r \in Requests, Queued(w, r),
         ~w.xfer[r].returned,
         NEW u, u = WithTransfer(w, r, Handed(w.xfer[r])),
         NEW v, v = WithRequest(u, r, Live(w.rreq[r]))
  PROVE  /\ Between(v, r) /\ IsRequest(v.rreq[r]) /\ v.rreq[r].mem = "live"
         /\ v.rreq[r].state = "INIT" /\ ~v.rreq[r].invoking_handler
         /\ ~v.rreq[r].waiting_for_response
         /\ ~v.rreq[r].got_transfer_destroy /\ ~v.xfer[r].responded
<1> DEFINE q == w.rreq[r]
           x == w.xfer[r]
           y == Handed(x)
           e == Live(q)
<1>1. /\ IsWorld(w) /\ IsRequest(q) /\ x \in Transfers /\ ~x.returned
      /\ RequestKept(q, x) /\ TransferKept(q, x, Queued(w, r))
      /\ q.invoking_handler <=> Calling(w, r)
  BY DEF WorldKept, IsWorld, Kept
<1>2. u = WithTransfer(w, r, y) /\ v = WithRequest(u, r, e)
  OBVIOUS
<1> HIDE DEF q, x
<1>3. /\ q.mem = "none" /\ ~x.responded /\ x.mem = "live" /\ ~x.failed
      /\ ~q.waiting_for_response /\ ~q.got_transfer_destroy
      /\ ~q.invoking_handler /\ q.state = "INIT"
  BY <1>1 DEF RequestKept, TransferKept
<1>4. /\ y \in Transfers /\ y.returned /\ y.mem = "live" /\ ~y.responded /\ ~y.failed
  BY <1>1, <1>3, HandedIs
<1>5. /\ IsRequest(e) /\ e.mem = "live" /\ e.state = "INIT"
      /\ ~e.got_transfer_destroy /\ ~e.invoking_handler /\ ~e.waiting_for_response
  BY <1>1, <1>3, LiveIs
<1> HIDE DEF y, e
<1>6. /\ IsWorld(u) /\ Unmoved(u, w) /\ OthersSame(u, w, r)
      /\ u.rreq = w.rreq /\ u.xfer[r] = y /\ u.queue = w.queue
  BY <1>1, <1>2, <1>4, WorldWithTransfer
<1>7. /\ IsWorld(v) /\ Unmoved(v, u) /\ OthersSame(v, u, r)
      /\ v.rreq[r] = e /\ v.xfer = u.xfer /\ v.queue = u.queue
  BY <1>2, <1>5, <1>6, WorldWithRequest
<1>8. Unmoved(v, w) /\ OthersSame(v, w, r) /\ v.queue = w.queue /\ v.xfer[r] = y
  BY <1>6, <1>7 DEF Unmoved, OthersSame
<1>9. \A s \in Requests: (Queued(v, s) <=> Queued(w, s)) /\ (Calling(v, s) <=> Calling(w, s))
  BY <1>8 DEF Queued, Calling, Unmoved
<1>10. RestKept(v, r)
  <2>1. RestKept(w, r)
    BY DEF WorldKept, RestKept
  <2>2. QED BY <1>8, <1>9, <2>1, OthersStayKept
<1>11. TransferKept(e, y, Queued(v, r))
  BY <1>4, <1>5, <1>9 DEF TransferKept
<1>12. v.fault = "none" /\ ~v.freed
  BY <1>8 DEF Unmoved
<1>13. e.invoking_handler <=> Calling(v, r)
  BY <1>1, <1>3, <1>5, <1>9
<1>14. Between(v, r)
  BY <1>5, <1>7, <1>8, <1>10, <1>11, <1>12, <1>13 DEF Between
<1>15. QED BY <1>4, <1>5, <1>7, <1>8, <1>14

(* handle_http_server_request_available *)
LEMMA HandleRequestAvailableKeeps ==
  ASSUME WorldKept(World), fault = "none", NEW r \in Requests, HandleRequestAvailable(r)
  PROVE  Survives(World)'
<1> DEFINE w == World
           t == WithTransfer(w, r, Handed(w.xfer[r]))
           u == WithRequest(t, r, Live(w.rreq[r]))
           f == FindFirst(u, r)
           v == IF Found(u, r) THEN InvokeHandler(f, r) ELSE NoHandlerFound(u, r)
<1>1. Becomes(v)
  <2> DEFINE u0 == [w EXCEPT !.xfer[r].returned = TRUE, !.rreq[r].mem = "live"]
  <2>1. Becomes(IF Found(u0, r) THEN InvokeHandler(FindFirst(u0, r), r)
                ELSE NoHandlerFound(u0, r))
    BY DEF HandleRequestAvailable
  <2>2. IsWorld(w)
    BY DEF WorldKept
  <2> HIDE DEF w
  <2>3. u0 = WithRequest(t, r, Live(t.rreq[r]))
    BY ONLY TRUE DEF WithRequest, WithTransfer, Handed, Live
  <2>4. t.rreq = w.rreq
    BY <2>2 DEF WithTransfer, IsWorld
  <2>5. u0 = u
    BY <2>3, <2>4
  <2> HIDE DEF u0, u
  <2>6. QED BY <2>1, <2>5
<1>2. /\ Queued(w, r) /\ ~w.xfer[r].returned /\ w.fault = "none" /\ ~w.freed
      /\ WorldKept(w)
  BY WorldIs DEF HandleRequestAvailable, Queued
<1> HIDE DEF w
<1>3. /\ Between(u, r) /\ IsRequest(u.rreq[r]) /\ u.rreq[r].mem = "live"
      /\ u.rreq[r].state = "INIT" /\ ~u.rreq[r].invoking_handler
      /\ ~u.rreq[r].waiting_for_response
      /\ ~u.rreq[r].got_transfer_destroy /\ ~u.xfer[r].responded
  BY <1>2, HandedOut
<1> HIDE DEF u
<1>4. CASE Found(u, r)
  <2>1. /\ Between(f, r) /\ SameRequest(f.rreq[r], u.rreq[r]) /\ f.xfer = u.xfer
    BY <1>3, FindFirstKeeps
  <2> HIDE DEF f
  <2>2. v = InvokeHandler(f, r)
    BY <1>4
  <2>3. /\ f.rreq[r].mem = "live" /\ ~f.xfer[r].responded /\ ~f.rreq[r].got_transfer_destroy
        /\ ~f.rreq[r].invoking_handler /\ ~f.rreq[r].waiting_for_response
        /\ f.rreq[r].state = "INIT"
    BY <1>3, <2>1 DEF SameRequest
  <2> HIDE DEF v
  <2>4. Survives(v)
    BY <2>1, <2>2, <2>3, InvokeHandlerKeeps
  <2>5. QED BY <1>1, <2>4, BecomesKept
<1>5. CASE ~Found(u, r)
  <2>1. v = NoHandlerFound(u, r)
    BY <1>5
  <2> HIDE DEF v
  <2>2. Survives(v)
    BY <1>3, <2>1, NoHandlerFoundKeeps
  <2>3. QED BY <1>1, <2>2, BecomesKept
<1>6. QED BY <1>4, <1>5

(* A transfer that arrives. *)
Arrived(x, kind) == [x EXCEPT !.mem = "live", !.kind = kind]
WithQueue(w, queue_) == [w EXCEPT !.queue = queue_]

(* What has arrived was neither handed out nor answered. *)
LEMMA ArrivedIs ==
  ASSUME NEW x \in Transfers, NEW kind \in {"get", "post", "websocket"}
  PROVE  /\ Arrived(x, kind) \in Transfers /\ Arrived(x, kind).mem = "live"
         /\ Arrived(x, kind).returned = x.returned
         /\ Arrived(x, kind).responded = x.responded /\ Arrived(x, kind).failed = x.failed
<1> DEFINE y == Arrived(x, kind)
           m == "live"
<1>1. y = [x EXCEPT !.mem = m, !.kind = kind]
  BY DEF Arrived
<1>2. m = "live"
  OBVIOUS
<1> HIDE DEF y, m
<1>3. /\ y \in Transfers /\ y.mem = m /\ y.returned = x.returned
      /\ y.responded = x.responded /\ y.failed = x.failed
  BY <1>1, <1>2 DEF Transfers, Memory
<1>4. QED BY <1>2, <1>3 DEF y

(* The queue of a world changes. *)
LEMMA WorldWithQueue ==
  ASSUME NEW w, IsWorld(w), NEW s \in Seq(Requests), Distinct(s), NEW v, v = WithQueue(w, s)
  PROVE  IsWorld(v) /\ Unmoved(v, w) /\ v.rreq = w.rreq /\ v.xfer = w.xfer /\ v.queue = s
<1>1. v = [rreq |-> w.rreq, xfer |-> w.xfer, queue |-> s, open |-> w.open,
           stack |-> w.stack, freed |-> w.freed, fault |-> w.fault, called |-> w.called]
  BY DEF IsWorld, WithQueue
<1>2. /\ v.rreq = w.rreq /\ v.xfer = w.xfer /\ v.queue = s /\ v.open = w.open
      /\ v.stack = w.stack /\ v.freed = w.freed /\ v.fault = w.fault /\ v.called = w.called
  BY <1>1
<1>3. IsWorld(v)
  BY <1>1, <1>2 DEF IsWorld
<1>4. QED BY <1>2, <1>3 DEF Unmoved

(* What Receive does, one field after the other. *)
LEMMA ReceivedInSteps ==
  ASSUME NEW w, IsWorld(w), NEW r \in Requests, NEW kind, NEW path
  PROVE  LET t == WithTransfer(w, r, Arrived(w.xfer[r], kind))
             u == WithRequest(t, r, AtPath(w.rreq[r], path))
         IN  [w EXCEPT !.xfer[r].mem = "live", !.xfer[r].kind = kind,
                       !.rreq[r].path = path, !.queue = Append(@, r)] =
               WithQueue(u, Append(w.queue, r))
<1> DEFINE v == [w EXCEPT !.xfer[r].mem = "live", !.xfer[r].kind = kind,
                          !.rreq[r].path = path, !.queue = Append(@, r)]
           t == WithTransfer(w, r, Arrived(w.xfer[r], kind))
<1>1. v = WithQueue(WithRequest(t, r, AtPath(t.rreq[r], path)), Append(w.queue, r))
  BY ZenonT(60) DEF WithTransfer, WithRequest, IsWorld, WithQueue, AtPath, Arrived
<1>2. t.rreq = w.rreq
  BY DEF WithTransfer, IsWorld
<1> HIDE DEF v, t
<1>3. v = WithQueue(WithRequest(t, r, AtPath(w.rreq[r], path)), Append(w.queue, r))
  BY <1>1, <1>2
<1>4. QED BY <1>3 DEF v, t

(* A request arrives behind the others. *)
LEMMA ReceiveKeeps ==
  ASSUME WorldKept(World), fault = "none", NEW r \in Requests, NEW kind \in Kinds,
         NEW path \in Paths, Receive(r, kind, path)
  PROVE  Survives(World)'
<1> DEFINE w == World
           x == w.xfer[r]
           q == w.rreq[r]
           y == Arrived(x, kind)
           e == AtPath(q, path)
           t == WithTransfer(w, r, y)
           u == WithRequest(t, r, e)
           line == Append(w.queue, r)
           v == WithQueue(u, line)
<1>1. Becomes(v)
  <2> DEFINE v0 == [w EXCEPT !.xfer[r].mem = "live", !.xfer[r].kind = kind,
                             !.rreq[r].path = path, !.queue = Append(@, r)]
  <2>1. Becomes(v0)
    BY DEF Receive
  <2>2. IsWorld(w)
    BY DEF WorldKept
  <2> HIDE DEF w
  <2>3. v0 = v
    BY <2>2, ReceivedInSteps
  <2> HIDE DEF v0, v
  <2>4. QED BY <2>1, <2>3
<1>2. w.fault = "none" /\ WorldKept(w) /\ w.xfer[r].mem = "none"
  <2>1. Received = 1..r - 1 /\ r \in Nat
    BY HttpServerAssumption DEF Receive, Requests
  <2>2. r \notin Received
    BY <2>1
  <2>3. QED BY <2>2, WorldIs DEF Received
<1> HIDE DEF w
<1>3. /\ IsWorld(w) /\ IsRequest(q) /\ x \in Transfers /\ x.mem = "none"
      /\ RequestKept(q, x) /\ TransferKept(q, x, Queued(w, r))
      /\ q.invoking_handler <=> Calling(w, r)
  BY <1>2 DEF WorldKept, IsWorld, Kept
<1> HIDE DEF q, x
<1>4. /\ q.mem = "none" /\ ~x.responded /\ ~x.failed /\ ~x.returned /\ ~Queued(w, r)
      /\ ~q.waiting_for_response /\ ~q.got_transfer_destroy
      /\ ~q.invoking_handler /\ q.state = "INIT"
  BY <1>3 DEF RequestKept, TransferKept
<1>5. /\ y \in Transfers /\ y.mem = "live" /\ ~y.responded /\ ~y.failed /\ ~y.returned
  <2>1. kind \in {"get", "post", "websocket"}
    BY HttpServerAssumption
  <2>2. QED BY <1>3, <1>4, <2>1, ArrivedIs
<1>6. /\ IsRequest(e) /\ e.mem = "none" /\ ~e.waiting_for_response
      /\ ~e.got_transfer_destroy /\ ~e.invoking_handler /\ e.state = "INIT"
  BY <1>3, <1>4, AtPathIs DEF SameRequest
<1> HIDE DEF y, e
<1>7. /\ IsWorld(t) /\ Unmoved(t, w) /\ OthersSame(t, w, r)
      /\ t.rreq = w.rreq /\ t.xfer[r] = y /\ t.queue = w.queue
  BY <1>3, <1>5, WorldWithTransfer
<1> HIDE DEF t
<1>8. /\ IsWorld(u) /\ Unmoved(u, t) /\ OthersSame(u, t, r)
      /\ u.rreq[r] = e /\ u.xfer = t.xfer /\ u.queue = t.queue
  BY <1>6, <1>7, WorldWithRequest
<1> HIDE DEF u
<1>9. /\ line \in Seq(Requests) /\ Distinct(line)
      /\ \A s \in Requests: (\E i \in DOMAIN line: line[i] = s) <=> Queued(w, s) \/ s = r
  <2> DEFINE l == w.queue
             n == Len(l)
  <2>1. l \in Seq(Requests) /\ Distinct(l) /\ line = Append(l, r)
        /\ \A i \in DOMAIN l: l[i] # r
    BY <1>3, <1>4 DEF IsWorld, Queued
  <2> HIDE DEF l, line
  <2>2. /\ n \in Nat /\ line \in Seq(Requests) /\ DOMAIN line = 1..(n + 1)
        /\ DOMAIN l = 1..n /\ line[n + 1] = r /\ \A i \in 1..n: line[i] = l[i]
    BY <2>1, AppendProperties
  <2> HIDE DEF n
  <2>3. ASSUME NEW i \in DOMAIN line, NEW j \in DOMAIN line, line[i] = line[j]
        PROVE  i = j
    <3>1. CASE i \in 1..n /\ j \in 1..n
      BY <2>1, <2>2, <2>3, <3>1 DEF Distinct
    <3>2. CASE i = n + 1 /\ j \in 1..n
      BY <2>1, <2>2, <2>3, <3>2
    <3>3. CASE i \in 1..n /\ j = n + 1
      BY <2>1, <2>2, <2>3, <3>3
    <3>4. QED BY <2>2, <3>1, <3>2, <3>3
  <2>4. Distinct(line)
    BY <2>3 DEF Distinct
  <2>5. ASSUME NEW s \in Requests
        PROVE  (\E i \in DOMAIN line: line[i] = s) <=> (\E i \in DOMAIN l: l[i] = s) \/ s = r
    <3>1. ASSUME NEW i \in DOMAIN line, line[i] = s
          PROVE  (\E j \in DOMAIN l: l[j] = s) \/ s = r
      <4>1. i \in 1..n \/ i = n + 1
        BY <2>2
      <4>2. QED BY <2>2, <3>1, <4>1
    <3>2. ASSUME NEW i \in DOMAIN l, l[i] = s
          PROVE  \E j \in DOMAIN line: line[j] = s
      <4>1. i \in DOMAIN line /\ line[i] = s
        BY <2>2, <3>2
      <4>2. QED BY <4>1
    <3>3. s = r => \E j \in DOMAIN line: line[j] = s
      <4>1. n + 1 \in DOMAIN line
        BY <2>2
      <4>2. QED BY <2>2, <4>1
    <3>4. QED BY <3>1, <3>2, <3>3
  <2>6. QED BY <2>2, <2>4, <2>5 DEF Queued, l
<1> HIDE DEF line
<1>10. /\ IsWorld(v) /\ Unmoved(v, u) /\ v.rreq = u.rreq /\ v.xfer = u.xfer /\ v.queue = line
  BY <1>8, <1>9, WorldWithQueue
<1> HIDE DEF v
<1>11. /\ Unmoved(v, w) /\ OthersSame(v, w, r) /\ v.rreq[r] = e /\ v.xfer[r] = y
  BY <1>7, <1>8, <1>10 DEF Unmoved, OthersSame
<1>12. \A s \in Requests: /\ Queued(v, s) <=> Queued(w, s) \/ s = r
                          /\ Calling(v, s) <=> Calling(w, s)
  BY <1>9, <1>10, <1>11 DEF Queued, Calling, Unmoved
<1>13. RestKept(v, r)
  <2>1. RestKept(w, r)
    BY <1>2 DEF WorldKept, RestKept
  <2>2. \A s \in Requests \ {r}: Queued(v, s) <=> Queued(w, s)
    BY <1>12
  <2>3. QED BY <1>11, <2>1, <2>2, OthersStayKept
<1>14. Kept(v, r)
  <2>1. RequestKept(e, y)
    BY <1>6 DEF RequestKept, ToAnswer
  <2>2. TransferKept(e, y, Queued(v, r))
    BY <1>5, <1>6 DEF TransferKept
  <2>3. e.invoking_handler <=> Calling(v, r)
    BY <1>3, <1>4, <1>6, <1>12
  <2>4. QED BY <1>11, <2>1, <2>2, <2>3 DEF Kept
<1>15. /\ v.freed => v.stack = <<>>
       /\ \A s \in Requests: v.freed => ~v.rreq[s].waiting_for_response
  BY <1>2, <1>6, <1>11 DEF WorldKept, Unmoved, OthersSame
<1>16. Survives(v)
  BY <1>2, <1>10, <1>11, <1>13, <1>14, <1>15 DEF WorldKept, RestKept, Survives, Unmoved
<1>17. QED BY <1>1, <1>16, BecomesKept

(* A transfer that is over. *)
Gone(x) == [x EXCEPT !.mem = "freed"]

(* The first response ends, and those behind it start. *)
LEMMA FinishTransferKeeps ==
  ASSUME WorldKept(World), fault = "none", FinishTransfer
  PROVE  Survives(World)'
<1> DEFINE w == World
           r == w.queue[1]
           x == w.xfer[r]
           q == w.rreq[r]
           y == Gone(x)
           e == TransferDestroyed(q)
           rest == Tail(w.queue)
           t == WithRequest(w, r, e)
           u == WithTransfer(t, r, y)
           s0 == WithQueue(u, rest)
           v == StartTransfers(s0)
<1>1. Becomes(v)
  <2> DEFINE v0 == [w EXCEPT !.queue = Tail(@), !.rreq[r] = TransferDestroyed(@),
                             !.xfer[r].mem = "freed"]
  <2>1. Becomes(StartTransfers(v0))
    <3>1. queue[1] = r
      BY WorldIs
    <3> HIDE DEF r
    <3>2. QED BY <3>1 DEF FinishTransfer
  <2>2. IsWorld(w)
    BY DEF WorldKept
  <2> HIDE DEF w, r
  <2>3. v0 = s0
    BY <2>2 DEF WithTransfer, WithRequest, IsWorld, WithQueue, Gone
  <2> HIDE DEF v0, s0
  <2>4. QED BY <2>1, <2>3
<1>2. /\ w.fault = "none" /\ WorldKept(w) /\ w.stack = <<>> /\ w.queue # <<>>
      /\ x.responded /\ x.content = "body"
  BY WorldIs DEF FinishTransfer, InLoop
<1> HIDE DEF w
<1>3. w.queue \in Seq(Requests) /\ Distinct(w.queue) /\ IsWorld(w)
  BY <1>2 DEF WorldKept, IsWorld
<1>4. r \in Requests /\ Queued(w, r)
  BY <1>2, <1>3 DEF Queued
<1>5. r = w.queue[1]
  OBVIOUS
<1> HIDE DEF r
<1>6. /\ IsRequest(q) /\ x \in Transfers
      /\ RequestKept(q, x) /\ TransferKept(q, x, Queued(w, r)) /\ ~q.invoking_handler
  <2>1. Kept(w, r) /\ ~Calling(w, r)
    BY <1>2, <1>4 DEF WorldKept, Calling
  <2>2. QED BY <1>3, <1>4, <2>1 DEF IsWorld, Kept
<1>7. x.responded
  BY <1>2
<1>8. y = Gone(x) /\ e = TransferDestroyed(q)
  OBVIOUS
<1> HIDE DEF q, x
<1>9. q.mem # "none" /\ x.returned
  BY <1>6, <1>7 DEF TransferKept
<1> HIDE DEF y, e
<1>10. y \in Transfers /\ y.responded = x.responded /\ y.kind = x.kind /\ y.content = x.content
  BY <1>6, <1>8 DEF Gone, Transfers, Memory
<1>11. RequestKept(e, y) /\ e.mem # "none" /\ e.invoking_handler = q.invoking_handler
  <2> DEFINE queued == Queued(w, r)
  <2>1. TransferKept(q, x, queued) /\ ~q.invoking_handler /\ IsRequest(q) /\ x \in Transfers
        /\ RequestKept(q, x)
    BY <1>6
  <2> HIDE DEF queued
  <2>2. QED BY ONLY <1>8, <1>9, <1>10, <2>1, DestroyedKept
<1>12. TransferKept(e, y, FALSE)
  <2>1. TransferKept(q, x, TRUE)
    BY <1>4, <1>6 DEF TransferKept
  <2>2. QED BY <1>6, <1>7, <1>8, <1>10, <1>11, <2>1, EndedTransferKept DEF Gone
<1>13. IsRequest(e)
  BY <1>6, <1>8, TransferDestroyedIs
<1>14. /\ IsWorld(t) /\ Unmoved(t, w) /\ OthersSame(t, w, r)
       /\ t.rreq[r] = e /\ t.xfer = w.xfer /\ t.queue = w.queue
  BY <1>3, <1>4, <1>13, WorldWithRequest
<1> HIDE DEF t
<1>15. /\ IsWorld(u) /\ Unmoved(u, t) /\ OthersSame(u, t, r)
       /\ u.rreq = t.rreq /\ u.xfer[r] = y /\ u.queue = t.queue
  BY <1>4, <1>10, <1>14, WorldWithTransfer
<1> HIDE DEF u
<1>16. /\ rest \in Seq(Requests) /\ Distinct(rest)
       /\ \A s \in Requests: (\E i \in DOMAIN rest: rest[i] = s) <=> Queued(w, s) /\ s # r
  <2> DEFINE l == w.queue
             n == Len(l)
             a == SubSeq(l, 1 + 1, Len(l))
  <2>1. l \in Seq(Requests) /\ Distinct(l) /\ 1 \in 0..Len(l) /\ l[1] = r /\ l # <<>>
    BY <1>2, <1>3, <1>5
  <2>2. rest = a
    BY <2>1 DEF rest
  <2> HIDE DEF l
  <2>3. /\ a \in Seq(Requests) /\ Distinct(a)
        /\ \A s \in Requests: (\E i \in DOMAIN a: a[i] = s) <=>
             (\E i \in DOMAIN l: l[i] = s) /\ ~\E i \in 1..1: l[i] = s
    BY <2>1, RestOfQueue
  <2> HIDE DEF a, rest
  <2>4. \A s \in Requests: (\E i \in 1..1: l[i] = s) <=> s = r
    BY <2>1
  <2>5. QED BY <2>2, <2>3, <2>4 DEF Queued, l
<1> HIDE DEF rest
<1>17. /\ IsWorld(s0) /\ Unmoved(s0, u) /\ s0.rreq = u.rreq /\ s0.xfer = u.xfer /\ s0.queue = rest
  BY <1>15, <1>16, WorldWithQueue
<1> HIDE DEF s0
<1>18. /\ Unmoved(s0, w) /\ OthersSame(s0, w, r) /\ s0.rreq[r] = e /\ s0.xfer[r] = y
  BY <1>14, <1>15, <1>17 DEF Unmoved, OthersSame
<1>19. \A s \in Requests: /\ Queued(s0, s) <=> Queued(w, s) /\ s # r
                          /\ Calling(s0, s) <=> Calling(w, s)
  BY <1>16, <1>17, <1>18 DEF Queued, Calling, Unmoved
<1>20. RestKept(s0, r)
  <2>1. RestKept(w, r)
    BY <1>2 DEF WorldKept, RestKept
  <2>2. \A s \in Requests \ {r}: Queued(s0, s) <=> Queued(w, s)
    BY <1>19
  <2>3. QED BY <1>4, <1>18, <2>1, <2>2, OthersStayKept
<1>21. Kept(s0, r)
  <2>1. ~Queued(s0, r) /\ ~Calling(s0, r)
    BY <1>2, <1>4, <1>19 DEF Calling
  <2>2. QED BY <1>6, <1>11, <1>12, <1>18, <2>1 DEF Kept, TransferKept
<1>22. \A s \in Requests: Kept(s0, s)
  BY <1>20, <1>21 DEF RestKept
<1>23. /\ IsWorld(v) /\ Unmoved(v, s0) /\ \A s \in Requests: StaysOrEnds(v, s0, s)
  BY <1>17, StartTransfersGives
<1> HIDE DEF v
<1>24. \A s \in Requests: Kept(v, s)
  BY <1>17, <1>22, <1>23, StartKeepsOne
<1>25. /\ v.stack = <<>>
       /\ \A s \in Requests: v.freed => ~v.rreq[s].waiting_for_response
  <2>1. v.stack = <<>> /\ v.freed = w.freed
    BY <1>2, <1>18, <1>23 DEF Unmoved
  <2>2. \A s \in Requests: w.freed => ~s0.rreq[s].waiting_for_response
    <3>1. \A s \in Requests: w.freed => ~w.rreq[s].waiting_for_response
      BY <1>2 DEF WorldKept
    <3>2. e.waiting_for_response = q.waiting_for_response /\ q = w.rreq[r]
      BY <1>6, <1>8, TransferDestroyedIs DEF q
    <3>3. QED BY <1>4, <1>18, <3>1, <3>2 DEF OthersSame
  <2>3. \A s \in Requests: v.rreq[s].waiting_for_response = s0.rreq[s].waiting_for_response
    <3>1. \A s \in Requests: IsRequest(s0.rreq[s])
      BY <1>17 DEF IsWorld
    <3>2. QED BY <1>23, <3>1, TransferDestroyedIs DEF StaysOrEnds
  <2>4. QED BY <2>1, <2>2, <2>3
<1>26. Survives(v)
  BY <1>2, <1>18, <1>23, <1>24, <1>25 DEF WorldKept, Survives, Unmoved
<1>27. QED BY <1>1, <1>26, BecomesKept

-----------------------------------------------------------------------------
(* The invariant holds, and what follows from it. *)

(* There are no requests to begin with. *)
LEMMA StartsKept == Init => WorldKept(World)
<1> SUFFICES ASSUME Init PROVE WorldKept(World)
  OBVIOUS
<1> DEFINE w == World
           q == NoRequest
           x == NoTransfer
<1>1. /\ w.rreq = [r \in Requests |-> q] /\ w.xfer = [r \in Requests |-> x]
      /\ w.queue = <<>> /\ w.stack = <<>> /\ w.freed = FALSE
  BY WorldIs DEF Init
<1>2. /\ IsRequest(q) /\ q.mem = "none" /\ ~q.waiting_for_response /\ ~q.got_transfer_destroy
      /\ ~q.invoking_handler /\ q.state = "INIT"
  BY DEF NoRequest, IsRequest, Memory
<1>3. /\ x \in Transfers /\ x.mem = "none" /\ ~x.returned /\ ~x.responded /\ ~x.failed
  BY DEF NoTransfer, Transfers, Memory
<1>4. w = [rreq |-> w.rreq, xfer |-> w.xfer, queue |-> w.queue, open |-> w.open,
           stack |-> w.stack, freed |-> w.freed, fault |-> w.fault, called |-> w.called]
  BY WorldIs DEF World
<1> HIDE DEF w, q, x
<1>5. IsWorld(w)
  <2>1. w.queue \in Seq(Requests) /\ Distinct(w.queue)
    BY <1>1 DEF Distinct
  <2>2. /\ w.stack \in Seq([request: Requests, calls: BOOLEAN])
        /\ \A i, j \in DOMAIN w.stack: w.stack[i].request = w.stack[j].request => i = j
    BY <1>1
  <2>3. /\ w.rreq = [r \in Requests |-> w.rreq[r]]
        /\ \A r \in Requests: IsRequest(w.rreq[r])
        /\ w.xfer \in [Requests -> Transfers]
    BY <1>1, <1>2, <1>3
  <2>4. w.freed \in BOOLEAN
    BY <1>1
  <2>5. QED BY <1>4, <2>1, <2>2, <2>3, <2>4 DEF IsWorld
<1>6. ASSUME NEW r \in Requests PROVE Kept(w, r)
  <2>1. ~Queued(w, r) /\ ~Calling(w, r)
    BY <1>1 DEF Queued, Calling
  <2>2. RequestKept(q, x) /\ TransferKept(q, x, Queued(w, r))
    BY <1>2, <1>3, <2>1 DEF RequestKept, ToAnswer, TransferKept
  <2>3. w.rreq[r] = q /\ w.xfer[r] = x
    BY <1>1
  <2>4. QED BY <1>2, <2>1, <2>2, <2>3 DEF Kept
<1>7. ~w.freed
  BY <1>1
<1>8. QED BY <1>5, <1>6, <1>7 DEF WorldKept, w

(* Nothing happens to the requests once C did not survive. *)
LEMMA OnlyWhenRunning ==
  ASSUME Next, fault # "none"
  PROVE  fault' = fault
<1>1. CASE Configure
  BY <1>1 DEF Configure, AddMatch, MatchSave, MatchRestore, Listen, RegisterHandler, requests
<1>2. CASE \E r \in Requests: \/ \E kind \in Kinds, path \in Paths: Receive(r, kind, path)
                              \/ HandleRequestAvailable(r)
  BY <1>2 DEF Receive, HandleRequestAvailable, InLoop, Running
<1>3. CASE \E r \in Requests: Answer(r)
  <2>1. PICK r \in Requests: Answer(r)
    BY <1>3
  <2>2. \A c: ~Respond(r, c) /\ ~RespondWebsocket(r, c) /\ ~InternalRedirect(r, c)
    BY DEF Respond, InternalRedirect, RespondWebsocket, HasToAnswer, InCallback, Running
  <2>3. ~RespondWithError(r) /\ ~Redirect(r) /\ ~Pass(r)
    BY DEF RespondWithError, Redirect, Pass, HasToAnswer, InCallback, Running
  <2>4. QED BY <2>1, <2>2, <2>3 DEF Answer
<1>4. CASE FinishTransfer \/ ClientGone \/ Finalize \/ HandlerReturns
  BY <1>4 DEF FinishTransfer, ClientGone, Finalize, HandlerReturns, InLoop, InCallback, Running
<1>5. QED BY <1>1, <1>2, <1>3, <1>4 DEF Next

(* Whatever a handler calls for its request. *)
LEMMA AnswerKeeps ==
  ASSUME WorldKept(World), Careful, fault = "none", NEW r \in Requests, Answer(r)
  PROVE  Survives(World)'
<1>1. ASSUME NEW content \in {"empty", "body"}, Respond(r, content) PROVE Survives(World)'
  BY <1>1, RespondKeeps
<1>2. CASE RespondWithError(r)
  BY <1>2, RespondWithErrorKeeps
<1>3. CASE Redirect(r)
  BY <1>3, RedirectKeeps
<1>4. CASE Pass(r)
  BY <1>4, PassKeeps
<1>5. ASSUME NEW path \in Paths, InternalRedirect(r, path) PROVE Survives(World)'
  BY <1>5, InternalRedirectKeeps
<1>6. ASSUME NEW valid \in BOOLEAN, RespondWebsocket(r, valid) PROVE Survives(World)'
  BY <1>6, RespondWebsocketKeeps
<1>7. QED BY <1>1, <1>2, <1>3, <1>4, <1>5, <1>6 DEF Answer

(* One step per action. *)
LEMMA StepKeeps ==
  ASSUME ServerInv, Careful, [Next]_vars
  PROVE  ServerInv'
<1> SUFFICES Survives(World)'
  BY DEF ServerInv
<1>1. CASE UNCHANGED vars
  <2>1. World' = World
    BY <1>1 DEF vars, World
  <2>2. QED BY <2>1 DEF ServerInv
<1>2. CASE Next /\ fault = "none"
  <2>1. fault = "none"
    BY <1>2
  <2>2. WorldKept(World)
    BY <2>1, WorldIs DEF ServerInv, Survives
  <2>3. CASE Configure
    BY <2>3, ConfigureKeeps DEF ServerInv
  <2>4. ASSUME NEW r \in Requests, NEW kind \in Kinds, NEW path \in Paths,
               Receive(r, kind, path)
        PROVE  Survives(World)'
    BY <2>1, <2>2, <2>4, ReceiveKeeps
  <2>5. ASSUME NEW r \in Requests, HandleRequestAvailable(r) PROVE Survives(World)'
    BY <2>1, <2>2, <2>5, HandleRequestAvailableKeeps
  <2>6. ASSUME NEW r \in Requests, Answer(r) PROVE Survives(World)'
    BY <2>1, <2>2, <2>6, AnswerKeeps
  <2>7. CASE FinishTransfer
    BY <2>1, <2>2, <2>7, FinishTransferKeeps
  <2>8. CASE ClientGone
    BY <2>1, <2>2, <2>8, ClientGoneKeeps
  <2>9. CASE Finalize
    BY <2>1, <2>2, <2>9, FinalizeKeeps
  <2>10. CASE HandlerReturns
    BY <2>1, <2>2, <2>10, HandlerReturnsKeeps
  <2>11. QED BY <1>2, <2>3, <2>4, <2>5, <2>6, <2>7, <2>8, <2>9, <2>10 DEF Next
<1>3. CASE Next /\ fault # "none"
  BY <1>3, OnlyWhenRunning, WorldIs DEF ServerInv, Survives, World
<1>4. QED BY <1>1, <1>2, <1>3

(* Handlers that avoid what the code does not survive keep the invariant. *)
THEOREM ServerInvHolds ==
  ASSUME Careful PROVE Spec => []ServerInv
<1>1. Init => ServerInv
  BY StartsKept, WorldIs DEF ServerInv, Survives, Init
<1>2. ServerInv /\ [Next]_vars => ServerInv'
  BY StepKeeps
<1>3. QED BY <1>1, <1>2, PTL DEF Spec

-----------------------------------------------------------------------------
(* The match tree.  The operators of DskHttpServer are restated for a tree *)
(* that is given. *)
Kids(tree, n) == tree[n].children
ParentIn(tree, n) == tree[n].parent
Registry(tree, n) == tree[n].handlers
Accepts(tree, n, path) == path \in tree[n].tester

Handlers == [type: HandlerTypes, id: Nat \X Nat]

(* The nodes are numbered from the top down; children and parents agree. *)
GoodMatches(tree) ==
  /\ Len(tree) \in Nat \ {0} /\ DOMAIN tree = 1..Len(tree)
  /\ ParentIn(tree, Top) = NoNode
  /\ \A n \in DOMAIN tree:
       /\ Kids(tree, n) \in Seq(DOMAIN tree) /\ Distinct(Kids(tree, n))
       /\ \A i \in DOMAIN Kids(tree, n): Kids(tree, n)[i] > n /\ ParentIn(tree, Kids(tree, n)[i]) = n
       /\ Registry(tree, n) \in Seq(Handlers)
       /\ n # Top => /\ ParentIn(tree, n) \in DOMAIN tree /\ ParentIn(tree, n) < n
                     /\ \E i \in DOMAIN Kids(tree, ParentIn(tree, n)): Kids(tree, ParentIn(tree, n))[i] = n

(* FirstMatch, NextMatch and TryOrder, and one step of each. *)
FirstStep(tree, path, f, n) ==
  LET children == Kids(tree, n)
      matching == {i \in DOMAIN children: f[children[i]] # NoNode}
  IN  IF ~Accepts(tree, n, path) THEN NoNode
      ELSE IF matching # {} THEN f[children[Min(matching)]]
      ELSE IF Registry(tree, n) # <<>> THEN n ELSE NoNode
FirstIn(tree, path) == LET f[n \in DOMAIN tree] == FirstStep(tree, path, f, n) IN f

LaterIn(tree, n) ==
  LET siblings == Kids(tree, ParentIn(tree, n))
      at == CHOOSE i \in DOMAIN siblings: siblings[i] = n
  IN  IF n = Top THEN <<>> ELSE SubSeq(siblings, at + 1, Len(siblings))
NextStep(tree, first, next, n) ==
  LET siblings == LaterIn(tree, n)
      matching == {i \in DOMAIN siblings: first[siblings[i]] # NoNode}
      parent == ParentIn(tree, n)
  IN  IF matching # {} THEN first[siblings[Min(matching)]]
      ELSE IF parent = NoNode THEN NoNode
      ELSE IF Registry(tree, parent) # <<>> THEN parent
      ELSE next[parent]
NextIn(tree, node, path) ==
  LET first == FirstIn(tree, path)
      next[n \in DOMAIN tree] == NextStep(tree, first, next, n)
  IN  next[node]

OrderStep(tree, path, order, n) ==
  IF ~Accepts(tree, n, path) THEN <<>>
  ELSE FlattenSeq([i \in DOMAIN Kids(tree, n) |-> order[Kids(tree, n)[i]]]) \o Registry(tree, n)
OrdersIn(tree, path) == LET order[n \in DOMAIN tree] == OrderStep(tree, path, order, n) IN order
OrderIn(tree, path) == OrdersIn(tree, path)[Top]
ToTryIn(order, kind) ==
  FlattenSeq([i \in DOMAIN order |->
                IF Suits(kind, order[i].type) THEN <<order[i].id>> ELSE <<>>])

LEMMA InTheTree ==
  /\ \A path: FirstMatch(path) = FirstIn(nodes, path)
  /\ \A node, path: NextMatch(node, path) = NextIn(nodes, node, path)
  /\ \A path: TryOrder(path) = OrderIn(nodes, path)
  /\ \A kind, path: ToTry(kind, path) = ToTryIn(OrderIn(nodes, path), kind)
<1>1. ASSUME NEW path PROVE FirstMatch(path) = FirstIn(nodes, path)
  BY DEF FirstMatch, FirstIn, FirstStep, Matches, Accepts, Kids, Registry
<1>2. ASSUME NEW node, NEW path PROVE NextMatch(node, path) = NextIn(nodes, node, path)
  BY DEF NextMatch, NextIn, NextStep, LaterSiblings, LaterIn, ParentIn, Kids, Registry,
     FirstMatch, FirstIn, FirstStep, Matches, Accepts
<1>3. ASSUME NEW path PROVE TryOrder(path) = OrderIn(nodes, path)
  BY DEF TryOrder, OrderIn, OrdersIn, OrderStep, Accepts, Kids, Registry
<1>4. ASSUME NEW kind, NEW path PROVE ToTry(kind, path) = ToTryIn(OrderIn(nodes, path), kind)
  BY <1>3 DEF ToTry, ToTryIn
<1>5. QED BY <1>1, <1>2, <1>3, <1>4

(* The numbers of the nodes count as depth. *)
LEMMA NodesAre ==
  ASSUME NEW tree, GoodMatches(tree), NEW n \in DOMAIN tree
  PROVE  /\ Len(tree) \in Nat /\ n \in Nat /\ n >= 1 /\ n <= Len(tree) /\ n # NoNode
         /\ Top \in DOMAIN tree
         /\ DOMAIN Kids(tree, n) = 1..Len(Kids(tree, n)) /\ Len(Kids(tree, n)) \in Nat
         /\ \A i \in DOMAIN Kids(tree, n): /\ Kids(tree, n)[i] \in DOMAIN tree
                                           /\ Kids(tree, n)[i] > n
                                           /\ ParentIn(tree, Kids(tree, n)[i]) = n
         /\ Registry(tree, n) \in Seq(Handlers)
<1>1. /\ Len(tree) \in Nat \ {0} /\ DOMAIN tree = 1..Len(tree)
      /\ Kids(tree, n) \in Seq(DOMAIN tree) /\ Registry(tree, n) \in Seq(Handlers)
      /\ \A i \in DOMAIN Kids(tree, n): Kids(tree, n)[i] > n /\ ParentIn(tree, Kids(tree, n)[i]) = n
  BY DEF GoodMatches
<1>2. \A i \in DOMAIN Kids(tree, n): Kids(tree, n)[i] \in DOMAIN tree
  BY <1>1, ElementOfSeq
<1>3. QED BY <1>1, <1>2 DEF Top, NoNode

(* Numbers counted from the last one. *)
FromLast(tree) == [n \in DOMAIN tree |-> Len(tree) - n]
(* Children come after their parents, so this falls on every way down. *)
LEMMA FromLastIs ==
  ASSUME NEW tree, GoodMatches(tree)
  PROVE  /\ FromLast(tree) \in [DOMAIN tree -> Nat]
         /\ Len(tree) \in Nat
         /\ \A n \in DOMAIN tree: FromLast(tree)[n] < Len(tree)
         /\ \A n \in DOMAIN tree: \A i \in DOMAIN Kids(tree, n):
              FromLast(tree)[Kids(tree, n)[i]] < FromLast(tree)[n]
<1>1. \A n \in DOMAIN tree: FromLast(tree)[n] = Len(tree) - n /\ Len(tree) \in Nat /\ n \in Nat /\ n >= 1 /\ n <= Len(tree)
  BY NodesAre DEF FromLast
<1>2. DOMAIN FromLast(tree) = DOMAIN tree /\ FromLast(tree) = [n \in DOMAIN tree |-> FromLast(tree)[n]]
  BY DEF FromLast
<1>3. \A n \in DOMAIN tree: FromLast(tree)[n] \in Nat /\ FromLast(tree)[n] < Len(tree)
  BY <1>1
<1>4. ASSUME NEW n \in DOMAIN tree, NEW i \in DOMAIN Kids(tree, n)
      PROVE  FromLast(tree)[Kids(tree, n)[i]] < FromLast(tree)[n]
  <2>1. PICK k: k = Kids(tree, n)[i] /\ k \in DOMAIN tree /\ k > n
    BY NodesAre
  <2>2. QED BY <1>1, <2>1
<1>5. Len(tree) \in Nat
  BY DEF GoodMatches
<1>6. QED BY <1>2, <1>3, <1>4, <1>5

-----------------------------------------------------------------------------
(* The first match. *)

IsFirst(tree, path, f) ==
  /\ f \in [DOMAIN tree -> 0..Len(tree)]
  /\ \A n \in DOMAIN tree: f[n] = FirstStep(tree, path, f, n)

(* A step looks at the children only. *)
LEMMA FirstStepIs ==
  ASSUME NEW tree, GoodMatches(tree), NEW path, NEW n \in DOMAIN tree, NEW f
  PROVE  /\ (\A i \in DOMAIN Kids(tree, n): f[Kids(tree, n)[i]] \in 0..Len(tree)) =>
              FirstStep(tree, path, f, n) \in 0..Len(tree)
         /\ \A g: (\A i \in DOMAIN Kids(tree, n): f[Kids(tree, n)[i]] = g[Kids(tree, n)[i]]) =>
              FirstStep(tree, path, f, n) = FirstStep(tree, path, g, n)
<1> DEFINE k == Kids(tree, n)
           M(g) == {i \in DOMAIN k: g[k[i]] # NoNode}
<1>1. DOMAIN k = 1..Len(k) /\ Len(k) \in Nat /\ n \in 0..Len(tree) /\ NoNode \in 0..Len(tree)
  BY NodesAre DEF NoNode
<1>2. \A g: M(g) # {} => Min(M(g)) \in DOMAIN k
  <2> TAKE g
  <2>1. M(g) \in SUBSET Nat /\ M(g) \in SUBSET DOMAIN k
    BY <1>1
  <2> HIDE DEF M
  <2>2. QED BY <2>1, MinIs
<1>3. \A g: FirstStep(tree, path, g, n) =
              IF ~Accepts(tree, n, path) THEN NoNode
              ELSE IF M(g) # {} THEN g[k[Min(M(g))]]
              ELSE IF Registry(tree, n) # <<>> THEN n ELSE NoNode
  BY DEF FirstStep
<1>4. ASSUME \A i \in DOMAIN k: f[k[i]] \in 0..Len(tree)
      PROVE  FirstStep(tree, path, f, n) \in 0..Len(tree)
  <2> HIDE DEF k, M
  <2>1. QED BY <1>1, <1>2, <1>3, <1>4
<1>5. ASSUME NEW g, \A i \in DOMAIN k: f[k[i]] = g[k[i]]
      PROVE  FirstStep(tree, path, f, n) = FirstStep(tree, path, g, n)
  <2>1. M(f) = M(g)
    BY <1>5
  <2> HIDE DEF k, M
  <2>2. QED BY <1>2, <1>3, <1>5, <2>1
<1>6. QED BY <1>4, <1>5

(* The recursion of find_first_match has a solution, and it is the *)
(* function. *)
LEMMA FirstIs ==
  ASSUME NEW tree, GoodMatches(tree), NEW path
  PROVE  IsFirst(tree, path, FirstIn(tree, path))
<1> DEFINE D == DOMAIN tree
           V == 0..Len(tree)
           r == FromLast(tree)
           E == [n \in D |-> [g \in [D -> V] |-> FirstStep(tree, path, g, n)]]
           R(g) == [n \in D |-> FirstStep(tree, path, g, n)]
<1>1. /\ r \in [D -> Nat] /\ Len(tree) \in Nat /\ \A n \in D: r[n] < Len(tree)
      /\ \A n \in D: \A i \in DOMAIN Kids(tree, n): r[Kids(tree, n)[i]] < r[n] /\ Kids(tree, n)[i] \in D
  BY FromLastIs, NodesAre
<1>2. NoNode \in V
  BY <1>1 DEF NoNode
<1>3. \A n \in D: \A g: (\A m \in D: r[m] < r[n] => g[m] \in V) => FirstStep(tree, path, g, n) \in V
  <2> TAKE n \in D
  <2> TAKE g
  <2> HAVE \A m \in D: r[m] < r[n] => g[m] \in V
  <2>1. \A i \in DOMAIN Kids(tree, n): g[Kids(tree, n)[i]] \in V
    BY <1>1
  <2>2. QED BY <2>1, FirstStepIs
<1>4. ASSUME NEW n \in D, NEW g, NEW h, \A m \in D: r[m] < r[n] => g[m] = h[m]
      PROVE  FirstStep(tree, path, g, n) = FirstStep(tree, path, h, n)
  <2>1. \A i \in DOMAIN Kids(tree, n): g[Kids(tree, n)[i]] = h[Kids(tree, n)[i]]
    BY <1>1, <1>4
  <2>2. QED BY <2>1, FirstStepIs
<1> HIDE DEF D, V, r
<1>5. \A n \in D: \A g \in [D -> V]: E[n][g] = FirstStep(tree, path, g, n) /\ E[n][g] \in V
  BY <1>3
<1>6. Recurs(D, V, r, E)
  <2>1. E \in [D -> [[D -> V] -> V]]
    BY <1>5
  <2> HIDE DEF E
  <2>2. \A n \in D: \A g, h \in [D -> V]: (\A m \in D: r[m] < r[n] => g[m] = h[m]) => E[n][g] = E[n][h]
    BY <1>4, <1>5
  <2>3. QED BY <1>1, <2>1, <2>2 DEF Recurs
<1>7. PICK w \in [D -> V]: \A n \in D: w[n] = E[n][w]
  <2> HIDE DEF E
  <2>1. QED BY <1>1, <1>2, <1>6, RecursionExists
<1>8. w = R(w)
  <2> HIDE DEF E
  <2>1. \A n \in D: w[n] = FirstStep(tree, path, w, n)
    BY <1>5, <1>7
  <2>2. QED BY <1>7, <2>1
<1>9. FirstIn(tree, path) = CHOOSE g: g = R(g)
  BY DEF FirstIn, D
<1>10. PICK f: f = FirstIn(tree, path) /\ f = R(f)
  <2> HIDE DEF R
  <2>1. QED BY <1>8, <1>9
<1>11. DOMAIN f = D /\ f = [n \in D |-> f[n]] /\ \A n \in D: f[n] = FirstStep(tree, path, f, n)
  <2>1. \A g: DOMAIN R(g) = D /\ R(g) = [n \in D |-> R(g)[n]] /\ \A n \in D: R(g)[n] = FirstStep(tree, path, g, n)
    OBVIOUS
  <2> HIDE DEF R
  <2>2. QED BY <1>10, <2>1
<1>12. \A n \in D: f[n] \in V
  <2> DEFINE T == {n \in D: f[n] \in V}
  <2>1. ASSUME NEW n \in D, \A m \in D: r[m] < r[n] => m \in T PROVE n \in T
    BY <1>3, <1>11, <2>1
  <2>2. \A n \in D: n \in T
    <3> HIDE DEF T
    <3>1. QED BY <1>1, <2>1, RankInduction
  <2>3. QED BY <2>2
<1>13. f \in [D -> V]
  BY <1>11, <1>12
<1>14. QED BY <1>10, <1>11, <1>13 DEF IsFirst, D, V

-----------------------------------------------------------------------------
(* The order in which handlers ought to be tried. *)

KidOrders(tree, o, n) == [i \in DOMAIN Kids(tree, n) |-> o[Kids(tree, n)[i]]]
IsOrder(tree, path, o) ==
  /\ o \in [DOMAIN tree -> Seq(Handlers)]
  /\ \A n \in DOMAIN tree: o[n] = OrderStep(tree, path, o, n)

(* The orders of the children are a sequence of sequences. *)
LEMMA KidOrdersIs ==
  ASSUME NEW tree, GoodMatches(tree), NEW n \in DOMAIN tree, NEW o,
         \A i \in DOMAIN Kids(tree, n): o[Kids(tree, n)[i]] \in Seq(Handlers)
  PROVE  KidOrders(tree, o, n) \in Seq(Seq(Handlers)) /\ Len(KidOrders(tree, o, n)) = Len(Kids(tree, n))
<1> DEFINE m == Len(Kids(tree, n))
           S == Seq(Handlers)
<1>1. m \in Nat /\ DOMAIN Kids(tree, n) = 1..m
  BY NodesAre
<1> HIDE DEF m, S
<1>2. \A i \in 1..m: o[Kids(tree, n)[i]] \in S
  BY <1>1 DEF S
<1>3. KidOrders(tree, o, n) = [i \in 1..m |-> o[Kids(tree, n)[i]]]
  BY <1>1 DEF KidOrders
<1>4. [i \in 1..m |-> o[Kids(tree, n)[i]]] \in Seq(S) /\ Len([i \in 1..m |-> o[Kids(tree, n)[i]]]) = m
  BY <1>1, <1>2
<1>5. QED BY <1>3, <1>4 DEF m, S

(* A step looks at the children only. *)
LEMMA OrderStepIs ==
  ASSUME NEW tree, GoodMatches(tree), NEW path, NEW n \in DOMAIN tree, NEW f
  PROVE  /\ (\A i \in DOMAIN Kids(tree, n): f[Kids(tree, n)[i]] \in Seq(Handlers)) =>
              OrderStep(tree, path, f, n) \in Seq(Handlers)
         /\ \A g: (\A i \in DOMAIN Kids(tree, n): f[Kids(tree, n)[i]] = g[Kids(tree, n)[i]]) =>
              OrderStep(tree, path, f, n) = OrderStep(tree, path, g, n)
<1>1. \A g: OrderStep(tree, path, g, n) =
              IF ~Accepts(tree, n, path) THEN <<>>
              ELSE FlattenSeq(KidOrders(tree, g, n)) \o Registry(tree, n)
  BY DEF OrderStep, KidOrders
<1>2. ASSUME \A i \in DOMAIN Kids(tree, n): f[Kids(tree, n)[i]] \in Seq(Handlers)
      PROVE  OrderStep(tree, path, f, n) \in Seq(Handlers)
  <2>1. KidOrders(tree, f, n) \in Seq(Seq(Handlers))
    BY <1>2, KidOrdersIs
  <2>2. PICK off: IsFlat(KidOrders(tree, f, n), FlattenSeq(KidOrders(tree, f, n)), off, Handlers)
    BY <2>1, FlatIs
  <2>3. PICK a, b: /\ a = FlattenSeq(KidOrders(tree, f, n)) /\ b = Registry(tree, n)
                   /\ a \in Seq(Handlers) /\ b \in Seq(Handlers)
    BY <2>2, NodesAre DEF IsFlat
  <2>4. a \o b \in Seq(Handlers) /\ <<>> \in Seq(Handlers)
    BY <2>3, ConcatIs
  <2>5. QED BY <1>1, <2>3, <2>4
<1>3. ASSUME NEW g, \A i \in DOMAIN Kids(tree, n): f[Kids(tree, n)[i]] = g[Kids(tree, n)[i]]
      PROVE  OrderStep(tree, path, f, n) = OrderStep(tree, path, g, n)
  <2>1. KidOrders(tree, f, n) = KidOrders(tree, g, n)
    BY <1>3 DEF KidOrders
  <2>2. QED BY <1>1, <2>1
<1>4. QED BY <1>2, <1>3

(* The recursion of the order has a solution, and it is the function. *)
LEMMA OrderIs ==
  ASSUME NEW tree, GoodMatches(tree), NEW path
  PROVE  IsOrder(tree, path, OrdersIn(tree, path))
<1> DEFINE D == DOMAIN tree
           V == Seq(Handlers)
           r == FromLast(tree)
           E == [n \in D |-> [g \in [D -> V] |-> OrderStep(tree, path, g, n)]]
           R(g) == [n \in D |-> OrderStep(tree, path, g, n)]
<1>1. /\ r \in [D -> Nat] /\ Len(tree) \in Nat /\ \A n \in D: r[n] < Len(tree)
      /\ \A n \in D: \A i \in DOMAIN Kids(tree, n): r[Kids(tree, n)[i]] < r[n] /\ Kids(tree, n)[i] \in D
  BY FromLastIs, NodesAre
<1>2. <<>> \in V
  OBVIOUS
<1>3. \A n \in D: \A g: (\A m \in D: r[m] < r[n] => g[m] \in V) => OrderStep(tree, path, g, n) \in V
  <2> TAKE n \in D
  <2> TAKE g
  <2> HAVE \A m \in D: r[m] < r[n] => g[m] \in V
  <2>1. \A i \in DOMAIN Kids(tree, n): g[Kids(tree, n)[i]] \in V
    BY <1>1
  <2>2. QED BY <2>1, OrderStepIs
<1>4. ASSUME NEW n \in D, NEW g, NEW h, \A m \in D: r[m] < r[n] => g[m] = h[m]
      PROVE  OrderStep(tree, path, g, n) = OrderStep(tree, path, h, n)
  <2>1. \A i \in DOMAIN Kids(tree, n): g[Kids(tree, n)[i]] = h[Kids(tree, n)[i]]
    BY <1>1, <1>4
  <2>2. QED BY <2>1, OrderStepIs
<1> HIDE DEF D, V, r
<1>5. \A n \in D: \A g \in [D -> V]: E[n][g] = OrderStep(tree, path, g, n) /\ E[n][g] \in V
  BY <1>3
<1>6. Recurs(D, V, r, E)
  <2>1. E \in [D -> [[D -> V] -> V]]
    BY <1>5
  <2> HIDE DEF E
  <2>2. \A n \in D: \A g, h \in [D -> V]: (\A m \in D: r[m] < r[n] => g[m] = h[m]) => E[n][g] = E[n][h]
    BY <1>4, <1>5
  <2>3. QED BY <1>1, <2>1, <2>2 DEF Recurs
<1>7. PICK w \in [D -> V]: \A n \in D: w[n] = E[n][w]
  <2> HIDE DEF E
  <2>1. QED BY <1>1, <1>2, <1>6, RecursionExists
<1>8. w = R(w)
  <2> HIDE DEF E
  <2>1. \A n \in D: w[n] = OrderStep(tree, path, w, n)
    BY <1>5, <1>7
  <2>2. QED BY <1>7, <2>1
<1>9. OrdersIn(tree, path) = CHOOSE g: g = R(g)
  BY DEF OrdersIn, D
<1>10. PICK f: f = OrdersIn(tree, path) /\ f = R(f)
  <2> HIDE DEF R
  <2>1. QED BY <1>8, <1>9
<1>11. DOMAIN f = D /\ f = [n \in D |-> f[n]] /\ \A n \in D: f[n] = OrderStep(tree, path, f, n)
  <2>1. \A g: DOMAIN R(g) = D /\ R(g) = [n \in D |-> R(g)[n]] /\ \A n \in D: R(g)[n] = OrderStep(tree, path, g, n)
    OBVIOUS
  <2> HIDE DEF R
  <2>2. QED BY <1>10, <2>1
<1>12. \A n \in D: f[n] \in V
  <2> DEFINE T == {n \in D: f[n] \in V}
  <2>1. ASSUME NEW n \in D, \A m \in D: r[m] < r[n] => m \in T PROVE n \in T
    BY <1>3, <1>11, <2>1
  <2>2. \A n \in D: n \in T
    <3> HIDE DEF T
    <3>1. QED BY <1>1, <2>1, RankInduction
  <2>3. QED BY <2>2
<1>13. f \in [D -> V]
  BY <1>11, <1>12
<1>14. QED BY <1>10, <1>11, <1>13 DEF IsOrder, D, V

-----------------------------------------------------------------------------
(* The next match. *)

(* What find_next_match computes for all nodes. *)
IsNext(tree, first, next) ==
  /\ next \in [DOMAIN tree -> 0..Len(tree)]
  /\ \A n \in DOMAIN tree: next[n] = NextStep(tree, first, next, n)

(* n is child number at of p, and the later siblings are the rest. *)
Sibling(tree, n, p, at) ==
  /\ p \in DOMAIN tree /\ at \in DOMAIN Kids(tree, p)
  /\ p = ParentIn(tree, n) /\ p < n /\ p # NoNode /\ Kids(tree, p)[at] = n
  /\ Len(LaterIn(tree, n)) = Len(Kids(tree, p)) - at
  /\ DOMAIN LaterIn(tree, n) = 1..(Len(Kids(tree, p)) - at)
  /\ \A i \in 1..(Len(Kids(tree, p)) - at): LaterIn(tree, n)[i] = Kids(tree, p)[at + i]

(* Every node but the top is somewhere among its siblings. *)
LEMMA LaterIs ==
  ASSUME NEW tree, GoodMatches(tree), NEW n \in DOMAIN tree, n # Top
  PROVE  \E p, at: Sibling(tree, n, p, at)
<1>1. PICK p \in DOMAIN tree: p = ParentIn(tree, n) /\ p < n /\ \E i \in DOMAIN Kids(tree, p): Kids(tree, p)[i] = n
  BY DEF GoodMatches
<1>2. p # NoNode /\ Kids(tree, p) \in Seq(DOMAIN tree)
  BY NodesAre DEF GoodMatches
<1>3. PICK at \in DOMAIN Kids(tree, p): at = (CHOOSE i \in DOMAIN Kids(tree, p): Kids(tree, p)[i] = n) /\ Kids(tree, p)[at] = n
  BY <1>1
<1>4. LaterIn(tree, n) = SubSeq(Kids(tree, p), at + 1, Len(Kids(tree, p)))
  BY <1>1, <1>3 DEF LaterIn
<1>5. PICK k: k = Kids(tree, p) /\ k \in Seq(DOMAIN tree)
  BY <1>2
<1>6. at \in 1..Len(k) /\ Len(k) \in Nat
  BY <1>3, <1>5
<1>7. /\ Len(SubSeq(k, at + 1, Len(k))) = Len(k) - at
      /\ DOMAIN SubSeq(k, at + 1, Len(k)) = 1..(Len(k) - at)
      /\ \A i \in 1..(Len(k) - at): SubSeq(k, at + 1, Len(k))[i] = k[at + i]
  BY <1>5, <1>6
<1>9. /\ Len(LaterIn(tree, n)) = Len(Kids(tree, p)) - at
      /\ DOMAIN LaterIn(tree, n) = 1..(Len(Kids(tree, p)) - at)
      /\ \A i \in 1..(Len(Kids(tree, p)) - at): LaterIn(tree, n)[i] = Kids(tree, p)[at + i]
  BY ONLY <1>4, <1>5, <1>7
<1>8. Sibling(tree, n, p, at)
  BY <1>1, <1>2, <1>3, <1>9 DEF Sibling
<1>10. QED BY <1>8

(* A step upwards looks at the parent only. *)
LEMMA NextStepIs ==
  ASSUME NEW tree, GoodMatches(tree), NEW first \in [DOMAIN tree -> 0..Len(tree)],
         NEW n \in DOMAIN tree, NEW f
  PROVE  /\ (n # Top => f[ParentIn(tree, n)] \in 0..Len(tree)) => NextStep(tree, first, f, n) \in 0..Len(tree)
         /\ \A g: (n # Top => f[ParentIn(tree, n)] = g[ParentIn(tree, n)]) =>
              NextStep(tree, first, f, n) = NextStep(tree, first, g, n)
<1> DEFINE later == LaterIn(tree, n)
           M == {i \in DOMAIN later: first[later[i]] # NoNode}
           p == ParentIn(tree, n)
<1>1. \A g: NextStep(tree, first, g, n) =
              IF M # {} THEN first[later[Min(M)]]
              ELSE IF p = NoNode THEN NoNode
              ELSE IF Registry(tree, p) # <<>> THEN p
              ELSE g[p]
  BY DEF NextStep
<1>2. CASE n = Top
  <2>1. DOMAIN later = {} /\ p = NoNode
    BY <1>2 DEF LaterIn, GoodMatches
  <2>2. M = {}
    BY <2>1
  <2>3. NoNode \in 0..Len(tree)
    BY NodesAre DEF NoNode
  <2> HIDE DEF M, later, p
  <2>4. QED BY <1>1, <2>1, <2>2, <2>3
<1>3. CASE n # Top
  <2>1. PICK q, at: Sibling(tree, n, q, at)
    BY <1>3, LaterIs
  <2>2. /\ q \in DOMAIN tree /\ at \in DOMAIN Kids(tree, q) /\ q = p /\ q # NoNode
    BY <2>1 DEF Sibling
  <2>11. PICK len: len = Len(Kids(tree, q))
    OBVIOUS
  <2>12. DOMAIN later = 1..(len - at) /\ \A i \in 1..(len - at): later[i] = Kids(tree, q)[at + i]
    BY <2>1, <2>11 DEF Sibling
  <2>3. /\ DOMAIN Kids(tree, q) = 1..len /\ len \in Nat
        /\ \A i \in 1..len: Kids(tree, q)[i] \in DOMAIN tree
    BY SMTT(30), <2>2, <2>11, NodesAre
  <2>4. \A i \in DOMAIN later: later[i] \in DOMAIN tree
    <3> SUFFICES ASSUME NEW i \in 1..(len - at) PROVE Kids(tree, q)[at + i] \in DOMAIN tree
      BY <2>12
    <3>0. at \in 1..len /\ len \in Nat
      BY <2>2, <2>3
    <3>1. at + i \in 1..len
      BY ONLY <3>0
    <3>2. QED BY <2>3, <3>1
  <2>5. M # {} => Min(M) \in DOMAIN later
    <3>1. M \in SUBSET Nat /\ M \in SUBSET DOMAIN later
      BY <2>12
    <3> HIDE DEF M
    <3>2. QED BY <3>1, MinIs
  <2>6. p \in 0..Len(tree) /\ p # NoNode
    BY <2>2, NodesAre
  <2> HIDE DEF M, later, p
  <2>7. M # {} => first[later[Min(M)]] \in 0..Len(tree)
    BY <2>4, <2>5
  <2>8. ASSUME f[p] \in 0..Len(tree) PROVE NextStep(tree, first, f, n) \in 0..Len(tree)
    BY <1>1, <2>6, <2>7, <2>8
  <2>9. ASSUME NEW g, f[p] = g[p] PROVE NextStep(tree, first, f, n) = NextStep(tree, first, g, n)
    BY <1>1, <2>9
  <2>10. QED BY <1>3, <2>8, <2>9 DEF p
<1>4. QED BY <1>2, <1>3

(* Numbers as they are. *)
Itself(tree) == [n \in DOMAIN tree |-> n]
(* Parents come before their children, so this falls on every way up. *)
LEMMA ItselfIs ==
  ASSUME NEW tree, GoodMatches(tree)
  PROVE  /\ Itself(tree) \in [DOMAIN tree -> Nat]
         /\ Len(tree) + 1 \in Nat
         /\ \A n \in DOMAIN tree: Itself(tree)[n] = n /\ Itself(tree)[n] < Len(tree) + 1
         /\ \A n \in DOMAIN tree: n # Top => /\ ParentIn(tree, n) \in DOMAIN tree
                                             /\ Itself(tree)[ParentIn(tree, n)] < Itself(tree)[n]
<1>1. \A n \in DOMAIN tree: n \in Nat /\ n <= Len(tree) /\ Len(tree) \in Nat
  BY NodesAre
<1>2. Len(tree) \in Nat /\ \A n \in DOMAIN tree: n # Top => ParentIn(tree, n) \in DOMAIN tree /\ ParentIn(tree, n) < n
  BY DEF GoodMatches
<1>3. Itself(tree) \in [DOMAIN tree -> Nat] /\ \A n \in DOMAIN tree: Itself(tree)[n] = n
  BY <1>1 DEF Itself
<1>4. QED BY <1>1, <1>2, <1>3

(* The recursion of find_next_match has a solution, and it is the *)
(* function. *)
LEMMA NextIs ==
  ASSUME NEW tree, GoodMatches(tree), NEW path
  PROVE  \E next: /\ IsNext(tree, FirstIn(tree, path), next)
                  /\ \A n: NextIn(tree, n, path) = next[n]
<1> DEFINE D == DOMAIN tree
           V == 0..Len(tree)
           r == Itself(tree)
           first == FirstIn(tree, path)
           E == [n \in D |-> [g \in [D -> V] |-> NextStep(tree, first, g, n)]]
           R(g) == [n \in D |-> NextStep(tree, first, g, n)]
<1>1. /\ r \in [D -> Nat] /\ Len(tree) + 1 \in Nat /\ \A n \in D: r[n] < Len(tree) + 1
      /\ \A n \in D: n # Top => r[ParentIn(tree, n)] < r[n] /\ ParentIn(tree, n) \in D
  BY ItselfIs
<1>0. first \in [D -> V]
  BY FirstIs DEF IsFirst
<1>2. NoNode \in V
  BY FromLastIs DEF NoNode
<1> HIDE DEF first
<1>3. \A n \in D: \A g: (\A m \in D: r[m] < r[n] => g[m] \in V) => NextStep(tree, first, g, n) \in V
  <2> TAKE n \in D
  <2> TAKE g
  <2> HAVE \A m \in D: r[m] < r[n] => g[m] \in V
  <2>1. n # Top => g[ParentIn(tree, n)] \in V
    BY <1>1
  <2>2. QED BY <1>0, <2>1, NextStepIs
<1>4. ASSUME NEW n \in D, NEW g, NEW h, \A m \in D: r[m] < r[n] => g[m] = h[m]
      PROVE  NextStep(tree, first, g, n) = NextStep(tree, first, h, n)
  <2>1. n # Top => g[ParentIn(tree, n)] = h[ParentIn(tree, n)]
    BY <1>1, <1>4
  <2>2. QED BY <1>0, <2>1, NextStepIs
<1> HIDE DEF D, V, r
<1>5. \A n \in D: \A g \in [D -> V]: E[n][g] = NextStep(tree, first, g, n) /\ E[n][g] \in V
  BY <1>3
<1>6. Recurs(D, V, r, E)
  <2>1. E \in [D -> [[D -> V] -> V]]
    BY <1>5
  <2> HIDE DEF E
  <2>2. \A n \in D: \A g, h \in [D -> V]: (\A m \in D: r[m] < r[n] => g[m] = h[m]) => E[n][g] = E[n][h]
    BY <1>4, <1>5
  <2>3. QED BY <1>1, <2>1, <2>2 DEF Recurs
<1>7. PICK w \in [D -> V]: \A n \in D: w[n] = E[n][w]
  <2> HIDE DEF E
  <2>1. QED BY <1>1, <1>2, <1>6, RecursionExists
<1>8. w = R(w)
  <2> HIDE DEF E
  <2>1. \A n \in D: w[n] = NextStep(tree, first, w, n)
    BY <1>5, <1>7
  <2>2. QED BY <1>7, <2>1
<1>9. \A n: NextIn(tree, n, path) = (CHOOSE g: g = R(g))[n]
  BY DEF NextIn, first, D
<1>10. PICK f: f = (CHOOSE g: g = R(g)) /\ f = R(f)
  <2> HIDE DEF R
  <2>1. QED BY <1>8
<1>11. DOMAIN f = D /\ f = [n \in D |-> f[n]] /\ \A n \in D: f[n] = NextStep(tree, first, f, n)
  <2>1. \A g: DOMAIN R(g) = D /\ R(g) = [n \in D |-> R(g)[n]] /\ \A n \in D: R(g)[n] = NextStep(tree, first, g, n)
    OBVIOUS
  <2> HIDE DEF R
  <2>2. QED BY <1>10, <2>1
<1>12. \A n \in D: f[n] \in V
  <2> DEFINE T == {n \in D: f[n] \in V}
  <2>1. ASSUME NEW n \in D, \A m \in D: r[m] < r[n] => m \in T PROVE n \in T
    BY <1>3, <1>11, <2>1
  <2>2. \A n \in D: n \in T
    <3> HIDE DEF T
    <3>1. QED BY <1>1, <2>1, RankInduction
  <2>3. QED BY <2>2
<1>13. f \in [D -> V]
  BY <1>11, <1>12
<1>14. QED BY <1>9, <1>10, <1>11, <1>13 DEF IsNext, D, V, first

-----------------------------------------------------------------------------
(* Nodes that a request comes to. *)

(* Those that match with every node above. *)
Closed(tree, path, X) ==
  \A n \in X: Accepts(tree, n, path) /\ (n # Top => ParentIn(tree, n) \in X)
On(tree, path) == UNION {X \in SUBSET DOMAIN tree: Closed(tree, path, X)}

(* The nodes on the way: accepted, as are all those above them. *)
LEMMA OnIs ==
  ASSUME NEW tree, GoodMatches(tree), NEW path
  PROVE  /\ On(tree, path) \in SUBSET DOMAIN tree
         /\ Closed(tree, path, On(tree, path))
         /\ \A n \in DOMAIN tree: Accepts(tree, n, path) /\ (n = Top \/ ParentIn(tree, n) \in On(tree, path))
              => n \in On(tree, path)
<1>1. On(tree, path) \in SUBSET DOMAIN tree
  BY DEF On
<1>2. Closed(tree, path, On(tree, path))
  BY DEF On, Closed
<1>3. ASSUME NEW n \in DOMAIN tree, Accepts(tree, n, path), n = Top \/ ParentIn(tree, n) \in On(tree, path)
      PROVE  n \in On(tree, path)
  <2>1. Closed(tree, path, On(tree, path) \cup {n}) /\ On(tree, path) \cup {n} \in SUBSET DOMAIN tree
    BY <1>1, <1>2, <1>3 DEF Closed
  <2>2. QED BY <2>1 DEF On
<1>4. QED BY <1>1, <1>2, <1>3

-----------------------------------------------------------------------------
(* Where in the order the handlers below each node are. *)

(* In the order below p, that of child i follows off[i - 1] others, and p's *)
(* own handlers come last. *)
Parts(tree, o, p, off) ==
  LET k == Kids(tree, p)
      own == Registry(tree, p)
  IN  /\ off \in [0..Len(k) -> Nat] /\ off[0] = 0
      /\ \A i \in 1..Len(k): off[i] = off[i - 1] + Len(o[k[i]]) /\ off[i] <= off[Len(k)]
      /\ Len(o[p]) = off[Len(k)] + Len(own)
      /\ \A i \in 1..Len(k): \A j \in 1..Len(o[k[i]]): o[p][off[i - 1] + j] = o[k[i]][j]
      /\ \A j \in 1..Len(own): o[p][off[Len(k)] + j] = own[j]

OffsetsIn(tree, o, p) ==
  CHOOSE off: IsFlat(KidOrders(tree, o, p), FlattenSeq(KidOrders(tree, o, p)), off, Handlers)

(* Where the orders of the children begin in the order of p. *)
LEMMA OffsetsAre ==
  ASSUME NEW tree, GoodMatches(tree), NEW path, NEW o, IsOrder(tree, path, o), NEW p \in DOMAIN tree
  PROVE  /\ OffsetsIn(tree, o, p) \in [0..Len(Kids(tree, p)) -> Nat]
         /\ Accepts(tree, p, path) => Parts(tree, o, p, OffsetsIn(tree, o, p))
<1> DEFINE k == Kids(tree, p)
           own == Registry(tree, p)
           ko == KidOrders(tree, o, p)
           off == OffsetsIn(tree, o, p)
           len == Len(k)
<1>1. /\ DOMAIN k = 1..len /\ len \in Nat /\ own \in Seq(Handlers)
      /\ \A i \in DOMAIN k: k[i] \in DOMAIN tree
  BY NodesAre
<1>2. \A i \in DOMAIN k: o[k[i]] \in Seq(Handlers) /\ ko[i] = o[k[i]]
  BY <1>1 DEF IsOrder, KidOrders
<1>3. ko \in Seq(Seq(Handlers)) /\ Len(ko) = len
  BY <1>2, KidOrdersIs
<1>4. IsFlat(ko, FlattenSeq(ko), off, Handlers)
  BY <1>3, FlatIs DEF OffsetsIn
<1>5. Accepts(tree, p, path) => o[p] = FlattenSeq(ko) \o own
  BY DEF IsOrder, OrderStep, KidOrders
<1> HIDE DEF k, own, ko, off, len
<1>6. PICK t: t = FlattenSeq(ko)
  OBVIOUS
<1>7. /\ t \in Seq(Handlers) /\ off \in [0..len -> Nat] /\ off[0] = 0 /\ Len(t) = off[len]
      /\ \A i \in 1..len: off[i] = off[i - 1] + Len(ko[i]) /\ off[i] <= Len(t)
      /\ \A i \in 1..len: \A j \in 1..Len(ko[i]): t[off[i - 1] + j] = ko[i][j]
  BY <1>3, <1>4, <1>6 DEF IsFlat
<1>8. ASSUME Accepts(tree, p, path) PROVE Parts(tree, o, p, off)
  <2>1. PICK c: c = o[p] /\ Concats(c, t, own)
    BY <1>1, <1>5, <1>6, <1>7, <1>8, ConcatIs
  <2>2. /\ Len(c) = off[len] + Len(own)
        /\ \A j \in 1..Len(t): c[j] = t[j]
        /\ \A j \in 1..Len(own): c[off[len] + j] = own[j]
    BY <1>7, <2>1 DEF Concats
  <2>3. \A i \in 1..len: ko[i] = o[k[i]] /\ Len(ko[i]) \in Nat
    BY <1>1, <1>2
  <2>4. ASSUME NEW i \in 1..len, NEW j \in 1..Len(ko[i]) PROVE c[off[i - 1] + j] = ko[i][j]
    <3>1. PICK a, b, y, z: a = off[i - 1] /\ b = off[i] /\ y = Len(ko[i]) /\ z = Len(t)
      OBVIOUS
    <3>2. i - 1 \in 0..len /\ i \in 0..len /\ len \in 0..len
      BY <1>1
    <3>3. a \in Nat /\ y \in Nat /\ b = a + y /\ z \in Nat /\ b <= z /\ j \in 1..y
      BY <1>1, <1>7, <2>3, <3>1, <3>2
    <3>4. a + j \in 1..z
      BY ONLY <3>3, InSum
    <3>5. QED BY <1>7, <2>2, <3>1, <3>4
  <2>5. /\ \A i \in 1..len: off[i] = off[i - 1] + Len(o[k[i]]) /\ off[i] <= off[len]
        /\ \A i \in 1..len: \A j \in 1..Len(o[k[i]]): c[off[i - 1] + j] = o[k[i]][j]
    BY <1>7, <2>3, <2>4
  <2>6. QED BY <1>7, <2>1, <2>2, <2>5 DEF Parts, k, own, len
<1>9. QED BY <1>7, <1>8 DEF off, len, k

(* Where the order below a node begins in the order of the whole tree. *)
IndexIn(tree, n) == CHOOSE i \in DOMAIN Kids(tree, ParentIn(tree, n)): Kids(tree, ParentIn(tree, n))[i] = n
BeforeIn(tree, o, n) == OffsetsIn(tree, o, ParentIn(tree, n))[IndexIn(tree, n) - 1]
IsPlaced(tree, o, pos) ==
  /\ pos \in [DOMAIN tree -> Nat] /\ pos[Top] = 0
  /\ \A n \in DOMAIN tree: n # Top => pos[n] = pos[ParentIn(tree, n)] + BeforeIn(tree, o, n)
Places(tree, o) == CHOOSE pos: IsPlaced(tree, o, pos)

(* What comes before a node below its parent. *)
LEMMA BeforeIs ==
  ASSUME NEW tree, GoodMatches(tree), NEW path, NEW o, IsOrder(tree, path, o), NEW n \in DOMAIN tree, n # Top,
         NEW p, p = ParentIn(tree, n)
  PROVE  /\ IndexIn(tree, n) \in 1..Len(Kids(tree, p)) /\ Kids(tree, p)[IndexIn(tree, n)] = n
         /\ p \in DOMAIN tree /\ BeforeIn(tree, o, n) \in Nat
<1>1. p \in DOMAIN tree /\ \E i \in DOMAIN Kids(tree, p): Kids(tree, p)[i] = n
  BY DEF GoodMatches
<1>2. IndexIn(tree, n) \in DOMAIN Kids(tree, p) /\ Kids(tree, p)[IndexIn(tree, n)] = n
  BY <1>1 DEF IndexIn
<1>3. DOMAIN Kids(tree, p) = 1..Len(Kids(tree, p)) /\ Len(Kids(tree, p)) \in Nat
  BY <1>1, NodesAre
<1>4. IndexIn(tree, n) - 1 \in 0..Len(Kids(tree, p))
  BY <1>2, <1>3
<1>5. OffsetsIn(tree, o, p)[IndexIn(tree, n) - 1] \in Nat
  BY <1>1, <1>4, OffsetsAre
<1>6. QED BY <1>1, <1>2, <1>3, <1>5 DEF BeforeIn

(* Every node has its place. *)
LEMMA PlacesAre ==
  ASSUME NEW tree, GoodMatches(tree), NEW path, NEW o, IsOrder(tree, path, o)
  PROVE  IsPlaced(tree, o, Places(tree, o))
<1> DEFINE D == DOMAIN tree
           r == Itself(tree)
           Step(g, n) == IF n = Top THEN 0 ELSE g[ParentIn(tree, n)] + BeforeIn(tree, o, n)
           E == [n \in D |-> [g \in [D -> Nat] |-> Step(g, n)]]
<1>1. /\ r \in [D -> Nat] /\ Len(tree) + 1 \in Nat /\ \A n \in D: r[n] < Len(tree) + 1
      /\ \A n \in D: n # Top => r[ParentIn(tree, n)] < r[n] /\ ParentIn(tree, n) \in D
  BY ItselfIs
<1>2. 0 \in Nat
  OBVIOUS
<1>3. \A n \in D: n # Top => BeforeIn(tree, o, n) \in Nat
  BY BeforeIs
<1>4. Top \in D
  BY DEF GoodMatches, Top
<1> HIDE DEF D, r
<1>5. \A n \in D: \A g \in [D -> Nat]: Step(g, n) \in Nat
  BY <1>1, <1>3
<1>6. ASSUME NEW n \in D, NEW g, NEW h, \A m \in D: r[m] < r[n] => g[m] = h[m]
      PROVE  Step(g, n) = Step(h, n)
  BY <1>1, <1>6
<1>7. \A n \in D: \A g \in [D -> Nat]: E[n][g] = Step(g, n)
  <2> HIDE DEF Step
  <2>1. QED OBVIOUS
<1>8. Recurs(D, Nat, r, E)
  <2> HIDE DEF Step
  <2>1. E \in [D -> [[D -> Nat] -> Nat]]
    BY <1>5
  <2> HIDE DEF E
  <2>2. \A n \in D: \A g, h \in [D -> Nat]: (\A m \in D: r[m] < r[n] => g[m] = h[m]) => E[n][g] = E[n][h]
    BY <1>6, <1>7
  <2>3. QED BY <1>1, <2>1, <2>2 DEF Recurs
<1>9. PICK w \in [D -> Nat]: \A n \in D: w[n] = E[n][w]
  <2> HIDE DEF E
  <2>1. PICK V: V = Nat
    OBVIOUS
  <2>2. PICK N \in Nat: \A n \in D: r[n] < N
    BY <1>1
  <2>3. Recurs(D, V, r, E) /\ 0 \in V
    BY <1>2, <1>8, <2>1
  <2>4. \E w \in [D -> V]: \A n \in D: w[n] = E[n][w]
    BY ONLY <2>2, <2>3, RecursionExists
  <2>5. QED BY <2>1, <2>4
<1>10. \A n \in D: w[n] = Step(w, n)
  <2> HIDE DEF E, Step
  <2>1. QED BY <1>7, <1>9
<1>11. IsPlaced(tree, o, w)
  BY <1>4, <1>9, <1>10 DEF IsPlaced, D
<1>12. QED BY <1>11 DEF Places

Laid(tree, path, o, pos) == GoodMatches(tree) /\ IsOrder(tree, path, o) /\ IsPlaced(tree, o, pos)

(* Where the node's own handlers begin. *)
Own(tree, o, pos, n) == pos[n] + OffsetsIn(tree, o, n)[Len(Kids(tree, n))]

(* The order below n stands in the whole order at the place of n. *)
InPlace(o, pos, n) ==
  /\ pos[n] + Len(o[n]) <= Len(o[Top])
  /\ \A j \in 1..Len(o[n]): o[Top][pos[n] + j] = o[n][j]

(* Orders are sequences of handlers, places are numbers. *)
LEMMA OrdersTyped ==
  ASSUME NEW tree, NEW path, NEW o, NEW pos, Laid(tree, path, o, pos), NEW n \in DOMAIN tree
  PROVE  o[n] \in Seq(Handlers) /\ Len(o[n]) \in Nat /\ pos[n] \in Nat
BY DEF Laid, IsOrder, IsPlaced

(* The order below a node is a part of the whole one. *)
LEMMA SegmentsHold ==
  ASSUME NEW tree, NEW path, NEW o, NEW pos, Laid(tree, path, o, pos)
  PROVE  \A n \in On(tree, path): InPlace(o, pos, n)
<1> DEFINE D == DOMAIN tree
           r == Itself(tree)
           T == {n \in D: n \in On(tree, path) => InPlace(o, pos, n)}
<1>0. GoodMatches(tree) /\ IsOrder(tree, path, o) /\ IsPlaced(tree, o, pos)
  BY DEF Laid
<1>1. /\ r \in [D -> Nat] /\ \A n \in D: r[n] = n
      /\ \A n \in D: n # Top => ParentIn(tree, n) \in D /\ r[ParentIn(tree, n)] < r[n]
  BY <1>0, ItselfIs
<1>2. Top \in D /\ On(tree, path) \in SUBSET D
  <2>1. Top \in D
    BY <1>0 DEF GoodMatches, Top
  <2>2. On(tree, path) \in SUBSET D
    BY <1>0, OnIs
  <2>3. QED BY <2>1, <2>2
<1>3. ASSUME NEW n \in D, \A m \in D: r[m] < r[n] => m \in T PROVE n \in T
  <2> SUFFICES ASSUME n \in On(tree, path) PROVE InPlace(o, pos, n)
    OBVIOUS
  <2>1. CASE n = Top
    <3>1. pos[Top] = 0 /\ Len(o[Top]) \in Nat
      BY <1>0, <1>2, OrdersTyped DEF IsPlaced
    <3>2. QED BY <2>1, <3>1 DEF InPlace
  <2>2. CASE n # Top
    <3>1. PICK p \in D: p = ParentIn(tree, n) /\ p \in On(tree, path) /\ Accepts(tree, p, path) /\ p \in T
      BY <1>0, <1>1, <1>2, <1>3, <2>2, OnIs DEF Closed
    <3>2. PICK i: /\ i = IndexIn(tree, n) /\ i \in 1..Len(Kids(tree, p)) /\ Kids(tree, p)[i] = n
                  /\ BeforeIn(tree, o, n) \in Nat
      BY <1>0, <2>2, <3>1, BeforeIs
    <3>3. PICK off: off = OffsetsIn(tree, o, p) /\ Parts(tree, o, p, off)
      BY <1>0, <3>1, OffsetsAre
    <3>4. PICK a, b, c, e: a = off[i - 1] /\ b = off[i] /\ c = off[Len(Kids(tree, p))] /\ e = Len(Registry(tree, p))
      OBVIOUS
    <3>5. pos[n] = pos[p] + a /\ a \in Nat
      BY <1>0, <2>2, <3>1, <3>2, <3>3, <3>4 DEF IsPlaced, BeforeIn
    <3>6. /\ b = a + Len(o[n]) /\ b <= c /\ Len(o[p]) = c + e
          /\ \A j \in 1..Len(o[n]): o[p][a + j] = o[n][j]
      BY <3>2, <3>3, <3>4 DEF Parts
    <3>7. e \in Nat /\ c \in Nat
      <4>1. e \in Nat /\ Len(Kids(tree, p)) \in Nat
        BY <1>0, <3>4, NodesAre
      <4>2. off \in [0..Len(Kids(tree, p)) -> Nat]
        BY <3>3 DEF Parts
      <4>3. QED BY <3>4, <4>1, <4>2
    <3>8. InPlace(o, pos, p)
      BY <3>1
    <3>9. PICK x, y, z, w: x = pos[p] /\ y = Len(o[n]) /\ z = Len(o[p]) /\ w = Len(o[Top])
      OBVIOUS
    <3>10. x \in Nat /\ y \in Nat /\ z \in Nat /\ w \in Nat
      BY <1>2, <3>1, <3>9, OrdersTyped
    <3>11. /\ x + z <= w /\ z = c + e /\ a + y <= c
           /\ \A j \in 1..z: o[Top][x + j] = o[p][j]
           /\ \A j \in 1..y: o[p][a + j] = o[n][j]
      BY <3>6, <3>8, <3>9 DEF InPlace
    <3>12. pos[n] + y <= w
      <4>1. pos[n] = x + a /\ a \in Nat /\ x + z <= w /\ z = c + e /\ a + y <= c
        BY <3>5, <3>9, <3>11
      <4>2. PICK k: k = pos[n]
        OBVIOUS
      <4>3. k = x + a /\ a \in Nat /\ x + z <= w /\ z = c + e /\ a + y <= c
        BY <4>1, <4>2
      <4>4. k + y <= w
        BY ONLY <3>7, <3>10, <4>3
      <4>5. QED BY <4>2, <4>4
    <3>13. ASSUME NEW j \in 1..y PROVE o[Top][pos[n] + j] = o[n][j]
      <4>1. a + j \in 1..z /\ pos[n] + j = x + (a + j)
        BY <3>5, <3>7, <3>9, <3>10, <3>11
      <4>2. QED BY <3>11, <4>1
    <3>14. QED BY <3>9, <3>12, <3>13 DEF InPlace
  <2>3. QED BY <2>1, <2>2
<1>4. \A n \in D: n \in T
  <2> HIDE DEF D, r, T
  <2>1. QED BY <1>1, <1>3, RankInduction
<1>5. QED BY <1>2, <1>4

(* Children of whom none has handlers take no place. *)
LEMMA NothingBefore ==
  ASSUME NEW tree, GoodMatches(tree), NEW o, NEW p \in DOMAIN tree, NEW off, Parts(tree, o, p, off),
         NEW a \in 0..Len(Kids(tree, p)), NEW b \in a..Len(Kids(tree, p)),
         \A i \in (a + 1)..b: o[Kids(tree, p)[i]] = <<>>
  PROVE  off[b] = off[a]
<1> DEFINE len == Len(Kids(tree, p))
           T == {i \in a..b: off[i] = off[a]}
<1>1. /\ len \in Nat /\ off \in [0..len -> Nat]
      /\ \A i \in 1..len: off[i] = off[i - 1] + Len(o[Kids(tree, p)[i]])
  BY NodesAre DEF Parts
<1>2. ASSUME NEW i \in a..b, i = a \/ i - 1 \in T PROVE i \in T
  <2>1. CASE i = a
    BY <2>1
  <2>2. CASE i # a
    <3>1. i \in (a + 1)..b /\ i \in 1..len /\ i - 1 \in 0..len
      BY <1>1, <2>2
    <3>2. off[i] = off[i - 1] + 0 /\ off[i - 1] \in Nat
      BY <1>1, <3>1
    <3>3. QED BY <1>2, <2>2, <3>2
  <2>3. QED BY <2>1, <2>2
<1>3. \A i \in a..b: i \in T
  <2>1. a \in Nat /\ b \in Nat
    BY <1>1
  <2> HIDE DEF T
  <2>2. QED BY <1>2, <2>1, StepByStep
<1>4. b \in a..b
  BY <1>1
<1>5. QED BY <1>3, <1>4

(* A child begins where its elder siblings end. *)
LEMMA ChildPlaced ==
  ASSUME NEW tree, NEW path, NEW o, NEW pos, Laid(tree, path, o, pos), NEW p \in DOMAIN tree,
         NEW i \in DOMAIN Kids(tree, p), NEW c, c = Kids(tree, p)[i]
  PROVE  /\ c \in DOMAIN tree /\ c # Top /\ ParentIn(tree, c) = p
         /\ pos[c] = pos[p] + OffsetsIn(tree, o, p)[i - 1]
<1>1. GoodMatches(tree) /\ IsOrder(tree, path, o) /\ IsPlaced(tree, o, pos)
  BY DEF Laid
<1>2. c \in DOMAIN tree /\ ParentIn(tree, c) = p /\ p # NoNode
  BY <1>1, NodesAre
<1>3. c # Top
  BY <1>1, <1>2 DEF GoodMatches
<1>4. IndexIn(tree, c) \in DOMAIN Kids(tree, p) /\ Kids(tree, p)[IndexIn(tree, c)] = c
  BY <1>2 DEF IndexIn
<1>5. Distinct(Kids(tree, p))
  BY <1>1 DEF GoodMatches
<1>6. IndexIn(tree, c) = i
  BY <1>4, <1>5 DEF Distinct
<1>7. QED BY <1>1, <1>2, <1>3, <1>6 DEF IsPlaced, BeforeIn

(* The handlers of m are those from e on. *)
Leads(tree, path, o, pos, m, e) ==
  m \in On(tree, path) /\ Registry(tree, m) # <<>> /\ Own(tree, o, pos, m) = e

(* What find_first_match finds is what comes first in the order. *)
FirstTells(tree, path, o, pos, first, n) ==
  /\ first[n] = NoNode => o[n] = <<>>
  /\ first[n] # NoNode => Accepts(tree, n, path)
  /\ first[n] # NoNode /\ n \in On(tree, path) => Leads(tree, path, o, pos, first[n], pos[n])

(* find_first_match leads to the first handler of the order below n. *)
LEMMA FirstLeads ==
  ASSUME NEW tree, NEW path, NEW o, NEW pos, Laid(tree, path, o, pos),
         NEW first, IsFirst(tree, path, first)
  PROVE  \A n \in DOMAIN tree: FirstTells(tree, path, o, pos, first, n)
<1> DEFINE D == DOMAIN tree
           r == FromLast(tree)
           T == {n \in D: FirstTells(tree, path, o, pos, first, n)}
<1>0. GoodMatches(tree) /\ IsOrder(tree, path, o) /\ IsPlaced(tree, o, pos)
  BY DEF Laid
<1>1. /\ r \in [D -> Nat]
      /\ \A n \in D: \A i \in DOMAIN Kids(tree, n): r[Kids(tree, n)[i]] < r[n]
  BY <1>0, FromLastIs
<1>2. ASSUME NEW n \in D, \A m \in D: r[m] < r[n] => m \in T
      PROVE  FirstTells(tree, path, o, pos, first, n)
  <2> DEFINE k == Kids(tree, n)
             M == {i \in DOMAIN k: first[k[i]] # NoNode}
  <2>1. first[n] = IF ~Accepts(tree, n, path) THEN NoNode
                   ELSE IF M # {} THEN first[k[Min(M)]]
                   ELSE IF Registry(tree, n) # <<>> THEN n ELSE NoNode
    BY DEF IsFirst, FirstStep
  <2>2. PICK len: len = Len(k) /\ len \in Nat /\ DOMAIN k = 1..len
    BY <1>0, NodesAre
  <2>3. /\ n # NoNode /\ Registry(tree, n) \in Seq(Handlers)
        /\ \A i \in 1..len: k[i] \in D
    BY <1>0, <2>2, NodesAre
  <2>4. \A i \in 1..len: FirstTells(tree, path, o, pos, first, k[i])
    BY <1>1, <1>2, <2>2, <2>3
  <2>5. PICK off: off = OffsetsIn(tree, o, n) /\ (Accepts(tree, n, path) => Parts(tree, o, n, off))
    BY <1>0, OffsetsAre
  <2>6. M # {} => /\ Min(M) \in 1..len /\ first[k[Min(M)]] # NoNode
                  /\ \A i \in 1..(Min(M) - 1): first[k[i]] = NoNode
    <3>1. M \in SUBSET Nat /\ M \subseteq 1..len /\ \A i \in 1..len: i \notin M => first[k[i]] = NoNode
      BY <2>2
    <3>2. \A i \in M: first[k[i]] # NoNode
      OBVIOUS
    <3> HIDE DEF M
    <3> SUFFICES ASSUME M # {} PROVE /\ Min(M) \in 1..len /\ first[k[Min(M)]] # NoNode
                                     /\ \A i \in 1..(Min(M) - 1): first[k[i]] = NoNode
      OBVIOUS
    <3>3. PICK x: x = Min(M) /\ x \in M /\ \A i \in M: x <= i
      BY <3>1, MinIs
    <3>4. x \in 1..len
      BY <3>1, <3>3
    <3>5. \A i \in 1..(x - 1): i \in 1..len /\ ~(x <= i)
      BY <2>2, <3>4
    <3>6. QED BY <3>1, <3>2, <3>3, <3>4, <3>5
  <2>12. M = {} => \A i \in 1..len: first[k[i]] = NoNode
    BY <2>2
  <2> HIDE DEF M
  <2>7. CASE ~Accepts(tree, n, path)
    <3>1. o[n] = <<>>
      BY <1>0, <2>7 DEF IsOrder, OrderStep
    <3>2. QED BY <2>1, <2>7, <3>1 DEF FirstTells
  <2>8. CASE Accepts(tree, n, path) /\ M # {}
    <3>1. PICK x: x = Min(M) /\ x \in 1..len /\ first[k[x]] # NoNode /\ \A i \in 1..(x - 1): first[k[i]] = NoNode
      BY <2>6, <2>8
    <3>2. first[n] = first[k[x]]
      BY <2>1, <2>8, <3>1
    <3>3. \A i \in 1..(x - 1): i \in 1..len
      BY <2>2, <3>1
    <3>4. off[x - 1] = 0
      <4>1. \A i \in (0 + 1)..(x - 1): o[k[i]] = <<>>
        BY <2>4, <3>1, <3>3 DEF FirstTells
      <4>2. 0 \in 0..len /\ x - 1 \in 0..len
        BY <2>2, <3>1
      <4>3. off[x - 1] = off[0]
        BY <1>0, <2>2, <2>5, <2>8, <4>1, <4>2, NothingBefore
      <4>4. QED BY <2>5, <2>8, <4>3 DEF Parts
    <3>5. PICK c: c = k[x] /\ c \in D /\ c # Top /\ ParentIn(tree, c) = n /\ pos[c] = pos[n] + off[x - 1]
      BY <2>2, <2>5, <3>1, ChildPlaced
    <3>6. pos[c] = pos[n]
      <4>1. pos[n] \in Nat
        BY OrdersTyped
      <4>2. QED BY <3>4, <3>5, <4>1
    <3>7. FirstTells(tree, path, o, pos, first, c) /\ first[c] # NoNode
      BY <2>4, <3>1, <3>5
    <3>8. n \in On(tree, path) => c \in On(tree, path)
      BY <1>0, <3>5, <3>7, OnIs DEF FirstTells
    <3>9. QED BY <2>8, <3>1, <3>2, <3>5, <3>6, <3>7, <3>8 DEF FirstTells
  <2>9. CASE Accepts(tree, n, path) /\ M = {}
    <3>1. off[len] = 0
      <4>1. \A i \in (0 + 1)..len: o[k[i]] = <<>>
        BY <2>4, <2>9, <2>12 DEF FirstTells
      <4>2. 0 \in 0..len /\ len \in 0..len
        BY <2>2
      <4>3. off[len] = off[0]
        BY <1>0, <2>2, <2>5, <2>9, <4>1, <4>2, NothingBefore
      <4>4. QED BY <2>5, <2>9, <4>3 DEF Parts
    <3>2. pos[n] \in Nat /\ o[n] \in Seq(Handlers)
      BY OrdersTyped
    <3>3. Own(tree, o, pos, n) = pos[n]
      BY <2>2, <2>5, <3>1, <3>2 DEF Own
    <3>4. CASE Registry(tree, n) # <<>>
      BY <2>1, <2>3, <2>9, <3>3, <3>4 DEF FirstTells, Leads
    <3>5. CASE Registry(tree, n) = <<>>
      <4>1. Len(o[n]) = off[len] + Len(Registry(tree, n))
        BY <2>2, <2>5, <2>9 DEF Parts
      <4>2. Len(o[n]) = 0
        BY <3>1, <3>5, <4>1
      <4>3. o[n] = <<>>
        BY <3>2, <4>2, NoLength
      <4>4. QED BY <2>1, <2>9, <3>5, <4>3 DEF FirstTells
    <3>6. QED BY <3>4, <3>5
  <2>10. QED BY <2>7, <2>8, <2>9
<1>3. \A n \in D: n \in T
  <2>1. ASSUME NEW n \in D, \A m \in D: r[m] < r[n] => m \in T PROVE n \in T
    BY <1>2, <2>1
  <2> HIDE DEF D, r, T
  <2>2. QED BY <1>1, <2>1, RankInduction
<1>4. QED BY <1>3

(* What find_next_match finds is what follows in the order, and it finds *)
(* something unless that is its end. *)
NextTells(tree, path, o, pos, next, n) ==
  LET end == pos[n] + Len(o[n])
  IN  IF next[n] = NoNode THEN end = Len(o[Top])
      ELSE Leads(tree, path, o, pos, next[n], end)

(* find_next_match leads on to the next handler of the whole order. *)
LEMMA NextLeads ==
  ASSUME NEW tree, NEW path, NEW o, NEW pos, Laid(tree, path, o, pos),
         NEW first, IsFirst(tree, path, first), NEW next, IsNext(tree, first, next)
  PROVE  \A n \in On(tree, path): NextTells(tree, path, o, pos, next, n)
<1> DEFINE D == DOMAIN tree
           r == Itself(tree)
           T == {n \in D: n \in On(tree, path) => NextTells(tree, path, o, pos, next, n)}
<1>0. GoodMatches(tree) /\ IsOrder(tree, path, o) /\ IsPlaced(tree, o, pos)
  BY DEF Laid
<1>1. /\ r \in [D -> Nat] /\ \A n \in D: r[n] = n
      /\ \A n \in D: n # Top => ParentIn(tree, n) \in D /\ r[ParentIn(tree, n)] < r[n]
  BY <1>0, ItselfIs
<1>2. On(tree, path) \in SUBSET D /\ Closed(tree, path, On(tree, path))
  BY <1>0, OnIs
<1>3. ASSUME NEW n \in D, \A m \in D: r[m] < r[n] => m \in T, n \in On(tree, path)
      PROVE  NextTells(tree, path, o, pos, next, n)
  <2> DEFINE later == LaterIn(tree, n)
             M == {i \in DOMAIN later: first[later[i]] # NoNode}
  <2>1. next[n] = IF M # {} THEN first[later[Min(M)]]
                  ELSE IF ParentIn(tree, n) = NoNode THEN NoNode
                  ELSE IF Registry(tree, ParentIn(tree, n)) # <<>> THEN ParentIn(tree, n)
                  ELSE next[ParentIn(tree, n)]
    BY DEF IsNext, NextStep
  <2>2. CASE n = Top
    <3>1. DOMAIN later = {} /\ ParentIn(tree, n) = NoNode
      BY <1>0, <2>2 DEF LaterIn, GoodMatches
    <3>2. M = {}
      BY <3>1
    <3> HIDE DEF M
    <3>3. next[n] = NoNode
      BY <2>1, <3>1, <3>2
    <3>4. pos[Top] = 0 /\ Len(o[Top]) \in Nat
      BY <1>0, <2>2, OrdersTyped DEF IsPlaced
    <3>5. QED BY <2>2, <3>3, <3>4 DEF NextTells
  <2>3. CASE n # Top
    <3>1. PICK p, at: Sibling(tree, n, p, at)
      BY <1>0, <2>3, LaterIs
    <3>2. /\ p \in D /\ at \in DOMAIN Kids(tree, p) /\ p = ParentIn(tree, n) /\ p # NoNode
          /\ Kids(tree, p)[at] = n
      BY <3>1 DEF Sibling
    <3>3. p \in On(tree, path) /\ Accepts(tree, p, path) /\ p \in T
      <4>1. p \in On(tree, path)
        BY <1>2, <1>3, <2>3, <3>2 DEF Closed
      <4>2. p \in T
        BY <1>1, <1>3, <2>3, <3>2
      <4>3. QED BY <1>2, <4>1, <4>2 DEF Closed
    <3>4. PICK len: len = Len(Kids(tree, p)) /\ len \in Nat /\ DOMAIN Kids(tree, p) = 1..len
      BY <1>0, <3>2, NodesAre
    <3>5. \A i \in 1..len: Kids(tree, p)[i] \in D
      BY <1>0, <3>2, <3>4, NodesAre
    <3>6. DOMAIN later = 1..(len - at) /\ \A i \in 1..(len - at): later[i] = Kids(tree, p)[at + i]
      BY <3>1, <3>4 DEF Sibling
    <3>7. at \in 1..len
      BY <3>2, <3>4
    <3>8. PICK off: off = OffsetsIn(tree, o, p) /\ Parts(tree, o, p, off)
      BY <1>0, <3>2, <3>3, OffsetsAre
    <3>9. PICK e: e = pos[n] + Len(o[n])
      OBVIOUS
    <3>10. PICK b: b = off[at] /\ b \in Nat
      <4>1. at \in 0..len
        BY <3>4, <3>7
      <4>2. QED BY <3>4, <3>8, <4>1 DEF Parts
    <3>11. e = pos[p] + b /\ pos[p] \in Nat
      <4>1. pos[n] = pos[p] + off[at - 1]
        BY <3>2, <3>8, ChildPlaced
      <4>2. b = off[at - 1] + Len(o[n])
        BY <3>2, <3>4, <3>7, <3>8, <3>10 DEF Parts
      <4>3. off[at - 1] \in Nat
        <5>1. at - 1 \in 0..len
          BY <3>4, <3>7
        <5>2. QED BY <3>4, <3>8, <5>1 DEF Parts
      <4>4. pos[p] \in Nat /\ Len(o[n]) \in Nat
        BY <3>2, OrdersTyped
      <4>5. PICK x, y, z: x = pos[p] /\ y = off[at - 1] /\ z = Len(o[n])
        OBVIOUS
      <4>6. e = (x + y) + z /\ x \in Nat /\ y \in Nat /\ z \in Nat /\ b = y + z
        BY <3>9, <4>1, <4>2, <4>3, <4>4, <4>5
      <4>7. e = x + b
        BY ONLY <4>6
      <4>8. QED BY <4>4, <4>5, <4>7
    <3>12. \A i \in 1..len: FirstTells(tree, path, o, pos, first, Kids(tree, p)[i])
      BY <3>5, FirstLeads
    <3>13. \A i \in 1..(len - at): at + i \in 1..len
      BY <3>4, <3>7
    <3>14. CASE M # {}
      <4>1. M \in SUBSET Nat /\ M \subseteq 1..(len - at)
            /\ \A i \in 1..(len - at): i \notin M => first[later[i]] = NoNode
        BY <3>6
      <4>2. \A i \in M: first[later[i]] # NoNode
        OBVIOUS
      <4> HIDE DEF M, later
      <4>3. PICK x: x = Min(M) /\ x \in M /\ \A i \in M: x <= i
        BY <3>14, <4>1, MinIs
      <4>4. x \in 1..(len - at)
        BY <4>1, <4>3
      <4>5. \A i \in 1..(x - 1): i \in 1..(len - at) /\ ~(x <= i)
        BY <3>4, <3>7, <4>4
      <4>6. PICK c: c = Kids(tree, p)[at + x] /\ c = later[x] /\ first[c] # NoNode /\ next[n] = first[c]
        BY <2>1, <3>6, <3>14, <4>2, <4>3, <4>4
      <4>7. \A i \in 1..(x - 1): o[Kids(tree, p)[at + i]] = <<>>
        <5> TAKE i \in 1..(x - 1)
        <5>1. i \in 1..(len - at) /\ i \notin M
          BY <4>3, <4>5
        <5>2. first[Kids(tree, p)[at + i]] = NoNode
          BY <3>6, <4>1, <5>1
        <5>3. QED BY <3>12, <3>13, <5>1, <5>2 DEF FirstTells
      <4>18. PICK y: y = at + x - 1
        OBVIOUS
      <4>9. at \in 0..len /\ y \in at..len /\ y + 1 \in 1..len /\ y + 1 = at + x /\ y = (y + 1) - 1
        BY <3>4, <3>7, <4>4, <4>18
      <4>8. \A i \in (at + 1)..y: o[Kids(tree, p)[i]] = <<>>
        <5> TAKE i \in (at + 1)..y
        <5>1. i - at \in 1..(x - 1) /\ at + (i - at) = i
          BY <3>4, <3>7, <4>4, <4>18
        <5>2. QED BY <4>7, <5>1
      <4>10. off[y] = b
        <5>1. at \in 0..Len(Kids(tree, p)) /\ y \in at..Len(Kids(tree, p))
          BY <3>4, <4>9
        <5>2. off[y] = off[at]
          BY <1>0, <3>2, <3>8, <4>8, <5>1, NothingBefore
        <5>3. QED BY <3>10, <5>2
      <4>11. /\ c \in D /\ c # Top /\ ParentIn(tree, c) = p
             /\ pos[c] = pos[p] + off[y]
        <5>1. PICK j: j = at + x /\ j \in DOMAIN Kids(tree, p) /\ c = Kids(tree, p)[j] /\ j - 1 = y
          BY <3>4, <4>6, <4>9
        <5>2. QED BY <3>2, <3>8, <5>1, ChildPlaced
      <4>12. pos[c] = e
        BY <3>11, <4>10, <4>11
      <4>13. FirstTells(tree, path, o, pos, first, c)
        BY <3>12, <4>6, <4>9
      <4>14. c \in On(tree, path)
        BY <1>0, <3>3, <4>6, <4>11, <4>13, OnIs DEF FirstTells
      <4>15. Leads(tree, path, o, pos, first[c], e)
        BY <4>6, <4>12, <4>13, <4>14 DEF FirstTells
      <4>16. next[n] # NoNode
        BY <4>6
      <4>17. QED BY <3>9, <4>6, <4>15, <4>16 DEF NextTells
    <3>15. CASE M = {}
      <4>1. \A i \in 1..(len - at): first[Kids(tree, p)[at + i]] = NoNode
        BY <3>6, <3>15
      <4> HIDE DEF M, later
      <4>2. \A i \in 1..(len - at): o[Kids(tree, p)[at + i]] = <<>>
        BY <3>12, <3>13, <4>1 DEF FirstTells
      <4>3. \A i \in (at + 1)..len: o[Kids(tree, p)[i]] = <<>>
        <5> TAKE i \in (at + 1)..len
        <5>1. i - at \in 1..(len - at) /\ at + (i - at) = i
          BY <3>4, <3>7
        <5>2. QED BY <4>2, <5>1
      <4>4. at \in 0..len /\ len \in at..len
        BY <3>4, <3>7
      <4>5. off[len] = b
        BY <1>0, <3>2, <3>4, <3>8, <3>10, <4>3, <4>4, NothingBefore
      <4>6. Own(tree, o, pos, p) = e
        BY <3>4, <3>8, <3>11, <4>5 DEF Own
      <4>7. CASE Registry(tree, p) # <<>>
        <5>1. next[n] = p
          BY <2>1, <3>2, <3>15, <4>7
        <5>2. Leads(tree, path, o, pos, p, e)
          BY <3>3, <4>6, <4>7 DEF Leads
        <5>3. QED BY <3>2, <3>9, <5>1, <5>2 DEF NextTells
      <4>8. CASE Registry(tree, p) = <<>>
        <5>1. next[n] = next[p]
          BY <2>1, <3>2, <3>15, <4>8
        <5>2. Len(o[p]) = b + 0
          BY <3>4, <3>8, <4>5, <4>8 DEF Parts
        <5>3. pos[p] + Len(o[p]) = e
          BY <3>10, <3>11, <5>2
        <5>4. NextTells(tree, path, o, pos, next, p)
          BY <3>3
        <5>5. QED BY <3>9, <5>1, <5>3, <5>4 DEF NextTells
      <4>9. QED BY <4>7, <4>8
    <3>16. QED BY <3>14, <3>15
  <2>4. QED BY <2>2, <2>3
<1>4. \A n \in D: n \in T
  <2>1. ASSUME NEW n \in D, \A m \in D: r[m] < r[n] => m \in T PROVE n \in T
    BY <1>3, <2>1
  <2> HIDE DEF D, r, T
  <2>2. QED BY <1>1, <2>1, RankInduction
<1>5. QED BY <1>2, <1>4

(* Where the walk for a path is: at handler h of node n, the k-th to try. *)
At(tree, path, n, h, k) ==
  LET o == OrdersIn(tree, path)
  IN  /\ n \in On(tree, path) /\ h \in 1..Len(Registry(tree, n))
      /\ k = Own(tree, o, Places(tree, o), n) + h

(* The tree of the model has such places. *)
LEMMA IsLaid ==
  ASSUME NEW tree, GoodMatches(tree), NEW path
  PROVE  Laid(tree, path, OrdersIn(tree, path), Places(tree, OrdersIn(tree, path)))
BY OrderIs, PlacesAre DEF Laid

(* A node's own handlers are the last of those below it. *)
LEMMA OwnIs ==
  ASSUME NEW tree, NEW path, NEW o, NEW pos, Laid(tree, path, o, pos), NEW n \in On(tree, path)
  PROVE  /\ n \in DOMAIN tree /\ Own(tree, o, pos, n) \in Nat
         /\ Registry(tree, n) \in Seq(Handlers) /\ Len(Registry(tree, n)) \in Nat
         /\ Len(o[Top]) \in Nat
         /\ Own(tree, o, pos, n) + Len(Registry(tree, n)) = pos[n] + Len(o[n])
         /\ pos[n] + Len(o[n]) <= Len(o[Top])
         /\ \A h \in 1..Len(Registry(tree, n)):
              o[Top][Own(tree, o, pos, n) + h] = Registry(tree, n)[h]
<1>1. GoodMatches(tree) /\ IsOrder(tree, path, o) /\ Top \in DOMAIN tree
  <2>1. GoodMatches(tree) /\ IsOrder(tree, path, o)
    BY DEF Laid
  <2>2. QED BY <2>1 DEF GoodMatches, Top
<1>2. n \in DOMAIN tree /\ Accepts(tree, n, path)
  <2>1. On(tree, path) \in SUBSET DOMAIN tree /\ Closed(tree, path, On(tree, path))
    BY <1>1, OnIs
  <2>2. QED BY <2>1 DEF Closed
<1>3. Registry(tree, n) \in Seq(Handlers) /\ Len(Kids(tree, n)) \in Nat
  BY <1>1, <1>2, NodesAre
<1>4. PICK off: off = OffsetsIn(tree, o, n) /\ Parts(tree, o, n, off)
  BY <1>1, <1>2, OffsetsAre
<1>5. PICK b, c, x, y, z: /\ b = off[Len(Kids(tree, n))] /\ c = Len(Registry(tree, n)) /\ x = pos[n]
                          /\ y = Len(o[n]) /\ z = Len(o[Top])
  OBVIOUS
<1>6. b \in Nat /\ c \in Nat /\ x \in Nat /\ y \in Nat /\ z \in Nat
  <2>1. Len(Kids(tree, n)) \in 0..Len(Kids(tree, n))
    BY <1>3
  <2>2. b \in Nat
    BY <1>4, <1>5, <2>1 DEF Parts
  <2>3. x \in Nat /\ y \in Nat /\ z \in Nat
    BY <1>1, <1>2, <1>5, OrdersTyped
  <2>4. QED BY <1>3, <1>5, <2>2, <2>3
<1>7. y = b + c /\ \A j \in 1..c: o[n][b + j] = Registry(tree, n)[j]
  BY <1>4, <1>5 DEF Parts
<1>8. x + y <= z /\ \A j \in 1..y: o[Top][x + j] = o[n][j]
  BY <1>5, SegmentsHold DEF InPlace
<1>9. PICK own: own = Own(tree, o, pos, n) /\ own = x + b
  BY <1>4, <1>5 DEF Own
<1>10. own \in Nat /\ own + c = x + y
  BY <1>6, <1>7, <1>9
<1>11. ASSUME NEW h \in 1..c PROVE o[Top][own + h] = Registry(tree, n)[h]
  <2>1. b + h \in 1..y /\ own + h = x + (b + h)
    BY <1>6, <1>7, <1>9
  <2>2. QED BY <1>7, <1>8, <2>1
<1>12. QED BY <1>2, <1>3, <1>5, <1>6, <1>8, <1>9, <1>10, <1>11

(* The handler there is the one to try. *)
LEMMA WalkIsThere ==
  ASSUME NEW tree, GoodMatches(tree), NEW path, NEW n, NEW h, NEW k, At(tree, path, n, h, k),
         NEW order, order = OrderIn(tree, path)
  PROVE  /\ order \in Seq(Handlers) /\ k \in 1..Len(order) /\ order[k] = Registry(tree, n)[h]
         /\ n \in DOMAIN tree /\ h \in Nat /\ Len(Registry(tree, n)) \in Nat /\ h <= Len(Registry(tree, n))
<1>1. PICK o, pos: o = OrdersIn(tree, path) /\ pos = Places(tree, o) /\ Laid(tree, path, o, pos)
  BY IsLaid
<1>2. n \in On(tree, path) /\ h \in 1..Len(Registry(tree, n)) /\ k = Own(tree, o, pos, n) + h
  BY <1>1 DEF At
<1>3. PICK a, c, e, z: a = Own(tree, o, pos, n) /\ c = Len(Registry(tree, n)) /\ e = pos[n] + Len(o[n]) /\ z = Len(o[Top])
  OBVIOUS
<1>4. a \in Nat /\ c \in Nat /\ z \in Nat /\ a + c = e /\ e <= z /\ n \in DOMAIN tree /\ o[Top][a + h] = Registry(tree, n)[h]
  BY <1>1, <1>2, <1>3, OwnIs
<1>5. order = o[Top] /\ o[Top] \in Seq(Handlers)
  <2>1. Top \in DOMAIN tree
    BY DEF GoodMatches, Top
  <2>2. QED BY <1>1, <2>1, OrdersTyped DEF OrderIn
<1>6. a + h \in 1..z
  BY <1>2, <1>3, <1>4
<1>7. QED BY <1>2, <1>3, <1>4, <1>5, <1>6

(* find_first_match *)
LEMMA WalkStarts ==
  ASSUME NEW tree, GoodMatches(tree), NEW path, NEW m, m = FirstIn(tree, path)[Top]
  PROVE  /\ OrderIn(tree, path) \in Seq(Handlers)
         /\ m = NoNode => OrderIn(tree, path) = <<>>
         /\ m # NoNode => At(tree, path, m, 1, 1)
<1>1. PICK o, pos: o = OrdersIn(tree, path) /\ pos = Places(tree, o) /\ Laid(tree, path, o, pos)
  BY IsLaid
<1>2. Top \in DOMAIN tree /\ pos[Top] = 0 /\ o[Top] \in Seq(Handlers)
  <2>1. Top \in DOMAIN tree
    BY DEF GoodMatches, Top
  <2>2. pos[Top] = 0
    BY <1>1 DEF Laid, IsPlaced
  <2>3. QED BY <1>1, <2>1, <2>2, OrdersTyped
<1>3. FirstTells(tree, path, o, pos, FirstIn(tree, path), Top)
  BY <1>1, <1>2, FirstIs, FirstLeads
<1>4. ASSUME m # NoNode PROVE At(tree, path, m, 1, 1)
  <2>1. Top \in On(tree, path)
    BY <1>2, <1>3, <1>4, OnIs DEF FirstTells
  <2>2. Leads(tree, path, o, pos, m, 0)
    BY <1>2, <1>3, <1>4, <2>1 DEF FirstTells
  <2>3. m \in On(tree, path) /\ Registry(tree, m) # <<>> /\ Own(tree, o, pos, m) = 0
    BY <2>2 DEF Leads
  <2>4. Registry(tree, m) \in Seq(Handlers)
    BY <1>1, <2>3, OwnIs
  <2>5. 1 \in 1..Len(Registry(tree, m))
    BY <2>3, <2>4
  <2>6. QED BY <1>1, <2>3, <2>5 DEF At
<1>5. QED BY <1>1, <1>2, <1>3, <1>4 DEF FirstTells, OrderIn

(* advance_to_next_handler *)
LEMMA WalkGoesOn ==
  ASSUME NEW tree, GoodMatches(tree), NEW path, NEW n, NEW h, NEW k, At(tree, path, n, h, k)
  PROVE  /\ h < Len(Registry(tree, n)) => At(tree, path, n, h + 1, k + 1)
         /\ \A m: m = NextIn(tree, n, path) /\ ~(h < Len(Registry(tree, n))) =>
              IF m = NoNode THEN k = Len(OrderIn(tree, path)) ELSE At(tree, path, m, 1, k + 1)
<1>1. PICK o, pos: o = OrdersIn(tree, path) /\ pos = Places(tree, o) /\ Laid(tree, path, o, pos)
  BY IsLaid
<1>2. n \in On(tree, path) /\ h \in 1..Len(Registry(tree, n)) /\ k = Own(tree, o, pos, n) + h
  BY <1>1 DEF At
<1>3. PICK a, c, e, z: a = Own(tree, o, pos, n) /\ c = Len(Registry(tree, n)) /\ e = pos[n] + Len(o[n]) /\ z = Len(o[Top])
  OBVIOUS
<1>4. a \in Nat /\ c \in Nat /\ a + c = e
  BY <1>1, <1>2, <1>3, OwnIs
<1>5. ASSUME h < Len(Registry(tree, n)) PROVE At(tree, path, n, h + 1, k + 1)
  <2>3. h < c /\ h \in 1..c /\ k = a + h
    BY <1>2, <1>3, <1>5
  <2>1. h + 1 \in 1..c /\ k + 1 = a + (h + 1)
    BY ONLY <1>4, <2>3
  <2>2. QED BY <1>1, <1>2, <1>3, <2>1 DEF At
<1>6. ASSUME NEW m, m = NextIn(tree, n, path), ~(h < Len(Registry(tree, n)))
      PROVE  IF m = NoNode THEN k = Len(OrderIn(tree, path)) ELSE At(tree, path, m, 1, k + 1)
  <2>1. k = e
    BY <1>2, <1>3, <1>4, <1>6
  <2>2. PICK next: IsNext(tree, FirstIn(tree, path), next) /\ m = next[n]
    BY <1>6, NextIs
  <2>3. NextTells(tree, path, o, pos, next, n)
    BY <1>1, <1>2, <2>2, FirstIs, NextLeads
  <2>4. CASE m = NoNode
    BY <1>1, <1>3, <2>1, <2>2, <2>3, <2>4 DEF NextTells, OrderIn
  <2>5. CASE m # NoNode
    <3>1. Leads(tree, path, o, pos, m, k)
      BY <1>3, <2>1, <2>2, <2>3, <2>5 DEF NextTells
    <3>2. m \in On(tree, path) /\ Registry(tree, m) # <<>> /\ Own(tree, o, pos, m) = k
      BY <3>1 DEF Leads
    <3>3. Registry(tree, m) \in Seq(Handlers)
      BY <1>1, <3>2, OwnIs
    <3>4. 1 \in 1..Len(Registry(tree, m))
      BY <3>2, <3>3
    <3>5. At(tree, path, m, 1, k + 1)
      BY <1>1, <3>2, <3>4 DEF At
    <3>6. QED BY <2>5, <3>5
  <2>6. QED BY <2>4, <2>5
<1>7. QED BY <1>5, <1>6

-----------------------------------------------------------------------------
(* The handlers that were tried. *)

Ids == Nat \X Nat
(* The ids tried are the orders of each handler, of one or no id, joined. *)
Picks(order, kind) ==
  [i \in DOMAIN order |-> IF Suits(kind, order[i].type) THEN <<order[i].id>> ELSE <<>>]
Counted(order, kind) == CHOOSE off: IsFlat(Picks(order, kind), ToTryIn(order, kind), off, Ids)

(* off counts those that suit among the first ones of the order. *)
Counts(order, kind, off) ==
  /\ off \in [0..Len(order) -> Nat] /\ off[0] = 0
  /\ Len(ToTryIn(order, kind)) = off[Len(order)]
  /\ ToTryIn(order, kind) \in Seq(Ids)
  /\ \A i \in 1..Len(order):
       /\ off[i] <= Len(ToTryIn(order, kind))
       /\ Suits(kind, order[i].type) => /\ off[i] = off[i - 1] + 1
                                        /\ ToTryIn(order, kind)[off[i - 1] + 1] = order[i].id
       /\ ~Suits(kind, order[i].type) => off[i] = off[i - 1]

(* How many ids the first k handlers give. *)
LEMMA CountedIs ==
  ASSUME NEW order \in Seq(Handlers), NEW kind
  PROVE  Counts(order, kind, Counted(order, kind))
<1> DEFINE s == Picks(order, kind)
           t == ToTryIn(order, kind)
           off == Counted(order, kind)
<1>1. PICK len: len = Len(order) /\ len \in Nat /\ DOMAIN order = 1..len
  OBVIOUS
<1>2. \A i \in 1..len: order[i].id \in Ids
  <2>1. \A i \in 1..len: order[i] \in Handlers
    BY <1>1, ElementOfSeq
  <2>2. QED BY <2>1 DEF Handlers, Ids
<1>3. s = [i \in 1..len |-> IF Suits(kind, order[i].type) THEN <<order[i].id>> ELSE <<>>]
  BY <1>1 DEF Picks
<1>4. t = FlattenSeq(s)
  BY DEF ToTryIn, Picks
<1>5. ASSUME NEW i \in 1..len
      PROVE  /\ s[i] \in Seq(Ids)
             /\ Suits(kind, order[i].type) => Len(s[i]) = 1 /\ s[i][1] = order[i].id
             /\ ~Suits(kind, order[i].type) => Len(s[i]) = 0
  <2>1. s[i] = IF Suits(kind, order[i].type) THEN <<order[i].id>> ELSE <<>>
    BY <1>3
  <2>2. PICK x \in Ids: x = order[i].id
    BY <1>2
  <2>3. <<x>> \in Seq(Ids) /\ Len(<<x>>) = 1 /\ <<x>>[1] = x /\ <<>> \in Seq(Ids) /\ Len(<<>>) = 0
    OBVIOUS
  <2> HIDE DEF s
  <2>4. QED BY <2>1, <2>2, <2>3
<1>6. s \in Seq(Seq(Ids)) /\ Len(s) = len
  <2> DEFINE S == Seq(Ids)
  <2>1. \A i \in 1..len: (IF Suits(kind, order[i].type) THEN <<order[i].id>> ELSE <<>>) \in S
    BY <1>3, <1>5
  <2> HIDE DEF S
  <2>2. s \in Seq(S) /\ Len(s) = len
    BY <1>1, <1>3, <2>1
  <2>3. QED BY <2>2 DEF S
<1> HIDE DEF s, t
<1>7. IsFlat(s, t, off, Ids)
  BY <1>4, <1>6, FlatIs DEF Counted, s, t
<1> HIDE DEF off
<1>8. /\ t \in Seq(Ids) /\ off \in [0..len -> Nat] /\ off[0] = 0 /\ Len(t) = off[len]
      /\ \A i \in 1..len: off[i] = off[i - 1] + Len(s[i]) /\ off[i] <= Len(t)
      /\ \A i \in 1..len: \A j \in 1..Len(s[i]): t[off[i - 1] + j] = s[i][j]
  BY <1>6, <1>7 DEF IsFlat
<1>9. ASSUME NEW i \in 1..len
      PROVE  /\ Suits(kind, order[i].type) => off[i] = off[i - 1] + 1 /\ t[off[i - 1] + 1] = order[i].id
             /\ ~Suits(kind, order[i].type) => off[i] = off[i - 1]
  <2>1. PICK a, b, y: a = off[i - 1] /\ b = off[i] /\ y = Len(s[i])
    OBVIOUS
  <2>2. a \in Nat /\ b = a + y
    <3>1. i - 1 \in 0..len
      BY <1>1
    <3>2. QED BY <1>8, <2>1, <3>1
  <2>3. \A j \in 1..y: t[a + j] = s[i][j]
    BY <1>8, <2>1
  <2>4. CASE Suits(kind, order[i].type)
    <3>1. y = 1 /\ s[i][1] = order[i].id
      BY <1>5, <2>1, <2>4
    <3>2. 1 \in 1..y
      BY <3>1
    <3>3. QED BY <2>1, <2>2, <2>3, <2>4, <3>1, <3>2
  <2>5. CASE ~Suits(kind, order[i].type)
    <3>1. b = a
      BY <1>5, <2>1, <2>2, <2>5
    <3>2. QED BY <2>1, <2>5, <3>1
  <2>6. QED BY <2>4, <2>5
<1>10. QED BY <1>1, <1>8, <1>9 DEF Counts, off, t

(* c has the handlers that suit among the first k of the order. *)
Tried(order, kind, k, c) ==
  LET t == ToTryIn(order, kind)
  IN  /\ k \in 0..Len(order) /\ c \in Seq(Ids) /\ Len(c) = Counted(order, kind)[k]
      /\ \A j \in 1..Len(c): c[j] = t[j]

(* Nothing is tried before the first handler. *)
LEMMA TriedFirst ==
  ASSUME NEW order \in Seq(Handlers), NEW kind
  PROVE  Tried(order, kind, 0, <<>>)
<1>1. 0 \in 0..Len(order) /\ Counted(order, kind)[0] = 0
  BY CountedIs DEF Counts
<1>2. <<>> \in Seq(Ids) /\ Len(<<>>) = 0
  OBVIOUS
<1>3. QED BY <1>1, <1>2 DEF Tried

(* The next handler is tried if it suits the kind, and skipped if not. *)
LEMMA TriedNext ==
  ASSUME NEW order \in Seq(Handlers), NEW kind, NEW k \in 0..Len(order), NEW i, i = k + 1,
         i \in 1..Len(order), NEW c, Tried(order, kind, k, c)
  PROVE  /\ Suits(kind, order[i].type) => Tried(order, kind, i, Append(c, order[i].id))
         /\ ~Suits(kind, order[i].type) => Tried(order, kind, i, c)
<1>1. PICK len: len = Len(order) /\ len \in Nat
  OBVIOUS
<1>2. PICK t, off: t = ToTryIn(order, kind) /\ off = Counted(order, kind)
  OBVIOUS
<1>3. PICK l: l = Len(c) /\ l = off[k]
  BY <1>2 DEF Tried
<1>4. c \in Seq(Ids) /\ \A j \in 1..l: c[j] = t[j]
  BY <1>2, <1>3 DEF Tried
<1>5. i - 1 = k /\ i \in 0..len
  BY <1>1
<1>6. /\ Suits(kind, order[i].type) => off[i] = l + 1 /\ t[l + 1] = order[i].id
      /\ ~Suits(kind, order[i].type) => off[i] = l
  BY <1>2, <1>3, <1>5, CountedIs DEF Counts
<1>7. ASSUME Suits(kind, order[i].type) PROVE Tried(order, kind, i, Append(c, order[i].id))
  <2>1. PICK x: x = order[i].id /\ x \in Ids
    <3>1. order[i] \in Handlers
      BY ElementOfSeq
    <3>2. QED BY <3>1 DEF Handlers, Ids
  <2>2. PICK d: d = Append(c, x)
    OBVIOUS
  <2>3. d \in Seq(Ids) /\ Len(d) = l + 1 /\ l \in Nat /\ (\A j \in 1..l: d[j] = c[j]) /\ d[l + 1] = x
    <3>1. l \in Nat
      BY <1>3, <1>4, LenProperties
    <3>2. d \in Seq(Ids) /\ Len(d) = Len(c) + 1 /\ (\A j \in 1..Len(c): d[j] = c[j]) /\ d[Len(c) + 1] = x
      BY ONLY <1>4, <2>1, <2>2, AppendIs
    <3>3. QED BY <1>3, <3>1, <3>2
  <2>4. ASSUME NEW j \in 1..(l + 1) PROVE d[j] = t[j]
    <3>1. j \in 1..l \/ j = l + 1
      BY <2>3
    <3>2. QED BY <1>4, <1>6, <1>7, <2>1, <2>3, <3>1
  <2>5. QED BY <1>1, <1>2, <1>5, <1>6, <1>7, <2>1, <2>2, <2>3, <2>4 DEF Tried
<1>8. ASSUME ~Suits(kind, order[i].type) PROVE Tried(order, kind, i, c)
  BY <1>1, <1>2, <1>3, <1>4, <1>5, <1>6, <1>8 DEF Tried
<1>9. QED BY <1>7, <1>8

(* They are the first to try, and at the end of the order they are all. *)
LEMMA TriedIsPrefix ==
  ASSUME NEW order \in Seq(Handlers), NEW kind, NEW k, NEW c, Tried(order, kind, k, c)
  PROVE  /\ IsPrefix(c, ToTryIn(order, kind))
         /\ k = Len(order) => Len(ToTryIn(order, kind)) = Len(c)
<1>1. PICK t, off: t = ToTryIn(order, kind) /\ off = Counted(order, kind) /\ Counts(order, kind, off)
  BY CountedIs
<1>2. PICK l, z: l = Len(c) /\ z = Len(t) /\ l = off[k]
  BY <1>1 DEF Tried
<1>3. k \in 0..Len(order) /\ c \in Seq(Ids) /\ \A j \in 1..l: c[j] = t[j]
  BY <1>1, <1>2 DEF Tried
<1>4. t \in Seq(Ids) /\ z = off[Len(order)] /\ off[0] = 0 /\ \A i \in 1..Len(order): off[i] <= z
  BY <1>1, <1>2 DEF Counts
<1>5. l \in Nat /\ z \in Nat
  BY <1>2, <1>3, <1>4, LenProperties
<1>6. l <= z
  <2>1. k = 0 \/ k \in 1..Len(order)
    BY <1>3
  <2>2. QED BY <1>2, <1>4, <1>5, <2>1
<1>7. SubSeq(c, 1, l) = SubSeq(t, 1, l)
  <2>1. \A j \in 1..l: c[j] = t[j] /\ j \in 1..z
    BY <1>3, <1>5, <1>6
  <2>2. PICK a, b: a = SubSeq(c, 1, l) /\ b = SubSeq(t, 1, l)
    OBVIOUS
  <2>3. /\ a \in Seq(Ids) /\ Len(a) = l /\ \A j \in 1..l: a[j] = c[j]
    <3>1. l \in 0..Len(c)
      BY <1>2, <1>5
    <3>2. QED BY <1>3, <2>2, <3>1, FirstOnes
  <2>4. /\ b \in Seq(Ids) /\ Len(b) = l /\ \A j \in 1..l: b[j] = t[j]
    <3>1. l \in 0..Len(t)
      BY <1>2, <1>5, <1>6
    <3>2. QED BY <1>4, <2>2, <3>1, FirstOnes
  <2>5. \A j \in 1..l: a[j] = b[j]
    BY <2>1, <2>3, <2>4
  <2>6. QED BY <2>2, <2>3, <2>4, <2>5, SeqEqual
<1>8. QED BY <1>1, <1>2, <1>4, <1>6, <1>7 DEF IsPrefix

-----------------------------------------------------------------------------
(* Registration keeps the tree. *)

(* The nodes of a tree that registration builds. *)
MatchNodes == [parent: Nat, children: Seq(Nat), test_list: SUBSET Paths, tester: SUBSET Paths,
               handlers: Seq(Handlers)]

MatchesKept(tree) == tree \in Seq(MatchNodes) /\ GoodMatches(tree)

(* A new match has no children and no handlers. *)
LEMMA NewNodeIs ==
  ASSUME NEW p \in Nat
  PROVE  /\ NewNode(p) \in MatchNodes
         /\ NewNode(p).parent = p /\ NewNode(p).children = <<>> /\ NewNode(p).handlers = <<>>
<1>1. <<>> \in Seq(Nat) /\ <<>> \in Seq(Handlers) /\ {} \in SUBSET Paths /\ Paths \in SUBSET Paths
  OBVIOUS
<1>2. QED BY <1>1 DEF NewNode, MatchNodes

(* Tests and handlers may change. *)
LEMMA ChangedMatch ==
  ASSUME NEW tree, MatchesKept(tree), NEW n \in DOMAIN tree, NEW m \in MatchNodes,
         m.parent = tree[n].parent, m.children = tree[n].children,
         NEW t, t = [tree EXCEPT ![n] = m]
  PROVE  MatchesKept(t) /\ Len(t) = Len(tree)
<1>1. tree \in Seq(MatchNodes) /\ GoodMatches(tree)
  BY DEF MatchesKept
<1>2. t \in Seq(MatchNodes) /\ Len(t) = Len(tree) /\ DOMAIN t = DOMAIN tree
  BY <1>1
<1>3. \A x \in DOMAIN tree: t[x] = IF x = n THEN m ELSE tree[x]
  BY <1>1
<1>4. \A x \in DOMAIN tree: Kids(t, x) = Kids(tree, x) /\ ParentIn(t, x) = ParentIn(tree, x)
  BY <1>3 DEF Kids, ParentIn
<1>5. m.handlers \in Seq(Handlers)
  BY DEF MatchNodes
<1>6. \A x \in DOMAIN tree: Registry(tree, x) \in Seq(Handlers)
  BY <1>1 DEF GoodMatches
<1>7. \A x \in DOMAIN tree: Registry(t, x) \in Seq(Handlers)
  BY <1>3, <1>5, <1>6 DEF Registry
<1>8. Top \in DOMAIN tree
  BY <1>1 DEF GoodMatches, Top
<1>9. \A x \in DOMAIN tree: x # Top => ParentIn(tree, x) \in DOMAIN tree
  BY <1>1 DEF GoodMatches
<1>10. ASSUME NEW x \in DOMAIN t
       PROVE  /\ Kids(t, x) \in Seq(DOMAIN t) /\ Distinct(Kids(t, x))
              /\ \A i \in DOMAIN Kids(t, x): Kids(t, x)[i] > x /\ ParentIn(t, Kids(t, x)[i]) = x
              /\ Registry(t, x) \in Seq(Handlers)
              /\ x # Top => /\ ParentIn(t, x) \in DOMAIN t /\ ParentIn(t, x) < x
                            /\ \E i \in DOMAIN Kids(t, ParentIn(t, x)): Kids(t, ParentIn(t, x))[i] = x
  <2>1. PICK k: k = Kids(tree, x) /\ k = Kids(t, x)
    BY <1>2, <1>4
  <2>2. k \in Seq(DOMAIN tree) /\ Distinct(k) /\ \A i \in DOMAIN k: k[i] > x /\ ParentIn(tree, k[i]) = x
    BY <1>1, <1>2, <2>1 DEF GoodMatches
  <2>3. \A i \in DOMAIN k: k[i] \in DOMAIN tree
    BY <2>2, ElementOfSeq
  <2>4. \A i \in DOMAIN k: ParentIn(t, k[i]) = x
    BY <1>4, <2>2, <2>3
  <2>5. ASSUME x # Top
        PROVE  /\ ParentIn(t, x) \in DOMAIN t /\ ParentIn(t, x) < x
               /\ \E i \in DOMAIN Kids(t, ParentIn(t, x)): Kids(t, ParentIn(t, x))[i] = x
    <3>1. PICK p: p = ParentIn(tree, x) /\ p \in DOMAIN tree /\ p < x /\ \E i \in DOMAIN Kids(tree, p): Kids(tree, p)[i] = x
      BY <1>1, <1>2, <2>5 DEF GoodMatches
    <3>2. QED BY <1>2, <1>4, <3>1
  <2>6. QED BY <1>2, <1>7, <2>1, <2>2, <2>4, <2>5
<1>12. ParentIn(t, Top) = NoNode /\ Len(t) \in Nat \ {0} /\ DOMAIN t = 1..Len(t)
  BY <1>1, <1>2, <1>4, <1>8 DEF GoodMatches
<1>13. GoodMatches(t)
  BY <1>10, <1>12 DEF GoodMatches
<1>11. QED BY <1>2, <1>13 DEF MatchesKept

(* A match is added below another one. *)
LEMMA AddedMatch ==
  ASSUME NEW tree, MatchesKept(tree), NEW n \in DOMAIN tree,
         NEW c, c = Append(tree[n].children, Len(tree) + 1),
         NEW m, m = [tree[n] EXCEPT !.children = c],
         NEW t, t = Append([tree EXCEPT ![n] = m], NewNode(n))
  PROVE  MatchesKept(t) /\ Len(t) = Len(tree) + 1
<1>1. tree \in Seq(MatchNodes) /\ GoodMatches(tree)
  BY DEF MatchesKept
<1>2. PICK len: len = Len(tree) /\ len \in Nat /\ len # 0 /\ DOMAIN tree = 1..len
  BY <1>1 DEF GoodMatches
<1>3. PICK new: new = len + 1 /\ new \in Nat /\ new \notin DOMAIN tree /\ n \in Nat /\ n < new
  BY <1>2
<1>4. PICK k: k = tree[n].children /\ k = Kids(tree, n) /\ k \in Seq(DOMAIN tree) /\ Distinct(k)
  BY <1>1 DEF Kids, GoodMatches
<1>5. tree[n] \in MatchNodes
  BY <1>1, <1>2, ElementOfSeq
<1>6. k \in Seq(DOMAIN tree \cup {new}) /\ k \in Seq(Nat)
  <2>1. k \in Seq(Nat)
    <3>1. tree[n].children \in Seq(Nat)
      BY ONLY <1>5 DEF MatchNodes
    <3>2. QED BY <1>4, <3>1
  <2>2. DOMAIN tree \subseteq DOMAIN tree \cup {new}
    OBVIOUS
  <2>3. QED BY <1>4, <2>1, <2>2, WiderSeq
<1>7. PICK kl: kl = Len(k) /\ kl \in Nat /\ DOMAIN k = 1..kl
  BY ONLY <1>6
<1>8. c = Append(k, new)
  BY <1>2, <1>3, <1>4
<1>9. /\ c \in Seq(DOMAIN tree \cup {new}) /\ Len(c) = kl + 1
      /\ \A i \in 1..kl: c[i] = k[i]
      /\ c[kl + 1] = new
  BY ONLY <1>6, <1>7, <1>8, AppendIs
<1>10. c \in Seq(Nat)
  BY ONLY <1>3, <1>6, <1>8, AppendIs
<1>11. DOMAIN c = 1..(kl + 1)
  BY <1>7, <1>9
<1>12. \A i \in 1..kl: k[i] \in DOMAIN tree /\ k[i] # new
  BY <1>3, <1>4, <1>7, ElementOfSeq
<1>13. \A i \in 1..(kl + 1): i \in 1..kl \/ i = kl + 1
  BY <1>7
<1>14. Distinct(c)
  BY <1>4, <1>7, <1>9, <1>11, <1>12, <1>13 DEF Distinct
<1>15. m \in MatchNodes /\ m.parent = tree[n].parent /\ m.children = c /\ m.handlers = tree[n].handlers
  BY <1>5, <1>10 DEF MatchNodes
<1>16. PICK u: u = [tree EXCEPT ![n] = m] /\ u \in Seq(MatchNodes) /\ Len(u) = len /\ DOMAIN u = 1..len
               /\ \A x \in 1..len: u[x] = IF x = n THEN m ELSE tree[x]
  <2>1. PICK u: u = [tree EXCEPT ![n] = m]
    OBVIOUS
  <2>2. u \in Seq(MatchNodes) /\ Len(u) = Len(tree)
    BY <1>1, <1>15, <2>1
  <2>3. \A x \in DOMAIN tree: u[x] = IF x = n THEN m ELSE tree[x]
    BY <2>1
  <2>4. DOMAIN u = DOMAIN tree
    BY <2>1
  <2>5. QED BY <1>2, <2>1, <2>2, <2>3, <2>4
<1>17. NewNode(n) \in MatchNodes /\ NewNode(n).parent = n /\ NewNode(n).children = <<>> /\ NewNode(n).handlers = <<>>
  BY <1>3, NewNodeIs
<1>18. /\ t \in Seq(MatchNodes) /\ Len(t) = new
       /\ \A x \in 1..len: t[x] = u[x]
       /\ t[new] = NewNode(n)
  BY <1>3, <1>16, <1>17, AppendIs
<1>19. DOMAIN t = 1..new /\ DOMAIN t = DOMAIN tree \cup {new}
  BY <1>2, <1>3, <1>18
<1>20. \A x \in DOMAIN tree: /\ ParentIn(t, x) = ParentIn(tree, x) /\ Registry(t, x) = Registry(tree, x)
                             /\ x # n => Kids(t, x) = Kids(tree, x)
  BY <1>2, <1>15, <1>16, <1>18 DEF ParentIn, Registry, Kids
<1>21. Kids(t, n) = c /\ Kids(t, new) = <<>> /\ ParentIn(t, new) = n /\ Registry(t, new) = <<>>
  BY <1>2, <1>15, <1>16, <1>17, <1>18 DEF ParentIn, Registry, Kids
<1>22. /\ ParentIn(tree, Top) = NoNode /\ Top \in DOMAIN tree /\ Top # new
       /\ \A x \in DOMAIN tree:
            /\ Kids(tree, x) \in Seq(DOMAIN tree) /\ Distinct(Kids(tree, x))
            /\ \A i \in DOMAIN Kids(tree, x): Kids(tree, x)[i] > x /\ ParentIn(tree, Kids(tree, x)[i]) = x
            /\ Registry(tree, x) \in Seq(Handlers)
            /\ x # Top => /\ ParentIn(tree, x) \in DOMAIN tree /\ ParentIn(tree, x) < x
                          /\ \E i \in DOMAIN Kids(tree, ParentIn(tree, x)): Kids(tree, ParentIn(tree, x))[i] = x
  BY <1>1, <1>2, <1>3 DEF GoodMatches, Top
<1>23. ASSUME NEW x \in DOMAIN t
       PROVE  /\ Kids(t, x) \in Seq(DOMAIN t) /\ Distinct(Kids(t, x))
              /\ \A i \in DOMAIN Kids(t, x): Kids(t, x)[i] > x /\ ParentIn(t, Kids(t, x)[i]) = x
              /\ Registry(t, x) \in Seq(Handlers)
              /\ x # Top => /\ ParentIn(t, x) \in DOMAIN t /\ ParentIn(t, x) < x
                            /\ \E i \in DOMAIN Kids(t, ParentIn(t, x)): Kids(t, ParentIn(t, x))[i] = x
  <2>1. CASE x = new
    <3>1. <<>> \in Seq(DOMAIN t) /\ Distinct(<<>>) /\ <<>> \in Seq(Handlers) /\ DOMAIN <<>> = {}
      BY DEF Distinct
    <3>2. kl + 1 \in DOMAIN c /\ c[kl + 1] = new
      BY <1>7, <1>9, <1>11
    <3>3. n \in DOMAIN t
      BY <1>19
    <3>4. QED BY <1>3, <1>21, <2>1, <3>1, <3>2, <3>3
  <2>2. CASE x = n
    <3>1. \A i \in DOMAIN c: c[i] > n /\ ParentIn(t, c[i]) = n
      <4> TAKE i \in DOMAIN c
      <4>1. CASE i = kl + 1
        BY <1>3, <1>9, <1>21, <4>1
      <4>2. CASE i \in 1..kl
        <5>1. PICK y: y = c[i] /\ y = k[i] /\ y \in DOMAIN tree /\ i \in DOMAIN k
          BY <1>7, <1>9, <1>12, <4>2
        <5>2. \A j \in DOMAIN k: k[j] > n /\ ParentIn(tree, k[j]) = n
          BY <1>4, <1>22
        <5>3. y > n /\ ParentIn(tree, y) = n
          BY ONLY <5>1, <5>2
        <5>4. ParentIn(t, y) = n
          BY <1>20, <5>1, <5>3
        <5>5. QED BY <5>1, <5>3, <5>4
      <4>3. QED BY <1>11, <1>13, <4>1, <4>2
    <3>2. Kids(t, x) \in Seq(DOMAIN t) /\ Distinct(Kids(t, x)) /\ Registry(t, x) \in Seq(Handlers)
      BY <1>9, <1>14, <1>19, <1>20, <1>21, <1>22, <2>2
    <3>3. ASSUME n # Top
          PROVE  /\ ParentIn(t, n) \in DOMAIN t /\ ParentIn(t, n) < n
                 /\ \E i \in DOMAIN Kids(t, ParentIn(t, n)): Kids(t, ParentIn(t, n))[i] = n
      <4>1. PICK p: p = ParentIn(tree, n) /\ p \in DOMAIN tree /\ p < n /\ \E i \in DOMAIN Kids(tree, p): Kids(tree, p)[i] = n
        BY <1>22, <3>3
      <4>2. p # n
        BY <1>2, <4>1
      <4>3. ParentIn(t, n) = p /\ Kids(t, p) = Kids(tree, p) /\ p \in DOMAIN t
        BY <1>19, <1>20, <4>1, <4>2
      <4>4. QED BY <4>1, <4>3
    <3>4. \A i \in DOMAIN Kids(t, n): Kids(t, n)[i] > n /\ ParentIn(t, Kids(t, n)[i]) = n
      BY ONLY <1>21, <3>1
    <3>5. QED BY ONLY <2>2, <3>2, <3>3, <3>4
  <2>3. CASE x \in DOMAIN tree /\ x # n
    <3>1. Kids(t, x) = Kids(tree, x) /\ ParentIn(t, x) = ParentIn(tree, x) /\ Registry(t, x) = Registry(tree, x)
      BY <1>20, <2>3
    <3>2. Kids(t, x) \in Seq(DOMAIN t)
      <4>1. PICK y: y = Kids(tree, x) /\ y \in Seq(DOMAIN tree)
        BY <1>22, <2>3
      <4>2. y \in Seq(DOMAIN tree \cup {new})
        BY <4>1
      <4>3. QED BY <1>19, <3>1, <4>1, <4>2
    <3>3. \A i \in DOMAIN Kids(tree, x): Kids(tree, x)[i] \in DOMAIN tree
      BY <1>22, <2>3, ElementOfSeq
    <3>4. \A i \in DOMAIN Kids(t, x): Kids(t, x)[i] > x /\ ParentIn(t, Kids(t, x)[i]) = x
      <4>1. PICK y: y = Kids(tree, x) /\ y = Kids(t, x)
        BY <3>1
      <4>2. \A i \in DOMAIN y: y[i] > x /\ ParentIn(tree, y[i]) = x /\ y[i] \in DOMAIN tree
        BY <1>22, <2>3, <3>3, <4>1
      <4>3. \A i \in DOMAIN y: ParentIn(t, y[i]) = x
        BY <1>20, <4>2
      <4>4. QED BY <4>1, <4>2, <4>3
    <3>5. ASSUME x # Top
          PROVE  /\ ParentIn(t, x) \in DOMAIN t /\ ParentIn(t, x) < x
                 /\ \E i \in DOMAIN Kids(t, ParentIn(t, x)): Kids(t, ParentIn(t, x))[i] = x
      <4>1. PICK p: p = ParentIn(tree, x) /\ p \in DOMAIN tree /\ p < x /\ \E i \in DOMAIN Kids(tree, p): Kids(tree, p)[i] = x
        BY <1>22, <2>3, <3>5
      <4>2. PICK i \in DOMAIN Kids(tree, p): Kids(tree, p)[i] = x
        BY <4>1
      <4>3. i \in DOMAIN Kids(t, p) /\ Kids(t, p)[i] = x
        <5>1. CASE p = n
          <6>1. i \in 1..kl /\ k[i] = x
            BY <1>4, <1>7, <4>2, <5>1
          <6>2. i \in 1..(kl + 1) /\ c[i] = x
            BY <1>7, <1>9, <6>1
          <6>3. QED BY <1>11, <1>21, <5>1, <6>2
        <5>2. CASE p # n
          BY <1>20, <4>1, <4>2, <5>2
        <5>3. QED BY <5>1, <5>2
      <4>4. QED BY <1>19, <3>1, <4>1, <4>3
    <3>6. QED BY <1>22, <2>3, <3>1, <3>2, <3>4, <3>5
  <2>4. QED BY <1>19, <2>1, <2>2, <2>3
<1>24. ParentIn(t, Top) = NoNode
  BY <1>20, <1>22
<1>25. Len(t) \in Nat \ {0} /\ DOMAIN t = 1..Len(t)
  BY <1>3, <1>18, <1>19
<1>26. GoodMatches(t)
  BY <1>23, <1>24, <1>25 DEF GoodMatches
<1>27. QED BY <1>2, <1>3, <1>18, <1>26 DEF MatchesKept

(* The tree stays good while matches and handlers are added. *)
TreeKept == MatchesKept(nodes) /\ Len(nodes) <= MaxNodes /\ current \in 0..Len(nodes)

(* The server starts with a match that has no handlers. *)
LEMMA StartsWithTop == Init => TreeKept
<1> SUFFICES ASSUME Init PROVE TreeKept
  OBVIOUS
<1>1. PICK m: m = NewNode(NoNode)
  OBVIOUS
<1>2. m \in MatchNodes /\ m.parent = NoNode /\ m.children = <<>> /\ m.handlers = <<>>
  BY <1>1, NewNodeIs DEF NoNode
<1>3. nodes = <<m>> /\ current = Top
  BY <1>1 DEF Init
<1>4. <<m>> \in Seq(MatchNodes) /\ Len(<<m>>) = 1 /\ <<m>>[1] = m
  BY <1>2
<1>5. nodes \in Seq(MatchNodes) /\ Len(nodes) = 1 /\ nodes[1] = m /\ DOMAIN nodes = 1..1
  BY <1>3, <1>4
<1>6. Kids(nodes, 1) = <<>> /\ Registry(nodes, 1) = <<>> /\ ParentIn(nodes, 1) = NoNode
  BY <1>2, <1>5 DEF Kids, Registry, ParentIn
<1>7. <<>> \in Seq(DOMAIN nodes) /\ <<>> \in Seq(Handlers) /\ DOMAIN <<>> = {} /\ Distinct(<<>>)
  BY DEF Distinct
<1>8. \A n \in 1..1: n = 1
  OBVIOUS
<1>12. ASSUME NEW x \in DOMAIN nodes
       PROVE  /\ Kids(nodes, x) \in Seq(DOMAIN nodes) /\ Distinct(Kids(nodes, x))
              /\ \A i \in DOMAIN Kids(nodes, x): Kids(nodes, x)[i] > x /\ ParentIn(nodes, Kids(nodes, x)[i]) = x
              /\ Registry(nodes, x) \in Seq(Handlers) /\ x = Top
  <2>1. x = 1
    BY <1>5, <1>8
  <2>2. QED BY <1>6, <1>7, <2>1 DEF Top
<1>13. Len(nodes) \in Nat \ {0} /\ DOMAIN nodes = 1..Len(nodes) /\ ParentIn(nodes, Top) = NoNode
  BY <1>5, <1>6 DEF Top
<1>9. GoodMatches(nodes)
  BY <1>12, <1>13 DEF GoodMatches
<1>10. MaxNodes \in Nat \ {0}
  BY HttpServerAssumption
<1>11. QED
  <2>1. Len(nodes) <= MaxNodes /\ current \in 0..Len(nodes)
    BY <1>3, <1>5, <1>10 DEF Top
  <2>2. QED BY <1>5, <1>9, <2>1 DEF TreeKept, MatchesKept

(* What is needed of it most. *)
LEMMA TreeIs ==
  ASSUME TreeKept
  PROVE  /\ Len(nodes) \in Nat /\ DOMAIN nodes = 1..Len(nodes)
         /\ \A n \in DOMAIN nodes:
              /\ n \in Nat /\ n # 0 /\ nodes[n] \in MatchNodes
              /\ n # Top => nodes[n].parent \in DOMAIN nodes
<1>1. nodes \in Seq(MatchNodes) /\ GoodMatches(nodes)
  BY DEF TreeKept, MatchesKept
<1>2. Len(nodes) \in Nat /\ DOMAIN nodes = 1..Len(nodes)
  BY <1>1
<1>3. \A n \in DOMAIN nodes: n # Top => nodes[n].parent \in DOMAIN nodes
  BY <1>1 DEF GoodMatches, ParentIn
<1>4. \A n \in DOMAIN nodes: n \in Nat /\ n # 0
  BY <1>2
<1>5. QED BY <1>1, <1>2, <1>3, <1>4, ElementOfSeq

(* What is registered leaves a tree. *)
LEMMA RegistrationKeepsTree ==
  ASSUME TreeKept, Configure
  PROVE  TreeKept'
<1>0. MatchesKept(nodes) /\ Len(nodes) <= MaxNodes /\ current \in 0..Len(nodes)
  BY DEF TreeKept
<1>1. MaxNodes \in Nat
  BY HttpServerAssumption
<1>2. PICK len: len = Len(nodes) /\ len \in Nat /\ DOMAIN nodes = 1..len
  BY TreeIs
<1>3. ASSUME current # 0 PROVE current \in DOMAIN nodes /\ nodes[current] \in MatchNodes
  <2>1. current \in DOMAIN nodes
    BY <1>0, <1>2, <1>3
  <2>2. QED BY <2>1, TreeIs
<1>4. ASSUME current # 0, NEW m \in MatchNodes,
             m.parent = nodes[current].parent, m.children = nodes[current].children,
             nodes' = [nodes EXCEPT ![current] = m]
      PROVE  MatchesKept(nodes)' /\ Len(nodes') = Len(nodes)
  <2>1. MatchesKept(nodes') /\ Len(nodes') = Len(nodes)
    BY <1>0, <1>3, <1>4, ChangedMatch
  <2>2. QED BY <2>1
<1>5. ASSUME NEW p \in Paths, AddMatch(p) PROVE TreeKept'
  <2> DEFINE m == [nodes[current] EXCEPT !.test_list = @ \cup {p}, !.tester = Paths]
  <2>1. current # 0 /\ current' = current
    BY <1>5 DEF AddMatch
  <2>2. nodes' = [nodes EXCEPT ![current] = m]
    BY <1>5 DEF AddMatch
  <2>3. m \in MatchNodes /\ m.parent = nodes[current].parent /\ m.children = nodes[current].children
    <3>1. nodes[current] \in MatchNodes
      BY <1>3, <2>1
    <3>2. QED BY <3>1 DEF MatchNodes
  <2> HIDE DEF m
  <2>4. MatchesKept(nodes)' /\ Len(nodes') = Len(nodes)
    BY <1>4, <2>1, <2>2, <2>3
  <2>5. QED BY <1>0, <2>1, <2>4 DEF TreeKept
<1>6. ASSUME MatchSave PROVE TreeKept'
  <2> DEFINE new == Len(nodes) + 1
             c == Append(nodes[current].children, new)
             m == [nodes[current] EXCEPT !.children = c]
  <2>1. current # 0 /\ Len(nodes) < MaxNodes /\ current' = new
    BY <1>6 DEF MatchSave
  <2>2. nodes' = Append([nodes EXCEPT ![current] = m], NewNode(current))
    BY <1>6 DEF MatchSave
  <2>3. MatchesKept(nodes') /\ Len(nodes') = new
    <3>1. current \in DOMAIN nodes
      BY <1>3, <2>1
    <3>2. c = Append(nodes[current].children, Len(nodes) + 1) /\ m = [nodes[current] EXCEPT !.children = c]
      OBVIOUS
    <3> HIDE DEF m, c
    <3>3. MatchesKept(nodes') /\ Len(nodes') = Len(nodes) + 1
      BY <1>0, <2>2, <3>1, <3>2, AddedMatch
    <3>4. QED BY <3>3
  <2>4. new \in 0..new /\ new <= MaxNodes
    BY <1>1, <1>2, <2>1
  <2> HIDE DEF new
  <2>5. QED BY <2>1, <2>3, <2>4 DEF TreeKept
<1>7. ASSUME MatchRestore PROVE TreeKept'
  <2> DEFINE tests == nodes[current].test_list
             m == [nodes[current] EXCEPT !.test_list = {}, !.tester = IF tests = {} THEN Paths ELSE tests]
  <2>1. current # 0 /\ current # Top /\ current' = nodes[current].parent
    BY <1>7 DEF MatchRestore
  <2>2. nodes' = [nodes EXCEPT ![current] = m]
    BY <1>7 DEF MatchRestore
  <2>3. m \in MatchNodes /\ m.parent = nodes[current].parent /\ m.children = nodes[current].children
    <3>1. nodes[current] \in MatchNodes
      BY <1>3, <2>1
    <3>2. QED BY <3>1 DEF MatchNodes
  <2> HIDE DEF m
  <2>4. MatchesKept(nodes)' /\ Len(nodes') = Len(nodes)
    BY <1>4, <2>1, <2>2, <2>3
  <2>5. current' \in 0..Len(nodes)
    <3>1. PICK p: p = nodes[current].parent /\ p \in DOMAIN nodes
      BY <1>3, <2>1, TreeIs
    <3>2. p \in 0..Len(nodes)
      BY <1>2, <3>1
    <3>3. QED BY <2>1, <3>1, <3>2
  <2>6. QED BY <1>0, <2>4, <2>5 DEF TreeKept
<1>8. ASSUME NEW type \in HandlerTypes, RegisterHandler(type) PROVE TreeKept'
  <2> DEFINE hs == nodes[current].handlers
             h == [type |-> type, id |-> <<current, Len(hs) + 1>>]
             m == [nodes[current] EXCEPT !.handlers = Append(hs, h)]
  <2>1. current # 0 /\ current' = current
    BY <1>8 DEF RegisterHandler
  <2>2. nodes' = [nodes EXCEPT ![current] = m]
    BY <1>8 DEF RegisterHandler
  <2>3. nodes[current] \in MatchNodes /\ current \in Nat
    BY <1>3, <2>1, TreeIs
  <2>4. hs \in Seq(Handlers)
    BY <2>3 DEF MatchNodes
  <2>5. h \in Handlers
    <3>1. Len(hs) + 1 \in Nat
      BY <2>4, LenProperties
    <3>2. QED BY <2>3, <3>1 DEF Handlers
  <2>6. Append(hs, h) \in Seq(Handlers)
    BY <2>4, <2>5, AppendIs
  <2> HIDE DEF hs, h
  <2>7. m \in MatchNodes /\ m.parent = nodes[current].parent /\ m.children = nodes[current].children
    BY <2>3, <2>6 DEF MatchNodes
  <2> HIDE DEF m
  <2>8. MatchesKept(nodes)' /\ Len(nodes') = Len(nodes)
    BY <1>4, <2>1, <2>2, <2>7
  <2>9. QED BY <1>0, <2>1, <2>8 DEF TreeKept
<1>9. ASSUME Listen PROVE TreeKept'
  <2>1. nodes' = nodes /\ current' = 0
    BY <1>9 DEF Listen
  <2>2. 0 \in 0..Len(nodes)
    BY <1>2
  <2>3. QED BY <1>0, <2>1, <2>2 DEF TreeKept
<1>10. QED BY <1>5, <1>6, <1>7, <1>8, <1>9 DEF Configure

-----------------------------------------------------------------------------
(* Requests on their walk along the tree. *)

(* Post data of a CGI request would be awaited for ever. *)
Servable(path, kind) ==
  LET order == OrderIn(nodes, path)
  IN  kind = "post" => \A i \in DOMAIN order: order[i].type # "CGI"
More(path, kind, c) == Len(c) < Len(ToTryIn(OrderIn(nodes, path), kind))

(* Handler h of node n was tried last, or is the one to try now. *)
InHand(path, n, h, kind, c) ==
  /\ Servable(path, kind)
  /\ \E k: At(nodes, path, n, h, k) /\ Tried(OrderIn(nodes, path), kind, k, c)
Ready(path, n, h, kind, c) ==
  /\ Servable(path, kind) /\ More(path, kind, c)
  /\ \E k \in Nat: At(nodes, path, n, h, k + 1) /\ Tried(OrderIn(nodes, path), kind, k, c)

(* The handler that is reached is called if it suits, and passed if not. *)
LEMMA InvokeStep ==
  ASSUME GoodMatches(nodes), NEW path, NEW n, NEW h, NEW kind, NEW c, Ready(path, n, h, kind, c),
         NEW handler, handler = nodes[n].handlers[h]
  PROVE  /\ Suits(kind, handler.type) => InHand(path, n, h, kind, Append(c, handler.id))
         /\ ~Suits(kind, handler.type) => InHand(path, n, h, kind, c) /\ More(path, kind, c)
         /\ ~(kind = "post" /\ handler.type = "CGI")
<1>1. PICK order: order = OrderIn(nodes, path)
  OBVIOUS
<1>2. PICK k \in Nat: At(nodes, path, n, h, k + 1) /\ Tried(order, kind, k, c)
  BY <1>1 DEF Ready
<1>3. PICK i: i = k + 1
  OBVIOUS
<1>4. order \in Seq(Handlers) /\ i \in 1..Len(order) /\ order[i] = handler
  BY <1>1, <1>2, <1>3, WalkIsThere DEF Registry
<1>5. k \in 0..Len(order)
  BY <1>2 DEF Tried
<1>6. /\ Suits(kind, handler.type) => Tried(order, kind, i, Append(c, handler.id))
      /\ ~Suits(kind, handler.type) => Tried(order, kind, i, c)
  BY <1>2, <1>3, <1>4, <1>5, TriedNext
<1>7. Servable(path, kind) /\ More(path, kind, c) /\ At(nodes, path, n, h, i)
  BY <1>2, <1>3 DEF Ready
<1>8. ~(kind = "post" /\ handler.type = "CGI")
  <2>1. i \in DOMAIN order
    BY <1>4
  <2>2. QED BY <1>1, <1>4, <1>7, <2>1 DEF Servable
<1>9. QED BY <1>1, <1>6, <1>7, <1>8 DEF InHand

(* When more are to be tried, the handler after this one is ready. *)
LEMMA PassStep ==
  ASSUME GoodMatches(nodes), NEW path, NEW n, NEW h, NEW kind, NEW c, InHand(path, n, h, kind, c),
         More(path, kind, c)
  PROVE  /\ h < Len(nodes[n].handlers) => Ready(path, n, h + 1, kind, c)
         /\ \A m: ~(h < Len(nodes[n].handlers)) /\ m = NextMatch(n, path) =>
              m # NoNode /\ Ready(path, m, 1, kind, c)
<1>1. PICK order: order = OrderIn(nodes, path)
  OBVIOUS
<1>2. PICK k: At(nodes, path, n, h, k) /\ Tried(order, kind, k, c)
  BY <1>1 DEF InHand
<1>3. order \in Seq(Handlers) /\ k \in 1..Len(order)
  BY <1>1, <1>2, WalkIsThere
<1>4. k \in Nat
  BY <1>3
<1>5. Servable(path, kind)
  BY DEF InHand
<1>6. k # Len(order)
  <2>1. k = Len(order) => Len(ToTryIn(order, kind)) = Len(c)
    BY <1>2, <1>3, TriedIsPrefix
  <2>2. Len(c) < Len(ToTryIn(order, kind))
    BY <1>1 DEF More
  <2>3. c \in Seq(Ids)
    BY <1>2 DEF Tried
  <2>4. Len(c) \in Nat
    BY <2>3, LenProperties
  <2>5. QED BY <2>1, <2>2, <2>4
<1>7. ASSUME h < Len(nodes[n].handlers) PROVE Ready(path, n, h + 1, kind, c)
  <2>1. At(nodes, path, n, h + 1, k + 1)
    BY <1>2, <1>7, WalkGoesOn DEF Registry
  <2>2. QED BY <1>1, <1>2, <1>4, <1>5, <2>1 DEF Ready
<1>8. ASSUME NEW m, ~(h < Len(nodes[n].handlers)), m = NextMatch(n, path)
      PROVE  m # NoNode /\ Ready(path, m, 1, kind, c)
  <2>1. m = NextIn(nodes, n, path)
    BY <1>8, InTheTree
  <2>2. IF m = NoNode THEN k = Len(order) ELSE At(nodes, path, m, 1, k + 1)
    BY <1>1, <1>2, <1>8, <2>1, WalkGoesOn DEF Registry
  <2>3. m # NoNode /\ At(nodes, path, m, 1, k + 1)
    BY <1>6, <2>2
  <2>4. QED BY <1>1, <1>2, <1>4, <1>5, <2>3 DEF Ready
<1>9. QED BY <1>7, <1>8

(* When some are to be tried, the first one is ready. *)
LEMMA StartStep ==
  ASSUME GoodMatches(nodes), NEW path, NEW kind, CanServe(kind, path, 0),
         NEW m, m = FirstMatch(path)[Top]
  PROVE  m # NoNode /\ Ready(path, m, 1, kind, <<>>)
<1>1. PICK order: order = OrderIn(nodes, path) /\ order = TryOrder(path) /\ ToTry(kind, path) = ToTryIn(order, kind)
  BY InTheTree
<1>2. Servable(path, kind)
  BY <1>1 DEF CanServe, Servable
<1>3. Len(<<>>) = 0
  OBVIOUS
<1>4. More(path, kind, <<>>)
  BY <1>1, <1>3 DEF CanServe, More
<1>5. m = FirstIn(nodes, path)[Top]
  BY InTheTree
<1>6. order \in Seq(Handlers) /\ (m = NoNode => order = <<>>) /\ (m # NoNode => At(nodes, path, m, 1, 1))
  BY <1>1, <1>5, WalkStarts
<1>7. Tried(order, kind, 0, <<>>)
  BY <1>6, TriedFirst
<1>8. m # NoNode
  <2>1. SUFFICES ASSUME m = NoNode PROVE FALSE
    OBVIOUS
  <2>2. Len(order) = 0
    BY <1>3, <1>6, <2>1
  <2>3. PICK z: z = Len(ToTryIn(order, kind))
    OBVIOUS
  <2>4. z = 0
    <3>1. Tried(order, kind, Len(order), <<>>)
      BY <1>7, <2>2
    <3>2. PICK k, c: k = Len(order) /\ c = <<>> /\ Tried(order, kind, k, c)
      BY <3>1
    <3>3. Tried(order, kind, k, c) /\ k = Len(order)
      BY <3>2
    <3>4. order \in Seq(Handlers)
      BY <1>6
    <3>5. Len(ToTryIn(order, kind)) = Len(c)
      BY ONLY <3>3, <3>4, TriedIsPrefix
    <3>6. QED BY <1>3, <2>3, <3>2, <3>5
  <2>5. 0 < z
    BY <1>1, <1>3, <1>4, <2>3 DEF More
  <2>6. QED BY ONLY <2>4, <2>5
<1>9. 0 \in Nat /\ 0 + 1 = 1
  OBVIOUS
<1>10. QED BY <1>1, <1>2, <1>4, <1>6, <1>7, <1>8, <1>9 DEF Ready

(* A handler that can be served after those tried remains to be tried. *)
LEMMA MoreToTry ==
  ASSUME NEW path, NEW kind, NEW c, CanServe(kind, path, Len(c))
  PROVE  More(path, kind, c)
BY InTheTree DEF CanServe, More

(* A request, its transfer and the handlers that were called for it. *)
WalkGood(state, path, n, h, kind, c) ==
  /\ state \notin {"INIT", "NEED_POST_DATA"}
  /\ IF state = "BLOCKED_INTERNAL_REDIRECT" THEN Ready(path, n, h, kind, c)
     ELSE InHand(path, n, h, kind, c)
  /\ state = "BLOCKED_PASS" => More(path, kind, c)
WalkKept(q, x, c) ==
  /\ q.path \in Paths /\ q.state \in States /\ x.kind \in Kinds \cup {"get"}
  /\ IF x.returned THEN WalkGood(q.state, q.path, q.node, q.handler, x.kind, c) ELSE c = <<>>

(* The handlers called are the first to try. *)
LEMMA CalledFirst ==
  ASSUME GoodMatches(nodes), NEW q, NEW x, NEW c, WalkKept(q, x, c)
  PROVE  IsPrefix(c, ToTry(x.kind, q.path))
<1>1. PICK order: order = OrderIn(nodes, q.path) /\ order \in Seq(Handlers) /\ ToTry(x.kind, q.path) = ToTryIn(order, x.kind)
  BY InTheTree, WalkStarts
<1>2. \E k: Tried(order, x.kind, k, c)
  <2>1. CASE x.returned
    <3>1. WalkGood(q.state, q.path, q.node, q.handler, x.kind, c)
      BY <2>1 DEF WalkKept
    <3>2. QED BY <1>1, <3>1 DEF WalkGood, Ready, InHand
  <2>2. CASE ~x.returned
    <3>1. c = <<>>
      BY <2>2 DEF WalkKept
    <3>2. QED BY <1>1, <3>1, TriedFirst
  <2>3. QED BY <2>1, <2>2
<1>3. QED BY <1>1, <1>2, TriedIsPrefix

-----------------------------------------------------------------------------
(* What the functions that handle a request do with its walk. *)

(* Flags and states change without a move along the tree. *)
SamePlace(e, q) == e.path = q.path /\ e.node = q.node /\ e.handler = q.handler

(* What changes flags and states leaves the place alone. *)
LEMMA PlaceKept ==
  ASSUME NEW q, IsRequest(q), NEW s
  PROVE  /\ SamePlace(MaybeFree(q), q) /\ SamePlace(TransferDestroyed(q), q)
         /\ SamePlace(NotDue(q), q) /\ SamePlace(InState(q, s), q)
         /\ SamePlace(Returned(q), q) /\ SamePlace(Live(q), q)
         /\ SamePlace(ErrorBlocked(q), q) /\ SamePlace(PassBlocked(q), q)
         /\ SamePlace(Blocked(q, s), q) /\ SamePlace(Begun(q, s), q)
<1>1. \A p: IsRequest(p) => SamePlace(MaybeFree(p), p)
  <2> SUFFICES ASSUME NEW p, IsRequest(p) PROVE SamePlace(MaybeFree(p), p)
    OBVIOUS
  <2>1. MaybeFree(p) = p \/ MaybeFree(p) = [p EXCEPT !.mem = "freed"]
    BY DEF MaybeFree
  <2>2. QED BY <2>1 DEF IsRequest, SamePlace
<1>2. SamePlace(TransferDestroyed(q), q)
  <2> DEFINE d == [q EXCEPT !.got_transfer_destroy = TRUE]
  <2>1. IsRequest(d)
    BY WithDestroyed
  <2>2. SamePlace(d, q)
    BY DEF IsRequest, SamePlace
  <2>3. TransferDestroyed(q) = MaybeFree(d)
    BY DEF TransferDestroyed
  <2> HIDE DEF d
  <2>4. QED BY <1>1, <2>1, <2>2, <2>3 DEF SamePlace
<1>3. SamePlace(NotDue(q), q) /\ SamePlace(InState(q, s), q)
  BY DEF IsRequest, SamePlace, NotDue, InState
<1>4. SamePlace(Returned(q), q) /\ SamePlace(Live(q), q)
  BY DEF IsRequest, SamePlace, Returned, Live
<1>5. SamePlace(ErrorBlocked(q), q) /\ SamePlace(PassBlocked(q), q)
  BY DEF IsRequest, SamePlace, ErrorBlocked, PassBlocked
<1>6. SamePlace(Blocked(q, s), q) /\ SamePlace(Begun(q, s), q)
  BY DEF IsRequest, SamePlace, Blocked, Begun
<1>7. QED BY <1>1, <1>2, <1>3, <1>4, <1>5, <1>6

(* A request, its transfer and the handlers called for it stay on the walk. *)
LEMMA WalkStays ==
  ASSUME NEW q, NEW x, NEW c, WalkKept(q, x, c), NEW e, SamePlace(e, q), e.state = q.state,
         NEW y, y.kind = x.kind, y.returned = x.returned
  PROVE  WalkKept(e, y, c)
BY DEF WalkKept, SamePlace

(* States between which nothing is tried. *)
Settled == {"INVOKING", "WAITING", "BLOCKED_ERROR", "GOT_RESPONSE_WHILE_INVOKING", "GOT_RESPONSE"}

(* A request that settles, in a state where it is with a handler, walks *)
(* on. *)
LEMMA WalkSettles ==
  ASSUME NEW q, NEW x, NEW c, WalkKept(q, x, c), x.returned, q.state # "BLOCKED_INTERNAL_REDIRECT",
         NEW e, SamePlace(e, q), e.state \in Settled,
         NEW y, y.kind = x.kind, y.returned = x.returned
  PROVE  WalkKept(e, y, c)
<1>1. WalkGood(q.state, q.path, q.node, q.handler, x.kind, c)
  BY DEF WalkKept
<1>2. InHand(e.path, e.node, e.handler, y.kind, c)
  BY <1>1 DEF WalkGood, SamePlace
<1>3. WalkGood(e.state, e.path, e.node, e.handler, y.kind, c)
  BY <1>2 DEF WalkGood, Settled
<1>4. e.path \in Paths /\ y.kind \in Kinds \cup {"get"}
  BY DEF WalkKept, SamePlace
<1>5. e.state \in States
  BY DEF Settled, States
<1>6. QED BY <1>3, <1>4, <1>5 DEF WalkKept

(* A world in which request s is on its walk, and the shape of the rest. *)
Walks(w, s) == WalkKept(w.rreq[s], w.xfer[s], w.called[s])
Recorded(w) == w.called = [s \in Requests |-> w.called[s]] /\ w.open \in BOOLEAN

(* The requests but r are on their walk; and all of them, unless C did not *)
(* survive in a way that ServerInv excludes. *)
Going(w, r) ==
  IsWorld(w) /\ w.fault = "none" /\ Recorded(w) /\ \A s \in Requests \ {r}: Walks(w, s)
Late == {"responded twice", "assertion", "used after free"}
Goes(w) ==
  /\ w.fault \in Late \cup {"none"}
  /\ w.fault = "none" => Recorded(w) /\ \A s \in Requests: Walks(w, s)

(* When all requests but r are on their walks, and r is, all are. *)
LEMMA GoingGoes ==
  ASSUME NEW w, NEW r, Going(w, r), Walks(w, r)
  PROVE  Goes(w)
BY DEF Going, Goes

(* A late answer stops the server: nothing need be said then. *)
LEMMA LateGoes ==
  ASSUME NEW w, w.fault \in Late
  PROVE  Goes(w)
BY DEF Goes, Late

(* What is recorded stays. *)
SameRecord(v, w) == v.open = w.open /\ v.called = w.called

(* Changes of requests, transfers, stack and queue leave the records *)
(* alone. *)
LEMMA RecordStays ==
  ASSUME NEW w, IsWorld(w), NEW r, NEW q
  PROVE  /\ SameRecord(WithRequest(w, r, q), w) /\ SameRecord(WithTransfer(w, r, q), w)
         /\ SameRecord(WithStack(w, q), w) /\ SameRecord(WithQueue(w, q), w)
         /\ SameRecord(StartTransfers(w), w)
<1>1. SameRecord(WithRequest(w, r, q), w) /\ SameRecord(WithTransfer(w, r, q), w)
  BY DEF IsWorld, SameRecord, WithRequest, WithTransfer
<1>2. SameRecord(WithStack(w, q), w) /\ SameRecord(WithQueue(w, q), w)
  BY DEF IsWorld, SameRecord, WithStack, WithQueue
<1>3. ASSUME NEW a, NEW b, NEW c PROVE SameRecord([w EXCEPT !.queue = a, !.rreq = b, !.xfer = c], w)
  BY DEF IsWorld, SameRecord
<1>4. SameRecord(StartTransfers(w), w)
  BY <1>3 DEF StartTransfers
<1>5. QED BY <1>1, <1>2, <1>4

(* The walk of the others goes on when r changes, *)
LEMMA GoingWithRequest ==
  ASSUME NEW r \in Requests, NEW w, Going(w, r), NEW e, IsRequest(e),
         NEW v, v = WithRequest(w, r, e)
  PROVE  /\ Going(v, r) /\ v.rreq[r] = e /\ v.xfer = w.xfer /\ v.called = w.called
         /\ v.freed = w.freed
<1>1. /\ IsWorld(v) /\ Unmoved(v, w) /\ OthersSame(v, w, r)
      /\ v.rreq[r] = e /\ v.xfer = w.xfer
  BY WorldWithRequest DEF Going
<1>2. SameRecord(v, w)
  BY RecordStays DEF Going
<1>3. \A s \in Requests \ {r}: Walks(v, s)
  BY <1>1, <1>2 DEF OthersSame, SameRecord, Walks, Going
<1>4. QED BY <1>1, <1>2, <1>3 DEF Going, Unmoved, SameRecord, Recorded

(* and when its transfer does. *)
LEMMA GoingWithTransfer ==
  ASSUME NEW r \in Requests, NEW w, Going(w, r), NEW y \in Transfers,
         NEW v, v = WithTransfer(w, r, y)
  PROVE  /\ Going(v, r) /\ v.xfer[r] = y /\ v.rreq = w.rreq /\ v.called = w.called
         /\ v.freed = w.freed
<1>1. /\ IsWorld(v) /\ Unmoved(v, w) /\ OthersSame(v, w, r)
      /\ v.xfer[r] = y /\ v.rreq = w.rreq
  BY WorldWithTransfer DEF Going
<1>2. SameRecord(v, w)
  BY RecordStays DEF Going
<1>3. \A s \in Requests \ {r}: Walks(v, s)
  BY <1>1, <1>2 DEF OthersSame, SameRecord, Walks, Going
<1>4. QED BY <1>1, <1>2, <1>3 DEF Going, Unmoved, SameRecord, Recorded

(* Starting transfers moves nobody. *)
StaysThere(v, w, s) ==
  /\ SamePlace(v.rreq[s], w.rreq[s]) /\ v.rreq[s].state = w.rreq[s].state
  /\ v.xfer[s].kind = w.xfer[s].kind /\ v.xfer[s].returned = w.xfer[s].returned
  /\ v.called[s] = w.called[s]

(* A request that stays where it is stays on its walk. *)
LEMMA WalksOn ==
  ASSUME NEW v, NEW w, NEW s, StaysThere(v, w, s), Walks(w, s)
  PROVE  Walks(v, s)
<1>1. WalkKept(v.rreq[s], v.xfer[s], w.called[s])
  BY WalkStays DEF StaysThere, Walks
<1>2. QED BY <1>1 DEF StaysThere, Walks

(* dsk-http-server-stream.c starts responses: nobody moves. *)
LEMMA StartTransfersStays ==
  ASSUME NEW w, IsWorld(w), NEW v, v = StartTransfers(w)
  PROVE  /\ IsWorld(v) /\ v.fault = w.fault /\ SameRecord(v, w) /\ v.freed = w.freed
         /\ \A s \in Requests: StaysThere(v, w, s)
<1>1. IsWorld(v) /\ Unmoved(v, w) /\ \A s \in Requests: StaysOrEnds(v, w, s)
  BY StartTransfersGives
<1>2. SameRecord(v, w)
  BY RecordStays
<1>3. ASSUME NEW s \in Requests PROVE StaysThere(v, w, s)
  <2>1. IsRequest(w.rreq[s]) /\ w.xfer[s] \in Transfers
    BY DEF IsWorld
  <2>2. v.called[s] = w.called[s]
    BY <1>2 DEF SameRecord
  <2>3. CASE v.rreq[s] = w.rreq[s] /\ v.xfer[s] = w.xfer[s]
    BY <2>2, <2>3 DEF StaysThere, SamePlace
  <2>4. CASE /\ v.rreq[s] = TransferDestroyed(w.rreq[s])
             /\ v.xfer[s] = [w.xfer[s] EXCEPT !.mem = "freed"]
    <3>1. SamePlace(v.rreq[s], w.rreq[s]) /\ v.rreq[s].state = w.rreq[s].state
      BY <2>1, <2>4, PlaceKept, TransferDestroyedIs
    <3>2. v.xfer[s].kind = w.xfer[s].kind /\ v.xfer[s].returned = w.xfer[s].returned
      BY <2>1, <2>4 DEF Transfers
    <3>3. QED BY <2>2, <3>1, <3>2 DEF StaysThere
  <2>5. QED BY <1>1, <2>3, <2>4 DEF StaysOrEnds
<1>4. QED BY <1>1, <1>2, <1>3 DEF Unmoved

(* dsk_http_server_stream_respond leaves requests where they are. *)
LEMMA StreamRespondStays ==
  ASSUME NEW r \in Requests, NEW w, Going(w, r), NEW content \in {"empty", "body"},
         NEW v, v = StreamRespond(w, r, content)
  PROVE  \/ v = Fail(w, "responded twice")
         \/ Going(v, r) /\ StaysThere(v, w, r)
<1> DEFINE x == w.xfer[r]
<1>1. IsWorld(w) /\ x \in Transfers
  BY DEF Going, IsWorld
<1>2. CASE x.mem # "live" \/ x.responded
  BY <1>2 DEF StreamRespond
<1>3. CASE ~(x.mem # "live" \/ x.responded) /\ x.failed
  <2> DEFINE y == [x EXCEPT !.responded = TRUE, !.mem = "freed"]
  <2>1. v = WithTransfer(w, r, y)
    BY <1>3 DEF StreamRespond, WithTransfer
  <2>2. y \in Transfers /\ y.returned = x.returned /\ y.kind = x.kind
    BY <1>1 DEF Transfers, Memory
  <2> HIDE DEF y
  <2>3. Going(v, r) /\ v.xfer[r] = y /\ v.rreq = w.rreq /\ v.called = w.called
    BY <2>1, <2>2, GoingWithTransfer
  <2>4. StaysThere(v, w, r)
    BY <2>2, <2>3 DEF StaysThere, SamePlace
  <2>5. QED BY <2>3, <2>4
<1>4. CASE ~(x.mem # "live" \/ x.responded) /\ ~x.failed
  <2> DEFINE y == [x EXCEPT !.responded = TRUE, !.content = content]
             u == WithTransfer(w, r, y)
  <2>1. v = StartTransfers(u)
    BY <1>4 DEF StreamRespond, WithTransfer
  <2>2. y \in Transfers /\ y.returned = x.returned /\ y.kind = x.kind
    BY <1>1 DEF Transfers, Memory
  <2> HIDE DEF y
  <2>3. Going(u, r) /\ u.xfer[r] = y /\ u.rreq = w.rreq /\ u.called = w.called
    BY <2>2, GoingWithTransfer
  <2> HIDE DEF u
  <2>4. /\ IsWorld(v) /\ v.fault = u.fault /\ SameRecord(v, u)
        /\ \A s \in Requests: StaysThere(v, u, s)
    BY <2>1, <2>3, StartTransfersStays DEF Going
  <2>5. \A s \in Requests \ {r}: Walks(v, s)
    BY <2>3, <2>4, WalksOn DEF Going
  <2>6. Going(v, r)
    BY <2>3, <2>4, <2>5 DEF Going, SameRecord, Recorded
  <2>7. StaysThere(v, w, r)
    <3>1. StaysThere(v, u, r)
      BY <2>4
    <3>2. QED BY <2>2, <2>3, <3>1 DEF StaysThere, SamePlace
  <2>8. QED BY <2>6, <2>7
<1>5. QED BY <1>2, <1>3, <1>4

(* A step about r fails late when the world it starts from did. *)
LEMMA FailedLate ==
  ASSUME NEW w, IsWorld(w), NEW f \in Late, NEW r, NEW e
  PROVE  Goes(Fail(w, f)) /\ Goes(WithRequest(Fail(w, f), r, e))
<1>1. Fail(w, f).fault = f /\ WithRequest(Fail(w, f), r, e).fault = f
  BY DEF IsWorld, Fail, WithRequest
<1>2. QED BY <1>1, LateGoes

(* The error page ends the walk of its request, *)
LEMMA SendErrorGoes ==
  ASSUME NEW r \in Requests, NEW w, Going(w, r), Walks(w, r), NEW v, v = SendError(w, r)
  PROVE  Goes(v)
<1> DEFINE sent == StreamRespond(w, r, "body")
           e == MaybeFree(sent.rreq[r])
<1>1. v = WithRequest(sent, r, e)
  BY DEF SendError, WithRequest
<1>2. sent = Fail(w, "responded twice") \/ (Going(sent, r) /\ StaysThere(sent, w, r))
  BY StreamRespondStays
<1> HIDE DEF sent
<1>3. CASE sent = Fail(w, "responded twice")
  <2>1. "responded twice" \in Late /\ IsWorld(w)
    BY DEF Late, Going
  <2> HIDE DEF e
  <2>2. QED BY <1>1, <1>3, <2>1, FailedLate
<1>4. CASE Going(sent, r) /\ StaysThere(sent, w, r)
  <2> DEFINE p == sent.rreq[r]
  <2>1. IsRequest(p)
    BY <1>4 DEF Going, IsWorld
  <2>2. IsRequest(e) /\ SamePlace(e, p) /\ e.state = p.state
    BY <2>1, MaybeFreeIs, PlaceKept
  <2> HIDE DEF e
  <2>3. Going(v, r) /\ v.rreq[r] = e /\ v.xfer = sent.xfer /\ v.called = sent.called
    BY <1>1, <1>4, <2>2, GoingWithRequest
  <2>4. StaysThere(v, sent, r)
    BY <2>2, <2>3 DEF StaysThere
  <2>5. Walks(v, r)
    BY <1>4, <2>4, WalksOn
  <2>6. QED BY <2>3, <2>5, GoingGoes
<1>5. QED BY <1>2, <1>3, <1>4

(* and so does respond_error, which may leave the rest to the caller. *)
LEMMA RespondErrorGoes ==
  ASSUME NEW r \in Requests, NEW w, Going(w, r), Walks(w, r), w.xfer[r].returned,
         NEW v, v = RespondError(w, r)
  PROVE  Goes(v)
<1> DEFINE q == w.rreq[r]
<1>1. IsRequest(q) /\ IsWorld(w)
  BY DEF Going, IsWorld
<1>2. \/ v = Fail(w, "assertion")
      \/ /\ q.state = "INVOKING"
         /\ v = [w EXCEPT !.rreq[r].waiting_for_response = FALSE, !.rreq[r].state = "BLOCKED_ERROR"]
      \/ v = SendError([w EXCEPT !.rreq[r].waiting_for_response = FALSE], r)
      \/ v = SendError(w, r)
  BY DEF RespondError
<1>3. CASE v = Fail(w, "assertion")
  <2>1. "assertion" \in Late
    BY DEF Late
  <2>2. QED BY <1>1, <1>3, <2>1, FailedLate
<1>4. CASE /\ q.state = "INVOKING"
           /\ v = [w EXCEPT !.rreq[r].waiting_for_response = FALSE, !.rreq[r].state = "BLOCKED_ERROR"]
  <2> DEFINE e == ErrorBlocked(q)
  <2>1. v = WithRequest(w, r, e)
    <3>1. v = [w EXCEPT !.rreq[r].waiting_for_response = FALSE, !.rreq[r].state = "BLOCKED_ERROR"]
      BY <1>4
    <3>2. QED BY ONLY <3>1 DEF WithRequest, ErrorBlocked
  <2>2. IsRequest(e) /\ SamePlace(e, q) /\ e.state = "BLOCKED_ERROR"
    BY <1>1, ErrorBlockedIs, PlaceKept
  <2> HIDE DEF e
  <2>3. Going(v, r) /\ v.rreq[r] = e /\ v.xfer = w.xfer /\ v.called = w.called
    BY <2>1, <2>2, GoingWithRequest
  <2>4. WalkKept(q, w.xfer[r], w.called[r])
    BY DEF Walks
  <2>5. q.state # "BLOCKED_INTERNAL_REDIRECT" /\ e.state \in Settled
    BY <1>4, <2>2 DEF Settled
  <2>6. WalkKept(e, w.xfer[r], w.called[r])
    BY <2>2, <2>4, <2>5, WalkSettles
  <2>7. Walks(v, r)
    BY <2>3, <2>6 DEF Walks
  <2>8. QED BY <2>3, <2>7, GoingGoes
<1>5. CASE v = SendError([w EXCEPT !.rreq[r].waiting_for_response = FALSE], r)
  <2> DEFINE e == NotDue(q)
             u == WithRequest(w, r, e)
  <2>1. [w EXCEPT !.rreq[r].waiting_for_response = FALSE] = u
    BY ONLY TRUE DEF WithRequest, NotDue
  <2>2. IsRequest(e) /\ SamePlace(e, q) /\ e.state = q.state
    BY <1>1, NotDueIs, PlaceKept
  <2>3. v = SendError(u, r)
    BY <1>5, <2>1
  <2> HIDE DEF e
  <2>4. Going(u, r) /\ u.rreq[r] = e /\ u.xfer = w.xfer /\ u.called = w.called
    BY <2>2, GoingWithRequest
  <2> HIDE DEF u
  <2>5. Walks(u, r)
    <3>1. StaysThere(u, w, r)
      BY <2>2, <2>4 DEF StaysThere
    <3>2. QED BY <3>1, WalksOn
  <2>6. QED BY <2>3, <2>4, <2>5, SendErrorGoes
<1>6. CASE v = SendError(w, r)
  BY <1>6, SendErrorGoes
<1>7. QED BY <1>2, <1>3, <1>4, <1>5, <1>6

(* A handler is called: its request is on its walk. *)
LEMMA PushedGoes ==
  ASSUME NEW r \in Requests, NEW w, Going(w, r), NEW e, NEW c, NEW t,
         NEW tried, tried = [w.called EXCEPT ![r] = t], WalkKept(e, w.xfer[r], t),
         NEW v, v = Pushed(w, r, e, c, tried)
  PROVE  Goes(v)
<1>1. IsWorld(w) /\ w.fault = "none" /\ Recorded(w)
  BY DEF Going
<1>2. /\ v.rreq = [w.rreq EXCEPT ![r] = e] /\ v.xfer = w.xfer /\ v.fault = "none"
      /\ v.called = tried /\ v.open = w.open
  BY <1>1 DEF Pushed
<1>3. /\ v.rreq[r] = e /\ \A s \in Requests \ {r}: v.rreq[s] = w.rreq[s]
  BY <1>1, <1>2 DEF IsWorld
<1>4. /\ tried[r] = t /\ \A s \in Requests \ {r}: tried[s] = w.called[s]
      /\ tried = [s \in Requests |-> tried[s]]
  <2> DEFINE f == w.called
  <2>1. f = [s \in Requests |-> f[s]] /\ tried = [f EXCEPT ![r] = t]
    BY <1>1 DEF Recorded
  <2> HIDE DEF f
  <2>2. /\ tried[r] = t /\ \A s \in Requests \ {r}: tried[s] = f[s]
        /\ tried = [s \in Requests |-> tried[s]]
    BY ONLY <2>1, r \in Requests
  <2>3. QED BY <2>2 DEF f
<1>5. Walks(v, r)
  BY <1>2, <1>3, <1>4 DEF Walks
<1>6. \A s \in Requests \ {r}: Walks(v, s)
  BY <1>2, <1>3, <1>4 DEF Walks, Going
<1>7. Recorded(v)
  BY <1>1, <1>2, <1>4 DEF Recorded
<1>8. QED BY <1>2, <1>5, <1>6, <1>7 DEF Goes

(* Without a new history. *)
LEMMA PushedSame ==
  ASSUME NEW r \in Requests, NEW w, Going(w, r), NEW e, NEW c,
         WalkKept(e, w.xfer[r], w.called[r]),
         NEW v, v = Pushed(w, r, e, c, w.called)
  PROVE  Goes(v)
<1> DEFINE f == w.called
<1>1. f = [s \in Requests |-> f[s]]
  BY DEF Going, Recorded
<1> HIDE DEF f
<1>2. f = [f EXCEPT ![r] = f[r]]
  BY <1>1
<1>3. WalkKept(e, w.xfer[r], f[r]) /\ v = Pushed(w, r, e, c, f) /\ f = [w.called EXCEPT ![r] = f[r]]
  BY <1>2 DEF f
<1>4. QED BY <1>3, PushedGoes

(* The request was handed out and has a path and a kind. *)
HandedOn(q, x) == x.returned /\ q.path \in Paths /\ x.kind \in Kinds \cup {"get"}

(* invoke_handler calls or blocks the request at the handler reached. *)
LEMMA InvokeHandlerGoes ==
  ASSUME GoodMatches(nodes), NEW r \in Requests, NEW w, Going(w, r), NEW q, q = w.rreq[r],
         HandedOn(q, w.xfer[r]),
         Ready(q.path, q.node, q.handler, w.xfer[r].kind, w.called[r]),
         NEW v, v = InvokeHandler(w, r)
  PROVE  Goes(v)
<1>1. IsWorld(w) /\ IsRequest(q)
  BY DEF Going, IsWorld
<1>2. CASE w.freed
  <2>1. v = Fail(w, "used after free") /\ "used after free" \in Late
    BY <1>2 DEF InvokeHandler, Late
  <2>2. QED BY <1>1, <2>1, FailedLate
<1>3. CASE ~w.freed /\ (q.state \notin {"INIT", "WAITING", "NEED_POST_DATA"}
              \/ q.invoking_handler \/ q.waiting_for_response)
  <2>1. v = Fail(w, "assertion") /\ "assertion" \in Late
    BY <1>3 DEF InvokeHandler, Late
  <2>2. QED BY <1>1, <2>1, FailedLate
<1>4. CASE ~w.freed /\ ~(q.state \notin {"INIT", "WAITING", "NEED_POST_DATA"}
              \/ q.invoking_handler \/ q.waiting_for_response)
  <2>1. PICK handler: handler = HandlerOf(w, r)
    OBVIOUS
  <2>2. handler = nodes[q.node].handlers[q.handler]
    BY <2>1 DEF HandlerOf
  <2>3. PICK a \in BOOLEAN, c \in BOOLEAN: Invoked(v, w, r, handler, a, c)
    BY <1>1, <1>4, <2>1, InvokeHandlerIs
  <2>4. PICK k, t: k = w.xfer[r].kind /\ t = w.called[r]
    OBVIOUS
  <2>5. Ready(q.path, q.node, q.handler, k, t)
    BY <2>4
  <2>6. /\ Suits(k, handler.type) => InHand(q.path, q.node, q.handler, k, Append(t, handler.id))
        /\ ~Suits(k, handler.type) => InHand(q.path, q.node, q.handler, k, t) /\ More(q.path, k, t)
        /\ ~(k = "post" /\ handler.type = "CGI")
    BY ONLY <2>2, <2>5, InvokeStep, GoodMatches(nodes)
  <2>7. CASE /\ Suits(k, handler.type)
             /\ v = Pushed(w, r, Begun(q, a), c, [w.called EXCEPT ![r] = Append(t, handler.id)])
    <3> DEFINE e == Begun(q, a)
    <3>1. e.state = "INVOKING" /\ SamePlace(e, q)
      BY <1>1, BegunIs, PlaceKept
    <3> HIDE DEF e
    <3>2. WalkKept(e, w.xfer[r], Append(t, handler.id))
      BY <2>4, <2>6, <2>7, <3>1 DEF WalkKept, WalkGood, SamePlace, HandedOn, States
    <3>3. PICK tried: tried = [w.called EXCEPT ![r] = Append(t, handler.id)]
      OBVIOUS
    <3>4. v = Pushed(w, r, e, c, tried)
      BY <2>7, <3>3 DEF e
    <3>5. QED BY <3>2, <3>3, <3>4, PushedGoes
  <2>8. CASE ~Suits(k, handler.type) /\ v = Pushed(w, r, Blocked(q, "BLOCKED_PASS"), c, w.called)
    <3> DEFINE e == Blocked(q, "BLOCKED_PASS")
    <3>1. e.state = "BLOCKED_PASS" /\ SamePlace(e, q)
      BY <1>1, BlockedIs, PlaceKept
    <3>2. v = Pushed(w, r, e, c, w.called)
      BY <2>8
    <3> HIDE DEF e
    <3>3. WalkKept(e, w.xfer[r], t)
      BY <2>4, <2>6, <2>8, <3>1 DEF WalkKept, WalkGood, SamePlace, HandedOn, States
    <3>4. QED BY <2>4, <3>2, <3>3, PushedSame
  <2>9. QED BY <2>3, <2>4, <2>6, <2>7, <2>8 DEF Invoked
<1>5. QED BY <1>2, <1>3, <1>4

(* A request that moves keeps its path. *)
LEMMA MovedPlace ==
  ASSUME NEW q, IsRequest(q), NEW n, NEW h
  PROVE  /\ MovedTo(q, n, h).path = q.path /\ MovedTo(q, n, h).node = n /\ MovedTo(q, n, h).handler = h
         /\ NextHandler(q, h).path = q.path /\ NextHandler(q, h).node = q.node
         /\ NextHandler(q, h).handler = h
<1>1. MovedTo(q, n, h).path = q.path /\ MovedTo(q, n, h).node = n /\ MovedTo(q, n, h).handler = h
  BY DEF IsRequest, MovedTo
<1>2. /\ NextHandler(q, h).path = q.path /\ NextHandler(q, h).node = q.node
      /\ NextHandler(q, h).handler = h
  BY DEF IsRequest, NextHandler
<1>3. QED BY <1>1, <1>2

(* find_first_match finds a handler when one can serve the request. *)
LEMMA FindFirstGoes ==
  ASSUME GoodMatches(nodes), NEW r \in Requests, NEW w, Going(w, r),
         NEW q, q = w.rreq[r], NEW x, x = w.xfer[r],
         CanServe(x.kind, q.path, 0), NEW f, f = FindFirst(w, r)
  PROVE  /\ Found(w, r) /\ Going(f, r) /\ f.xfer = w.xfer /\ f.called = w.called
         /\ f.rreq[r].path = q.path
         /\ Ready(q.path, f.rreq[r].node, f.rreq[r].handler, x.kind, <<>>)
<1> DEFINE node == FirstMatch(q.path)[Top]
           e == MovedTo(q, node, 1)
<1>1. IsRequest(q)
  BY DEF Going, IsWorld
<1>2. node # NoNode /\ Ready(q.path, node, 1, x.kind, <<>>)
  <2> HIDE DEF node
  <2>1. node = FirstMatch(q.path)[Top]
    BY DEF node
  <2>2. QED BY <2>1, StartStep
<1>3. Found(w, r)
  BY <1>2 DEF Found
<1>4. f = [w EXCEPT !.rreq[r].node = node, !.rreq[r].handler = 1]
  BY <1>2 DEF FindFirst
<1> HIDE DEF node
<1>5. f = WithRequest(w, r, e)
  <2>1. q = w.rreq[r]
    OBVIOUS
  <2>2. QED BY ONLY <1>4, <2>1 DEF WithRequest, MovedTo
<1>6. IsRequest(e) /\ e.path = q.path /\ e.node = node /\ e.handler = 1
  BY <1>1, MovedToIs, MovedPlace
<1> HIDE DEF e
<1>7. Going(f, r) /\ f.rreq[r] = e /\ f.xfer = w.xfer /\ f.called = w.called
  BY <1>5, <1>6, GoingWithRequest
<1>8. QED BY <1>2, <1>3, <1>6, <1>7

(* A request that moved is handed to the handler it moved to. *)
LEMMA MovedGoes ==
  ASSUME GoodMatches(nodes), NEW r \in Requests, NEW w, Going(w, r), NEW q, q = w.rreq[r],
         HandedOn(q, w.xfer[r]), NEW e, IsRequest(e), e.path = q.path,
         Ready(q.path, e.node, e.handler, w.xfer[r].kind, w.called[r]),
         NEW v, v = InvokeHandler(WithRequest(w, r, e), r)
  PROVE  Goes(v)
<1> DEFINE u == WithRequest(w, r, e)
<1>1. Going(u, r) /\ u.rreq[r] = e /\ u.xfer = w.xfer /\ u.called = w.called
  BY GoingWithRequest
<1>2. v = InvokeHandler(u, r)
  OBVIOUS
<1> HIDE DEF u
<1>3. HandedOn(e, u.xfer[r]) /\ Ready(e.path, e.node, e.handler, u.xfer[r].kind, u.called[r])
  BY <1>1 DEF HandedOn
<1>4. QED BY <1>1, <1>2, <1>3, InvokeHandlerGoes

(* Passing on moves to the next handler, of the same match or the next. *)
LEMMA PassOnGoes ==
  ASSUME GoodMatches(nodes), NEW r \in Requests, NEW w, Going(w, r), NEW q, q = w.rreq[r],
         HandedOn(q, w.xfer[r]),
         InHand(q.path, q.node, q.handler, w.xfer[r].kind, w.called[r]),
         More(q.path, w.xfer[r].kind, w.called[r]),
         NEW v, v = PassOn(w, r)
  PROVE  Goes(v)
<1> DEFINE node == NextMatch(q.node, q.path)
           h == q.handler + 1
<1>1. IsWorld(w) /\ IsRequest(q)
  BY DEF Going, IsWorld
<1>2. PICK k, c: k = w.xfer[r].kind /\ c = w.called[r]
  OBVIOUS
<1>3. /\ q.handler < Len(nodes[q.node].handlers) => Ready(q.path, q.node, h, k, c)
      /\ ~(q.handler < Len(nodes[q.node].handlers)) => node # NoNode /\ Ready(q.path, node, 1, k, c)
  <2>1. InHand(q.path, q.node, q.handler, k, c) /\ More(q.path, k, c)
    BY <1>2
  <2> HIDE DEF node
  <2>2. node = NextMatch(q.node, q.path)
    BY DEF node
  <2>3. QED BY <2>1, <2>2, PassStep
<1>4. CASE w.freed
  <2>1. v = Fail(w, "used after free") /\ "used after free" \in Late
    BY <1>4 DEF PassOn, Late
  <2>2. QED BY <1>1, <2>1, FailedLate
<1>5. CASE ~w.freed /\ q.handler < Len(nodes[q.node].handlers)
  <2> DEFINE e == NextHandler(q, h)
  <2>1. v = InvokeHandler([w EXCEPT !.rreq[r].handler = @ + 1], r)
    BY <1>5 DEF PassOn
  <2>2. [w EXCEPT !.rreq[r].handler = @ + 1] = WithRequest(w, r, e)
    <3>1. q = w.rreq[r]
      OBVIOUS
    <3>2. QED BY ONLY <3>1 DEF WithRequest, NextHandler
  <2> HIDE DEF h
  <2>3. IsRequest(e) /\ e.path = q.path /\ e.node = q.node /\ e.handler = h
    BY <1>1, NextHandlerIs, MovedPlace
  <2> HIDE DEF e
  <2>4. Ready(q.path, e.node, e.handler, w.xfer[r].kind, w.called[r])
    BY <1>2, <1>3, <1>5, <2>3
  <2>5. v = InvokeHandler(WithRequest(w, r, e), r)
    BY <2>1, <2>2
  <2>6. QED BY <2>3, <2>4, <2>5, MovedGoes
<1>6. CASE ~w.freed /\ ~(q.handler < Len(nodes[q.node].handlers))
  <2> DEFINE e == MovedTo(q, node, 1)
  <2>1. v = InvokeHandler([w EXCEPT !.rreq[r].node = node, !.rreq[r].handler = 1], r)
    BY <1>3, <1>6 DEF PassOn
  <2> HIDE DEF node
  <2>2. [w EXCEPT !.rreq[r].node = node, !.rreq[r].handler = 1] = WithRequest(w, r, e)
    <3>1. q = w.rreq[r]
      OBVIOUS
    <3>2. QED BY ONLY <3>1 DEF WithRequest, MovedTo
  <2>3. IsRequest(e) /\ e.path = q.path /\ e.node = node /\ e.handler = 1
    BY <1>1, MovedToIs, MovedPlace
  <2> HIDE DEF e
  <2>4. Ready(q.path, e.node, e.handler, w.xfer[r].kind, w.called[r])
    BY <1>2, <1>3, <1>6, <2>3
  <2>5. v = InvokeHandler(WithRequest(w, r, e), r)
    BY <2>1, <2>2
  <2>6. QED BY <2>3, <2>4, <2>5, MovedGoes
<1>7. QED BY <1>4, <1>5, <1>6

(* do_shutdown moves nobody. *)
LEMMA DoShutdownGoes ==
  ASSUME NEW w, IsWorld(w), Goes(w), w.fault = "none", NEW u, u = DoShutdown(w), NEW f
  PROVE  Goes(u) /\ Goes([u EXCEPT !.freed = f])
<1> DEFINE at == ToSet(w.queue)
           kept == {s \in at: w.xfer[s].returned /\ ~w.xfer[s].responded}
           qs == [s \in Requests |-> IF s \in at /\ w.xfer[s].returned
                                     THEN TransferDestroyed(w.rreq[s]) ELSE w.rreq[s]]
           xs == [s \in Requests |-> IF s \in kept THEN [w.xfer[s] EXCEPT !.failed = TRUE]
                                     ELSE IF s \in at THEN [w.xfer[s] EXCEPT !.mem = "freed"]
                                     ELSE w.xfer[s]]
           empty == <<>>
           closed == FALSE
<1>1. u = [w EXCEPT !.rreq = qs, !.xfer = xs, !.queue = empty, !.open = closed]
  BY DEF DoShutdown
<1>2. \A s \in Requests: /\ qs[s] = w.rreq[s] \/ qs[s] = TransferDestroyed(w.rreq[s])
                         /\ \/ xs[s] = w.xfer[s] \/ xs[s] = [w.xfer[s] EXCEPT !.mem = "freed"]
                            \/ xs[s] = [w.xfer[s] EXCEPT !.failed = TRUE]
  OBVIOUS
<1>3. closed \in BOOLEAN
  OBVIOUS
<1> HIDE DEF qs, xs, empty, closed
<1>4. u = [rreq |-> qs, xfer |-> xs, queue |-> empty, open |-> closed, stack |-> w.stack,
           freed |-> w.freed, fault |-> w.fault, called |-> w.called]
  BY <1>1 DEF IsWorld
<1>5. ASSUME NEW v, v.rreq = qs, v.xfer = xs, v.open = closed, v.fault = w.fault, v.called = w.called
      PROVE  Goes(v)
  <2>1. Recorded(v)
    BY <1>3, <1>5 DEF Goes, Recorded
  <2>2. ASSUME NEW s \in Requests PROVE Walks(v, s)
    <3>1. IsRequest(w.rreq[s]) /\ w.xfer[s] \in Transfers
      BY DEF IsWorld
    <3>2. SamePlace(qs[s], w.rreq[s]) /\ qs[s].state = w.rreq[s].state
      <4>1. /\ SamePlace(TransferDestroyed(w.rreq[s]), w.rreq[s])
            /\ TransferDestroyed(w.rreq[s]).state = w.rreq[s].state
        BY <3>1, PlaceKept, TransferDestroyedIs
      <4>2. SamePlace(w.rreq[s], w.rreq[s])
        BY DEF SamePlace
      <4>3. QED BY <1>2, <4>1, <4>2
    <3>3. xs[s].kind = w.xfer[s].kind /\ xs[s].returned = w.xfer[s].returned
      BY <1>2, <3>1 DEF Transfers
    <3>4. StaysThere(v, w, s)
      BY <1>5, <3>2, <3>3 DEF StaysThere
    <3>5. QED BY <3>4, WalksOn DEF Goes
  <2>3. QED BY <1>5, <2>1, <2>2 DEF Goes
<1>6. Goes(u)
  BY <1>4, <1>5
<1>7. PICK v: v = [u EXCEPT !.freed = f]
  OBVIOUS
<1>8. v.rreq = qs /\ v.xfer = xs /\ v.open = closed /\ v.fault = w.fault /\ v.called = w.called
  BY <1>4, <1>7
<1>9. QED BY <1>5, <1>6, <1>7, <1>8

(* An action that becomes a world that goes on leaves such a world. *)
LEMMA BecomesGoes ==
  ASSUME NEW v, Becomes(v), Goes(v)
  PROVE  Goes(World)'
<1>1. /\ World.rreq' = v.rreq /\ World.xfer' = v.xfer /\ World.open' = v.open
      /\ World.fault' = v.fault /\ World.called' = v.called /\ nodes' = nodes
  BY DEF Becomes, World, config
<1>2. \A s \in Requests: Walks(World, s)' <=> Walks(v, s)
  BY <1>1 DEF Walks, WalkKept, WalkGood, Ready, InHand, Servable, More
<1>3. Recorded(World)' <=> Recorded(v)
  BY <1>1 DEF Recorded
<1>4. QED BY <1>1, <1>2, <1>3 DEF Goes

-----------------------------------------------------------------------------
(* The actions keep every request on its walk. *)

(* The inductive invariant: what ServerInv says of flags and memory, no *)
(* failure, a good tree, every request on its walk, and nobody handed out *)
(* while the tree is still being built. *)
OrderInv ==
  /\ ServerInv /\ fault = "none" /\ TreeKept /\ Goes(World)
  /\ current # 0 => \A r \in Requests: ~xfer[r].returned

(* What the invariant says of a world. *)
LEMMA OrderGives ==
  ASSUME OrderInv, NEW w, w = World
  PROVE  /\ WorldKept(w) /\ IsWorld(w) /\ w.fault = "none" /\ Goes(w) /\ GoodMatches(nodes)
         /\ \A r \in Requests: Going(w, r) /\ Walks(w, r)
<1>1. w.fault = "none" /\ Goes(w) /\ Survives(w)
  BY WorldIs DEF OrderInv, ServerInv
<1>2. WorldKept(w) /\ IsWorld(w)
  BY <1>1 DEF Survives, WorldKept
<1>3. GoodMatches(nodes)
  BY DEF OrderInv, TreeKept, MatchesKept
<1>4. \A r \in Requests: Going(w, r) /\ Walks(w, r)
  BY <1>1, <1>2 DEF Goes, Going
<1>5. QED BY <1>1, <1>2, <1>3, <1>4

(* What it says of a request whose handler has to answer. *)
LEMMA AnswererGives ==
  ASSUME OrderInv, NEW w, w = World, NEW r \in Requests, HasToAnswer(r),
         NEW q, q = w.rreq[r], NEW x, x = w.xfer[r]
  PROVE  /\ Going(w, r) /\ Walks(w, r) /\ HandedOn(q, x) /\ IsRequest(q) /\ x \in Transfers
         /\ InHand(q.path, q.node, q.handler, x.kind, w.called[r])
         /\ q.state \in {"INVOKING", "WAITING"} /\ GoodMatches(nodes)
<1>1. WorldKept(w) /\ fault = "none" /\ GoodMatches(nodes) /\ Going(w, r) /\ Walks(w, r)
  BY OrderGives, WorldIs
<1>2. /\ Between(w, r) /\ q.mem = "live" /\ q.state \in {"INVOKING", "WAITING"}
      /\ IsRequest(q) /\ x \in Transfers
  BY <1>1, HasToAnswerGives
<1>3. x.returned
  BY <1>2 DEF Between, TransferKept
<1>4. WalkKept(q, x, w.called[r])
  BY <1>1 DEF Walks
<1>5. HandedOn(q, x)
  BY <1>3, <1>4 DEF WalkKept, HandedOn
<1>6. InHand(q.path, q.node, q.handler, x.kind, w.called[r])
  BY <1>2, <1>3, <1>4 DEF WalkKept, WalkGood
<1>7. QED BY <1>1, <1>2, <1>5, <1>6

(* A step about r in which the request changes in its flags or settles. *)
LEMMA SettledGoes ==
  ASSUME NEW r \in Requests, NEW w, Going(w, r), NEW x, x = w.xfer[r], x.returned,
         NEW q, NEW c, WalkKept(q, x, c), c = w.called[r],
         NEW e, IsRequest(e), SamePlace(e, q),
         e.state = q.state \/ (e.state \in Settled /\ q.state # "BLOCKED_INTERNAL_REDIRECT"),
         NEW v, v = WithRequest(w, r, e)
  PROVE  Goes(v) /\ Going(v, r) /\ Walks(v, r)
<1>1. Going(v, r) /\ v.rreq[r] = e /\ v.xfer = w.xfer /\ v.called = w.called
  BY GoingWithRequest
<1>2. WalkKept(e, x, c)
  BY WalkStays, WalkSettles
<1>3. Walks(v, r)
  BY <1>1, <1>2 DEF Walks
<1>4. QED BY <1>1, <1>3, GoingGoes

(* dsk_http_server_request_respond_error. *)
LEMMA RespondWithErrorGoes ==
  ASSUME OrderInv, Careful, NEW r \in Requests, RespondWithError(r)
  PROVE  Goes(World)'
<1> DEFINE w == World
           v == RespondError(w, r)
<1>1. HasToAnswer(r) /\ Becomes(v)
  BY DEF RespondWithError
<1>2. w = World
  OBVIOUS
<1> HIDE DEF w
<1>3. Going(w, r) /\ Walks(w, r) /\ w.xfer[r].returned
  BY <1>1, <1>2, AnswererGives DEF HandedOn
<1>4. Goes(v)
  BY <1>3, RespondErrorGoes
<1> HIDE DEF v
<1>5. QED BY <1>1, <1>4, BecomesGoes

(* dsk_http_server_request_pass. *)
LEMMA PassGoes ==
  ASSUME OrderInv, Careful, NEW r \in Requests, Pass(r)
  PROVE  Goes(World)'
<1> DEFINE w == World
           q == w.rreq[r]
           x == w.xfer[r]
           u == WithRequest(w, r, NotDue(q))
           v == IF q.state = "INVOKING" THEN WithRequest(w, r, PassBlocked(q))
                ELSE PassOn(u, r)
<1>1. HasToAnswer(r) /\ CanServe(x.kind, q.path, Len(w.called[r]))
  BY WorldIs DEF Pass
<1>2. Becomes(v)
  <2>1. Becomes(IF rreq[r].state = "INVOKING"
                THEN [w EXCEPT !.rreq[r].waiting_for_response = FALSE,
                               !.rreq[r].state = "BLOCKED_PASS"]
                ELSE PassOn([w EXCEPT !.rreq[r].waiting_for_response = FALSE], r))
    BY DEF Pass
  <2>2. q.state = rreq[r].state
    BY WorldIs
  <2> HIDE DEF w
  <2>3. [w EXCEPT !.rreq[r].waiting_for_response = FALSE] = u
    BY ONLY TRUE DEF WithRequest, NotDue
  <2>4. [w EXCEPT !.rreq[r].waiting_for_response = FALSE,
                  !.rreq[r].state = "BLOCKED_PASS"] = WithRequest(w, r, PassBlocked(q))
    BY ONLY TRUE DEF WithRequest, PassBlocked
  <2> HIDE DEF u, q
  <2>5. QED BY ONLY <2>1, <2>2, <2>3, <2>4
<1>3. w = World
  OBVIOUS
<1> HIDE DEF w
<1>4. /\ Going(w, r) /\ HandedOn(q, x) /\ IsRequest(q) /\ GoodMatches(nodes)
      /\ InHand(q.path, q.node, q.handler, x.kind, w.called[r])
  BY <1>1, <1>3, AnswererGives
<1>5. More(q.path, x.kind, w.called[r])
  <2> HIDE DEF q, x
  <2>1. PICK p, k, c: p = q.path /\ k = x.kind /\ c = w.called[r]
    OBVIOUS
  <2>2. CanServe(k, p, Len(c))
    BY <1>1, <2>1
  <2>3. More(p, k, c)
    BY ONLY <2>2, MoreToTry
  <2>4. QED BY <2>1, <2>3
<1>6. CASE q.state = "INVOKING"
  <2> DEFINE e == PassBlocked(q)
  <2>1. v = WithRequest(w, r, e)
    BY <1>6
  <2>2. IsRequest(e) /\ e.state = "BLOCKED_PASS" /\ SamePlace(e, q)
    BY <1>4, PassBlockedIs, PlaceKept
  <2> HIDE DEF e, v
  <2>3. Going(v, r) /\ v.rreq[r] = e /\ v.xfer = w.xfer /\ v.called = w.called
    BY <1>4, <2>1, <2>2, GoingWithRequest
  <2>4. WalkKept(e, x, w.called[r])
    BY <1>4, <1>5, <2>2 DEF WalkKept, WalkGood, SamePlace, HandedOn, States
  <2>5. Walks(v, r)
    BY <2>3, <2>4 DEF Walks
  <2>6. Goes(v)
    BY <2>3, <2>5, GoingGoes
  <2>7. QED BY <1>2, <2>6, BecomesGoes
<1>7. CASE q.state # "INVOKING"
  <2> DEFINE e == NotDue(q)
  <2>1. v = PassOn(u, r) /\ u = WithRequest(w, r, e)
    BY <1>7
  <2>2. IsRequest(e) /\ SamePlace(e, q)
    BY <1>4, NotDueIs, PlaceKept
  <2> HIDE DEF e, u, v
  <2>3. Going(u, r) /\ u.rreq[r] = e /\ u.xfer = w.xfer /\ u.called = w.called
    BY <1>4, <2>1, <2>2, GoingWithRequest
  <2>4. /\ HandedOn(e, u.xfer[r]) /\ More(e.path, u.xfer[r].kind, u.called[r])
        /\ InHand(e.path, e.node, e.handler, u.xfer[r].kind, u.called[r])
    BY <1>4, <1>5, <2>2, <2>3 DEF HandedOn, SamePlace
  <2>5. Goes(v)
    BY <1>4, <2>1, <2>3, <2>4, PassOnGoes
  <2>6. QED BY <1>2, <2>5, BecomesGoes
<1>8. QED BY <1>6, <1>7

(* What comes after the response of a request that nobody waits for any *)
(* more. *)
LEMMA AnsweredWalk ==
  ASSUME NEW r \in Requests, NEW w, Going(w, r), Walks(w, r), NEW q, q = w.rreq[r], IsRequest(q),
         w.xfer[r].returned, NEW u, u = WithRequest(w, r, NotDue(q)),
         NEW content \in {"empty", "body"}, NEW sent, sent = StreamRespond(u, r, content)
  PROVE  \/ /\ \A f \in Late: Goes(Fail(sent, f))
            /\ \A e: Goes(WithRequest(sent, r, e)) /\ Goes(sent)
         \/ /\ Going(sent, r) /\ IsWorld(sent) /\ IsRequest(sent.rreq[r])
            /\ WalkKept(sent.rreq[r], sent.xfer[r], sent.called[r])
            /\ sent.rreq[r].state = q.state /\ sent.xfer[r].returned
<1>1. WalkKept(q, w.xfer[r], w.called[r])
  BY DEF Walks
<1>2. IsRequest(NotDue(q)) /\ SamePlace(NotDue(q), q) /\ NotDue(q).state = q.state
  BY NotDueIs, PlaceKept
<1>3. Going(u, r) /\ Walks(u, r)
  BY <1>1, <1>2, SettledGoes
<1>4. u.rreq[r] = NotDue(q) /\ u.xfer = w.xfer
  BY <1>2, GoingWithRequest
<1>5. sent = Fail(u, "responded twice") \/ (Going(sent, r) /\ StaysThere(sent, u, r))
  BY <1>3, StreamRespondStays
<1>6. CASE sent = Fail(u, "responded twice")
  <2>1. PICK a \in Late: a = "responded twice"
    BY DEF Late
  <2>2. sent = Fail(u, a) /\ IsWorld(u)
    BY <1>3, <1>6, <2>1 DEF Going
  <2>3. \A e: Goes(WithRequest(sent, r, e)) /\ Goes(sent)
    BY <2>2, FailedLate
  <2>4. ASSUME NEW f \in Late PROVE Goes(Fail(sent, f))
    <3>1. Fail(sent, f).fault = f
      BY <2>2 DEF Fail, IsWorld
    <3>2. QED BY <3>1, LateGoes
  <2>5. QED BY <2>3, <2>4
<1>7. CASE Going(sent, r) /\ StaysThere(sent, u, r)
  <2>1. Walks(sent, r)
    BY <1>3, <1>7, WalksOn
  <2>2. IsWorld(sent) /\ IsRequest(sent.rreq[r])
    BY <1>7 DEF Going, IsWorld
  <2>3. sent.rreq[r].state = q.state /\ sent.xfer[r].returned
    BY <1>2, <1>4, <1>7 DEF StaysThere
  <2>4. QED BY <1>7, <2>1, <2>2, <2>3 DEF Walks
<1>8. QED BY <1>5, <1>6, <1>7

(* dsk_http_server_request_respond. *)
LEMMA RespondGoes ==
  ASSUME OrderInv, Careful, NEW r \in Requests, NEW content \in {"empty", "body"},
         Respond(r, content)
  PROVE  Goes(World)'
<1> DEFINE w == World
           q == w.rreq[r]
           u == WithRequest(w, r, NotDue(q))
           sent == StreamRespond(u, r, content)
           p == sent.rreq[r]
           v == IF p.mem = "freed" THEN Fail(sent, "used after free")
                ELSE IF q.state = "INVOKING"
                     THEN WithRequest(sent, r, InState(p, "GOT_RESPONSE_WHILE_INVOKING"))
                ELSE WithRequest(sent, r, MaybeFree(InState(p, "GOT_RESPONSE")))
<1>1. HasToAnswer(r) /\ ~w.xfer[r].failed
  BY WorldIs DEF Respond
<1>2. Becomes(v)
  <2> DEFINE u0 == [w EXCEPT !.rreq[r].waiting_for_response = FALSE]
             s0 == StreamRespond(u0, r, content)
  <2>1. Becomes(IF xfer[r].failed THEN s0
                ELSE IF s0.rreq[r].mem = "freed" THEN Fail(s0, "used after free")
                ELSE IF rreq[r].state = "INVOKING"
                     THEN [s0 EXCEPT !.rreq[r].state = "GOT_RESPONSE_WHILE_INVOKING"]
                ELSE [s0 EXCEPT !.rreq[r] = MaybeFree([@ EXCEPT !.state = "GOT_RESPONSE"])])
    BY DEF Respond
  <2>2. w.xfer[r].failed = xfer[r].failed /\ q.state = rreq[r].state
    BY WorldIs
  <2> HIDE DEF w
  <2>3. u0 = u
    BY ONLY TRUE DEF WithRequest, NotDue
  <2>4. s0 = sent
    BY <2>3
  <2> HIDE DEF s0, sent
  <2>5. /\ [s0 EXCEPT !.rreq[r].state = "GOT_RESPONSE_WHILE_INVOKING"] =
           WithRequest(s0, r, InState(s0.rreq[r], "GOT_RESPONSE_WHILE_INVOKING"))
        /\ [s0 EXCEPT !.rreq[r] = MaybeFree([@ EXCEPT !.state = "GOT_RESPONSE"])] =
           WithRequest(s0, r, MaybeFree(InState(s0.rreq[r], "GOT_RESPONSE")))
    BY ONLY TRUE DEF WithRequest, InState
  <2>6. QED BY <1>1, <2>1, <2>2, <2>4, <2>5
<1>3. w = World
  OBVIOUS
<1> HIDE DEF w
<1>4. /\ Going(w, r) /\ Walks(w, r) /\ IsRequest(q) /\ w.xfer[r].returned
      /\ q.state \in {"INVOKING", "WAITING"}
  BY <1>1, <1>3, AnswererGives DEF HandedOn
<1>5. \/ /\ \A f \in Late: Goes(Fail(sent, f))
         /\ \A e: Goes(WithRequest(sent, r, e)) /\ Goes(sent)
      \/ /\ Going(sent, r) /\ IsWorld(sent) /\ IsRequest(p)
         /\ WalkKept(p, sent.xfer[r], sent.called[r])
         /\ p.state = q.state /\ sent.xfer[r].returned
  BY <1>4, AnsweredWalk
<1> HIDE DEF sent
<1>6. Goes(v)
  <2>1. "used after free" \in Late
    BY DEF Late
  <2>2. CASE /\ \A f \in Late: Goes(Fail(sent, f))
             /\ \A e: Goes(WithRequest(sent, r, e)) /\ Goes(sent)
    BY <2>1, <2>2
  <2>3. CASE /\ Going(sent, r) /\ IsWorld(sent) /\ IsRequest(p)
             /\ WalkKept(p, sent.xfer[r], sent.called[r])
             /\ p.state = q.state /\ sent.xfer[r].returned
    <3>1. Goes(Fail(sent, "used after free"))
      BY <2>1, <2>3, FailedLate
    <3>2. ASSUME NEW s \in {"GOT_RESPONSE", "GOT_RESPONSE_WHILE_INVOKING"}
          PROVE  /\ Goes(WithRequest(sent, r, InState(p, s)))
                 /\ Goes(WithRequest(sent, r, MaybeFree(InState(p, s))))
      <4> DEFINE d == InState(p, s)
                 e == MaybeFree(d)
      <4>1. IsRequest(d) /\ SamePlace(d, p) /\ d.state = s
        BY <2>3, InStateIs, PlaceKept
      <4> HIDE DEF d
      <4>2. IsRequest(e) /\ SamePlace(e, d) /\ e.state = s
        BY <4>1, MaybeFreeIs, PlaceKept
      <4> HIDE DEF e
      <4>3. s \in Settled /\ p.state # "BLOCKED_INTERNAL_REDIRECT" /\ SamePlace(e, p)
        BY <1>4, <2>3, <4>1, <4>2 DEF Settled, SamePlace
      <4>4. Goes(WithRequest(sent, r, d))
        BY <2>3, <4>1, <4>3, SettledGoes
      <4>5. Goes(WithRequest(sent, r, e))
        BY <2>3, <4>2, <4>3, SettledGoes
      <4>6. QED BY <4>4, <4>5 DEF d, e
    <3>3. QED BY <3>1, <3>2
  <2>4. QED BY <1>5, <2>2, <2>3
<1> HIDE DEF v
<1>7. QED BY <1>2, <1>6, BecomesGoes

(* dsk_http_server_request_redirect. *)
LEMMA RedirectGoes ==
  ASSUME OrderInv, NEW r \in Requests, Redirect(r)
  PROVE  Goes(World)'
<1> DEFINE w == World
           q == w.rreq[r]
           u == WithRequest(w, r, NotDue(q))
           sent == StreamRespond(u, r, "body")
           p == sent.rreq[r]
           e == MaybeFree(p)
           v == WithRequest(sent, r, e)
<1>1. HasToAnswer(r)
  BY DEF Redirect
<1>2. Becomes(v)
  <2> DEFINE u0 == [w EXCEPT !.rreq[r].waiting_for_response = FALSE]
             s0 == StreamRespond(u0, r, "body")
  <2>1. Becomes([s0 EXCEPT !.rreq[r] = MaybeFree(@)])
    BY DEF Redirect
  <2> HIDE DEF w
  <2>2. u0 = u
    BY ONLY TRUE DEF WithRequest, NotDue
  <2>3. s0 = sent
    BY <2>2
  <2> HIDE DEF s0, sent
  <2>4. [s0 EXCEPT !.rreq[r] = MaybeFree(@)] = WithRequest(s0, r, MaybeFree(s0.rreq[r]))
    BY ONLY TRUE DEF WithRequest
  <2>5. QED BY <2>1, <2>3, <2>4
<1>3. w = World
  OBVIOUS
<1> HIDE DEF w
<1>4. Going(w, r) /\ Walks(w, r) /\ IsRequest(q) /\ w.xfer[r].returned
  BY <1>1, <1>3, AnswererGives DEF HandedOn
<1>5. \/ \A d: Goes(WithRequest(sent, r, d))
      \/ /\ Going(sent, r) /\ IsRequest(p)
         /\ WalkKept(p, sent.xfer[r], sent.called[r]) /\ sent.xfer[r].returned
  BY <1>4, AnsweredWalk
<1> HIDE DEF sent
<1>6. CASE \A d: Goes(WithRequest(sent, r, d))
  <2> HIDE DEF e
  <2>1. Goes(v)
    BY <1>6
  <2> HIDE DEF v
  <2>2. QED BY <1>2, <2>1, BecomesGoes
<1>7. CASE /\ Going(sent, r) /\ IsRequest(p)
           /\ WalkKept(p, sent.xfer[r], sent.called[r]) /\ sent.xfer[r].returned
  <2>1. IsRequest(e) /\ SamePlace(e, p) /\ e.state = p.state
    BY <1>7, MaybeFreeIs, PlaceKept
  <2> HIDE DEF e
  <2>2. Goes(v)
    BY <1>7, <2>1, SettledGoes
  <2> HIDE DEF v
  <2>3. QED BY <1>2, <2>2, BecomesGoes
<1>8. QED BY <1>5, <1>6, <1>7

(* The history of r changes. *)
LEMMA GoingWithCalled ==
  ASSUME NEW r \in Requests, NEW w, Going(w, r), NEW t, NEW v, v = WithCalled(w, r, t)
  PROVE  /\ Going(v, r) /\ v.rreq = w.rreq /\ v.xfer = w.xfer /\ v.called[r] = t
         /\ v.freed = w.freed
<1> DEFINE c == [w.called EXCEPT ![r] = t]
<1>1. IsWorld(w) /\ w.called = [s \in Requests |-> w.called[s]]
  BY DEF Going, Recorded
<1>2. v = [w EXCEPT !.called = c]
  BY DEF WithCalled
<1>3. c[r] = t /\ c = [s \in Requests |-> c[s]] /\ \A s \in Requests \ {r}: c[s] = w.called[s]
  BY <1>1
<1> HIDE DEF c
<1>4. v = [rreq |-> w.rreq, xfer |-> w.xfer, queue |-> w.queue, open |-> w.open,
           stack |-> w.stack, freed |-> w.freed, fault |-> w.fault, called |-> c]
  BY <1>1, <1>2 DEF IsWorld
<1>5. /\ v.rreq = w.rreq /\ v.xfer = w.xfer /\ v.queue = w.queue /\ v.open = w.open
      /\ v.stack = w.stack /\ v.freed = w.freed /\ v.fault = w.fault /\ v.called = c
  BY <1>4
<1>6. IsWorld(v)
  BY <1>1, <1>4, <1>5 DEF IsWorld
<1>7. \A s \in Requests \ {r}: Walks(v, s)
  BY <1>3, <1>5 DEF Going, Walks
<1>8. QED BY <1>3, <1>5, <1>6, <1>7 DEF Going, Recorded

(* An internal redirect starts a new walk for another path. *)
LEMMA RedirectedGoes ==
  ASSUME NEW r \in Requests, NEW w, Going(w, r), NEW q, q = w.rreq[r], NEW path, NEW t,
         NEW v, v = Redirected(w, r, path, t)
  PROVE  /\ Going(v, r) /\ v.xfer = w.xfer /\ v.called[r] = t /\ v.rreq[r].path = path
         /\ v.freed = w.freed
<1> DEFINE u1 == WithRequest(w, r, NotDue(q))
           e == AtPath(u1.rreq[r], path)
           u2 == WithRequest(u1, r, e)
           u3 == WithCalled(u2, r, t)
           s == IF u3.rreq[r].state = "WAITING" THEN "INIT" ELSE u3.rreq[r].state
           d == InState(u3.rreq[r], s)
           u4 == WithRequest(u3, r, d)
<1>1. v = u4
  <2>1. Redirected(w, r, path, t) = u4
    BY RedirectedInSteps
  <2> HIDE DEF u4
  <2>2. QED BY <2>1
<1>2. IsRequest(q)
  BY DEF Going, IsWorld
<1>3. IsRequest(NotDue(q))
  BY <1>2, NotDueIs
<1>4. Going(u1, r) /\ u1.rreq[r] = NotDue(q) /\ u1.xfer = w.xfer /\ u1.freed = w.freed
  BY <1>3, GoingWithRequest
<1> HIDE DEF u1
<1>5. IsRequest(e) /\ e.path = path
  <2>1. IsRequest(u1.rreq[r])
    BY <1>3, <1>4
  <2>2. IsRequest(e)
    BY <2>1, AtPathIs
  <2>3. e.path = path
    BY <2>1 DEF IsRequest, AtPath
  <2>4. QED BY <2>2, <2>3
<1> HIDE DEF e
<1>6. Going(u2, r) /\ u2.rreq[r] = e /\ u2.xfer = u1.xfer /\ u2.freed = u1.freed
  BY <1>4, <1>5, GoingWithRequest
<1> HIDE DEF u2
<1>7. /\ Going(u3, r) /\ u3.rreq = u2.rreq /\ u3.xfer = u2.xfer /\ u3.called[r] = t
      /\ u3.freed = u2.freed
  BY <1>6, GoingWithCalled
<1> HIDE DEF u3, s
<1>8. IsRequest(d) /\ d.path = path
  <2>1. IsRequest(u3.rreq[r]) /\ u3.rreq[r].path = path
    BY <1>5, <1>6, <1>7
  <2>2. IsRequest(d) /\ SamePlace(d, u3.rreq[r])
    BY <2>1, InStateIs, PlaceKept
  <2>3. QED BY <2>1, <2>2 DEF SamePlace
<1> HIDE DEF d
<1>9. /\ Going(u4, r) /\ u4.rreq[r] = d /\ u4.xfer = u3.xfer /\ u4.called = u3.called
      /\ u4.freed = u3.freed
  BY <1>7, <1>8, GoingWithRequest
<1> HIDE DEF u4
<1>10. QED BY <1>1, <1>4, <1>6, <1>7, <1>8, <1>9

(* dsk_http_server_request_internal_redirect. *)
LEMMA InternalRedirectGoes ==
  ASSUME OrderInv, Careful, NEW r \in Requests, NEW path \in Paths, InternalRedirect(r, path)
  PROVE  Goes(World)'
<1> DEFINE w == World
           q == w.rreq[r]
           x == w.xfer[r]
           none == <<>>
           u == Redirected(w, r, path, none)
           f == FindFirst(u, r)
           v == IF freed THEN Fail(u, "used after free")
                ELSE IF ~Found(u, r) THEN NoHandlerFound(u, r)
                ELSE IF rreq[r].state = "INVOKING"
                     THEN [f EXCEPT !.rreq[r].state = "BLOCKED_INTERNAL_REDIRECT"]
                ELSE InvokeHandler(f, r)
<1>1. HasToAnswer(r) /\ Becomes(v) /\ CanServe(x.kind, path, 0)
  BY WorldIs DEF InternalRedirect, Redirected
<1>2. w = World /\ none = <<>>
  OBVIOUS
<1> HIDE DEF w
<1>3. Going(w, r) /\ HandedOn(q, x) /\ GoodMatches(nodes)
  BY <1>1, <1>2, AnswererGives
<1> HIDE DEF none
<1>4. Going(u, r) /\ u.xfer = w.xfer /\ u.called[r] = none /\ u.rreq[r].path = path
  BY <1>3, RedirectedGoes
<1> HIDE DEF u
<1>5. CanServe(u.xfer[r].kind, u.rreq[r].path, 0) /\ u.xfer[r] = x
  BY <1>1, <1>4
<1>6. /\ Found(u, r) /\ Going(f, r) /\ f.xfer = u.xfer /\ f.called = u.called
      /\ f.rreq[r].path = u.rreq[r].path
      /\ Ready(u.rreq[r].path, f.rreq[r].node, f.rreq[r].handler, u.xfer[r].kind, <<>>)
  BY <1>3, <1>4, <1>5, FindFirstGoes
<1> HIDE DEF f, x
<1> DEFINE p == f.rreq[r]
<1>7. /\ p.path = path /\ f.xfer[r] = x /\ f.called[r] = none /\ IsRequest(p)
      /\ Ready(path, p.node, p.handler, x.kind, none) /\ HandedOn(p, x)
  BY <1>2, <1>3, <1>4, <1>5, <1>6 DEF HandedOn, Going, IsWorld
<1> HIDE DEF p
<1>8. p = f.rreq[r]
  BY DEF p
<1>9. CASE freed
  <2>1. "used after free" \in Late /\ IsWorld(u)
    BY <1>4 DEF Late, Going
  <2>2. v = Fail(u, "used after free")
    BY <1>9
  <2> HIDE DEF v
  <2>3. Goes(v)
    BY <2>1, <2>2, FailedLate
  <2>4. QED BY <1>1, <2>3, BecomesGoes
<1>10. CASE ~freed /\ rreq[r].state = "INVOKING"
  <2> DEFINE e == InState(p, "BLOCKED_INTERNAL_REDIRECT")
  <2>1. v = [f EXCEPT !.rreq[r].state = "BLOCKED_INTERNAL_REDIRECT"]
    BY <1>6, <1>10
  <2>2. v = WithRequest(f, r, e)
    BY ONLY <1>8, <2>1 DEF WithRequest, InState
  <2>3. IsRequest(e) /\ e.state = "BLOCKED_INTERNAL_REDIRECT" /\ SamePlace(e, p)
    BY <1>7, InStateIs, PlaceKept
  <2> HIDE DEF e, v
  <2>4. Going(v, r) /\ v.rreq[r] = e /\ v.xfer = f.xfer /\ v.called = f.called
    BY <1>6, <2>2, <2>3, GoingWithRequest
  <2>5. WalkKept(e, x, none)
    BY <1>7, <2>3 DEF WalkKept, WalkGood, SamePlace, HandedOn, States
  <2>6. Walks(v, r)
    BY <1>7, <2>4, <2>5 DEF Walks
  <2>7. Goes(v)
    BY <2>4, <2>6, GoingGoes
  <2>8. QED BY <1>1, <2>7, BecomesGoes
<1>11. CASE ~freed /\ rreq[r].state # "INVOKING"
  <2>1. v = InvokeHandler(f, r)
    BY <1>6, <1>11
  <2> HIDE DEF v
  <2>2. Goes(v)
    BY <1>3, <1>6, <1>7, <1>8, <2>1, InvokeHandlerGoes
  <2>3. QED BY <1>1, <2>2, BecomesGoes
<1>12. QED BY <1>9, <1>10, <1>11

(* The connection may be taken from the stream. *)
LEMMA GoingWithOpen ==
  ASSUME NEW r \in Requests, NEW w, Going(w, r), NEW o \in BOOLEAN, NEW v, v = WithOpen(w, o)
  PROVE  /\ Going(v, r) /\ v.rreq = w.rreq /\ v.xfer = w.xfer /\ v.called = w.called
         /\ v.freed = w.freed
<1>1. IsWorld(w)
  BY DEF Going
<1>2. v = [rreq |-> w.rreq, xfer |-> w.xfer, queue |-> w.queue, open |-> o,
           stack |-> w.stack, freed |-> w.freed, fault |-> w.fault, called |-> w.called]
  BY <1>1 DEF IsWorld, WithOpen
<1>3. /\ v.rreq = w.rreq /\ v.xfer = w.xfer /\ v.queue = w.queue /\ v.open = o
      /\ v.stack = w.stack /\ v.freed = w.freed /\ v.fault = w.fault /\ v.called = w.called
  BY <1>2
<1>4. IsWorld(v)
  BY <1>1, <1>2, <1>3 DEF IsWorld
<1>5. \A s \in Requests \ {r}: Walks(v, s)
  BY <1>3 DEF Going, Walks
<1>6. QED BY <1>3, <1>4, <1>5 DEF Going, Recorded

(* dsk_http_server_request_respond_websocket. *)
LEMMA RespondWebsocketGoes ==
  ASSUME OrderInv, Careful, NEW r \in Requests, NEW valid \in BOOLEAN, RespondWebsocket(r, valid)
  PROVE  Goes(World)'
<1> DEFINE w == World
           q == w.rreq[r]
           x == w.xfer[r]
           y == [x EXCEPT !.content = "websocket"]
           u == WithTransfer(w, r, y)
           closed == FALSE
           t == WithOpen(u, closed)
           e == MaybeFree(t.rreq[r])
           v == WithRequest(t, r, e)
<1>1. /\ q.state = "INVOKING"
      /\ Becomes(IF q.mem = "freed" \/ x.failed THEN Fail(w, "used after free")
                 ELSE [[w EXCEPT !.xfer[r].content = "websocket", !.open = FALSE]
                         EXCEPT !.rreq[r] = MaybeFree(@)])
  BY WorldIs DEF RespondWebsocket
<1>2. /\ WorldKept(w) /\ IsWorld(w) /\ Going(w, r) /\ Walks(w, r) /\ w.fault = "none"
  BY OrderGives
<1> HIDE DEF w
<1>3. IsRequest(q) /\ x \in Transfers /\ RequestKept(q, x) /\ TransferKept(q, x, Queued(w, r))
  BY <1>2 DEF WorldKept, IsWorld, Kept
<1>4. x.returned /\ WalkKept(q, x, w.called[r])
  <2>1. q.mem # "none"
    BY <1>1, <1>3 DEF RequestKept
  <2>2. x.returned
    BY <1>3, <2>1 DEF TransferKept
  <2>3. QED BY <1>2, <2>2 DEF Walks
<1>5. CASE q.mem = "freed" \/ x.failed
  <2>1. "used after free" \in Late
    BY DEF Late
  <2>2. Goes(Fail(w, "used after free"))
    BY <1>2, <2>1, FailedLate
  <2>3. Becomes(Fail(w, "used after free"))
    BY <1>1, <1>5
  <2>4. QED BY <2>2, <2>3, BecomesGoes
<1>6. CASE ~(q.mem = "freed" \/ x.failed)
  <2>1. Becomes(v)
    <3>1. Becomes([[w EXCEPT !.xfer[r].content = "websocket", !.open = FALSE]
                      EXCEPT !.rreq[r] = MaybeFree(@)])
      BY <1>1, <1>6
    <3>2. [[w EXCEPT !.xfer[r].content = "websocket", !.open = FALSE]
             EXCEPT !.rreq[r] = MaybeFree(@)] = v
      BY ONLY TRUE DEF WithTransfer, WithOpen, WithRequest
    <3> HIDE DEF v
    <3>3. QED BY <3>1, <3>2
  <2>2. y \in Transfers /\ y.kind = x.kind /\ y.returned = x.returned
    BY <1>3 DEF Transfers
  <2> HIDE DEF y
  <2>3. Going(u, r) /\ u.xfer[r] = y /\ u.rreq = w.rreq /\ u.called = w.called
    BY <1>2, <2>2, GoingWithTransfer
  <2>4. closed \in BOOLEAN
    OBVIOUS
  <2> HIDE DEF u, closed
  <2>5. Going(t, r) /\ t.rreq = u.rreq /\ t.xfer = u.xfer /\ t.called = u.called
    BY <2>3, <2>4, GoingWithOpen
  <2> HIDE DEF t
  <2>6. t.rreq[r] = q /\ t.xfer[r] = y /\ t.called[r] = w.called[r]
    BY <2>3, <2>5
  <2>7. WalkKept(q, y, w.called[r]) /\ y.returned
    BY <1>4, <2>2, WalkStays DEF SamePlace
  <2>8. IsRequest(e) /\ SamePlace(e, q) /\ e.state = q.state
    BY <1>3, <2>6, MaybeFreeIs, PlaceKept
  <2> HIDE DEF e, q, y
  <2>9. Goes(v)
    BY <2>5, <2>6, <2>7, <2>8, SettledGoes
  <2> HIDE DEF v
  <2>10. QED BY <2>1, <2>9, BecomesGoes
<1>7. QED BY <1>5, <1>6

(* What invoke_handler does with the state the handler left. *)
LEMMA ReturnsGoes ==
  ASSUME GoodMatches(nodes), NEW r \in Requests, NEW u, Going(u, r), NEW q, IsRequest(q),
         q.invoking_handler, NEW x, RequestKept(q, x), x.returned,
         NEW c, WalkKept(q, x, c),
         u.rreq[r] = Returned(q), u.xfer[r] = x, u.called[r] = c,
         NEW v, v = Returns(u, r, q.state)
  PROVE  Goes(v)
<1> DEFINE d == Returned(q)
           e == InState(d, "INIT")
           init == WithRequest(u, r, e)
<1>1. IsRequest(d) /\ SamePlace(d, q) /\ d.state = q.state
  <2>1. q.mem # "freed" /\ q.mem # "none"
    BY DEF RequestKept, NotNeeded
  <2>2. QED BY <2>1, ReturnedIs, PlaceKept
<1>2. u.rreq[r] = d /\ WalkKept(d, x, c)
  BY <1>1, WalkStays
<1> HIDE DEF d
<1>3. IsRequest(e) /\ SamePlace(e, d) /\ SamePlace(e, q)
  <2>1. IsRequest(e) /\ SamePlace(e, d)
    BY <1>1, InStateIs, PlaceKept
  <2>2. QED BY <1>1, <2>1 DEF SamePlace
<1>4. WalkGood(q.state, q.path, q.node, q.handler, x.kind, c) /\ HandedOn(q, x)
  BY DEF WalkKept, HandedOn
<1>5. CASE q.state = "INVOKING"
  <2> DEFINE p == InState(d, "WAITING")
  <2>1. v = WithRequest(u, r, p)
    BY <1>2, <1>5 DEF Returns
  <2>2. IsRequest(p) /\ SamePlace(p, d) /\ p.state = "WAITING"
    BY <1>1, InStateIs, PlaceKept
  <2>3. d.state # "BLOCKED_INTERNAL_REDIRECT" /\ p.state \in Settled
    BY <1>1, <1>5, <2>2 DEF Settled
  <2> HIDE DEF p
  <2>4. QED BY <1>2, <2>1, <2>2, <2>3, SettledGoes
<1>6. CASE q.state = "BLOCKED_ERROR"
  <2>1. v = SendError(u, r)
    BY <1>6 DEF Returns
  <2>2. Walks(u, r)
    BY <1>2 DEF Walks
  <2>3. QED BY <2>1, <2>2, SendErrorGoes
<1>7. CASE q.state \in {"BLOCKED_PASS", "BLOCKED_INTERNAL_REDIRECT"}
  <2>1. /\ q.state = "BLOCKED_PASS" => v = PassOn(init, r)
        /\ q.state = "BLOCKED_INTERNAL_REDIRECT" => v = InvokeHandler(init, r)
    BY <1>2, <1>7 DEF Returns
  <2> HIDE DEF e
  <2>2. Going(init, r) /\ init.rreq[r] = e /\ init.xfer = u.xfer /\ init.called = u.called
    BY <1>3, GoingWithRequest
  <2> HIDE DEF init
  <2>3. init.xfer[r] = x /\ init.called[r] = c /\ HandedOn(e, x)
    BY <1>3, <1>4, <2>2 DEF HandedOn, SamePlace
  <2>4. CASE q.state = "BLOCKED_PASS"
    <3>1. InHand(e.path, e.node, e.handler, x.kind, c) /\ More(e.path, x.kind, c)
      BY <1>3, <1>4, <2>4 DEF WalkGood, SamePlace
    <3>2. QED BY <2>1, <2>2, <2>3, <2>4, <3>1, PassOnGoes
  <2>5. CASE q.state = "BLOCKED_INTERNAL_REDIRECT"
    <3>1. Ready(e.path, e.node, e.handler, x.kind, c)
      BY <1>3, <1>4, <2>5 DEF WalkGood, SamePlace
    <3>2. QED BY <2>1, <2>2, <2>3, <2>5, <3>1, InvokeHandlerGoes
  <2>6. QED BY <1>7, <2>4, <2>5
<1>8. CASE q.state = "GOT_RESPONSE_WHILE_INVOKING"
  <2> DEFINE p == MaybeFree(d)
  <2>1. v = WithRequest(u, r, p)
    BY <1>2, <1>8 DEF Returns
  <2>2. IsRequest(p) /\ SamePlace(p, d) /\ p.state = d.state
    BY <1>1, MaybeFreeIs, PlaceKept
  <2> HIDE DEF p
  <2>3. QED BY <1>2, <2>1, <2>2, SettledGoes
<1>9. q.state \in {"INVOKING", "BLOCKED_ERROR", "BLOCKED_PASS",
                   "BLOCKED_INTERNAL_REDIRECT", "GOT_RESPONSE_WHILE_INVOKING"}
  <2>1. q.state \notin {"INIT", "WAITING", "GOT_RESPONSE"}
    BY DEF RequestKept
  <2>2. q.state \notin {"INIT", "NEED_POST_DATA"}
    BY <1>4 DEF WalkGood
  <2>3. q.state \in States
    BY DEF WalkKept
  <2>4. QED BY <2>1, <2>2, <2>3 DEF States
<1>10. QED BY <1>5, <1>6, <1>7, <1>8, <1>9

(* The innermost call is over: its request is on its walk still. *)
LEMMA GoingReturned ==
  ASSUME NEW r \in Requests, NEW w, Going(w, r), NEW s, NEW t, t = WithStack(w, s),
         NEW e, IsRequest(e), NEW u, u = WithRequest(t, r, e), IsWorld(u), u.fault = "none",
         u.rreq[r] = e, u.xfer = w.xfer
  PROVE  Going(u, r) /\ u.called = w.called
<1>1. IsWorld(w) /\ Recorded(w)
  BY DEF Going
<1>2. t.rreq = w.rreq /\ t.called = w.called /\ t.open = w.open
  BY <1>1 DEF IsWorld, WithStack
<1>3. u.called = w.called /\ u.open = w.open
  <2>1. u.called = t.called /\ u.open = t.open
    BY <1>1 DEF WithRequest, IsWorld, WithStack
  <2>2. QED BY <1>2, <2>1
<1>4. \A i \in Requests \ {r}: u.rreq[i] = w.rreq[i]
  <2>1. u.rreq = [t.rreq EXCEPT ![r] = e]
    BY <1>1 DEF WithRequest, IsWorld, WithStack
  <2>2. w.rreq = [i \in Requests |-> w.rreq[i]]
    BY <1>1 DEF IsWorld
  <2>3. QED BY <1>2, <2>1, <2>2
<1>5. \A i \in Requests \ {r}: Walks(u, i)
  BY <1>3, <1>4 DEF Going, Walks
<1>6. QED BY <1>1, <1>3, <1>5 DEF Going, Recorded

(* invoke_handler after the handler returned, which may call the next one. *)
LEMMA HandlerReturnsGoes ==
  ASSUME OrderInv, HandlerReturns
  PROVE  Goes(World)'
<1> DEFINE w == World
           r == Last(w.stack).request
           q == w.rreq[r]
           t == WithStack(w, Front(w.stack))
           e == Returned(q)
           u == WithRequest(t, r, e)
           v == Returns(u, r, q.state)
<1>1. w.stack # <<>>
  BY WorldIs DEF HandlerReturns
<1>2. /\ WorldKept(w) /\ w.fault = "none" /\ GoodMatches(nodes)
      /\ \A s \in Requests: Going(w, s) /\ Walks(w, s)
  BY OrderGives
<1>3. Becomes(v)
  <2> DEFINE u0 == [w EXCEPT !.stack = Front(@), !.rreq[r].invoking_handler = FALSE]
             i0 == [u0 EXCEPT !.rreq[r].state = "INIT"]
             v0 == CASE q.state = "INVOKING" -> [u0 EXCEPT !.rreq[r].state = "WAITING"]
                     [] q.state = "BLOCKED_ERROR" -> SendError(u0, r)
                     [] q.state = "BLOCKED_PASS" -> PassOn(i0, r)
                     [] q.state = "BLOCKED_INTERNAL_REDIRECT" -> InvokeHandler(i0, r)
                     [] q.state = "GOT_RESPONSE_WHILE_INVOKING" ->
                          [u0 EXCEPT !.rreq[r] = MaybeFree(@)]
                     [] OTHER -> Fail(u0, "should not get here")
  <2>1. Becomes(v0)
    <3>1. w.stack = stack /\ w.rreq = rreq
      BY WorldIs
    <3>2. r = Last(stack).request /\ q.state = rreq[r].state
      BY <3>1
    <3> HIDE DEF r
    <3>3. QED BY <3>2 DEF HandlerReturns
  <2> HIDE DEF w, r
  <2>2. u0 = u
    <3>1. u0 = WithRequest(t, r, Returned(t.rreq[r]))
      BY DEF WithRequest, WithStack, Returned
    <3>2. t.rreq = w.rreq
      BY <1>2 DEF WithStack, WorldKept, IsWorld
    <3>3. QED BY <3>1, <3>2
  <2> HIDE DEF u0, u
  <2>3. /\ i0 = WithRequest(u0, r, InState(u0.rreq[r], "INIT"))
        /\ [u0 EXCEPT !.rreq[r].state = "WAITING"] =
             WithRequest(u0, r, InState(u0.rreq[r], "WAITING"))
        /\ [u0 EXCEPT !.rreq[r] = MaybeFree(@)] = WithRequest(u0, r, MaybeFree(u0.rreq[r]))
    BY ONLY TRUE DEF WithRequest, InState
  <2> HIDE DEF i0
  <2>4. v0 = v
    BY <2>2, <2>3 DEF Returns
  <2> HIDE DEF v0, v
  <2>5. QED BY <2>1, <2>4
<1> HIDE DEF w
<1>4. r = Last(w.stack).request
  OBVIOUS
<1> HIDE DEF r
<1>5. /\ r \in Requests /\ Kept(w, r) /\ q.invoking_handler
      /\ IsRequest(q) /\ w.xfer[r] \in Transfers
  BY <1>1, <1>2, <1>4, CallEnded
<1>6. Between(u, r) /\ u.rreq[r] = e /\ u.xfer = w.xfer
  BY <1>1, <1>2, <1>4, CallEnded
<1>7. RequestKept(q, w.xfer[r]) /\ TransferKept(q, w.xfer[r], Queued(w, r))
  BY <1>5 DEF Kept
<1>8. q.mem = "live" /\ w.xfer[r].returned
  BY <1>5, <1>7 DEF RequestKept, TransferKept, NotNeeded, IsRequest, Memory
<1>9. IsRequest(e)
  BY <1>5, <1>8, ReturnedIs
<1> HIDE DEF e
<1>10. IsWorld(u) /\ u.fault = "none"
  BY <1>6 DEF Between
<1>11. Going(u, r) /\ u.called = w.called
  <2>1. Going(w, r)
    BY <1>2, <1>5
  <2>2. u = WithRequest(t, r, e) /\ t = WithStack(w, Front(w.stack))
    OBVIOUS
  <2> HIDE DEF u, t
  <2>3. PICK s: s = Front(w.stack)
    OBVIOUS
  <2>4. QED BY <1>5, <1>6, <1>9, <1>10, <2>1, <2>2, <2>3, GoingReturned
<1> HIDE DEF u
<1>12. PICK c: c = w.called[r]
  OBVIOUS
<1>13. WalkKept(q, w.xfer[r], c)
  BY <1>2, <1>5, <1>12 DEF Walks
<1>14. u.rreq[r] = Returned(q) /\ u.xfer[r] = w.xfer[r] /\ u.called[r] = c
  BY <1>6, <1>11, <1>12 DEF e
<1> HIDE DEF q
<1>15. Goes(v)
  <2>1. v = Returns(u, r, q.state)
    OBVIOUS
  <2> HIDE DEF v
  <2>2. PICK x: x = w.xfer[r]
    OBVIOUS
  <2>3. /\ RequestKept(q, x) /\ x.returned /\ WalkKept(q, x, c)
        /\ u.xfer[r] = x
    BY <1>7, <1>8, <1>13, <1>14, <2>2
  <2>4. QED BY <1>2, <1>5, <1>11, <1>14, <2>1, <2>3, ReturnsGoes
<1> HIDE DEF v
<1>16. QED BY <1>3, <1>15, BecomesGoes

(* handle_http_server_request_available: the first handler to try is there. *)
LEMMA HandleRequestAvailableGoes ==
  ASSUME OrderInv, Careful, NEW r \in Requests, HandleRequestAvailable(r)
  PROVE  Goes(World)'
<1> DEFINE w == World
           q == w.rreq[r]
           x == w.xfer[r]
           y == Handed(x)
           e == Live(q)
           t == WithTransfer(w, r, y)
           u == WithRequest(t, r, e)
           f == FindFirst(u, r)
           v == IF Found(u, r) THEN InvokeHandler(f, r) ELSE NoHandlerFound(u, r)
<1>1. Becomes(v)
  <2> DEFINE u0 == [w EXCEPT !.xfer[r].returned = TRUE, !.rreq[r].mem = "live"]
  <2>1. Becomes(IF Found(u0, r) THEN InvokeHandler(FindFirst(u0, r), r)
                ELSE NoHandlerFound(u0, r))
    BY DEF HandleRequestAvailable
  <2>2. IsWorld(w)
    BY OrderGives
  <2> HIDE DEF w
  <2>3. u0 = WithRequest(t, r, Live(t.rreq[r]))
    BY ONLY TRUE DEF WithRequest, WithTransfer, Handed, Live
  <2>4. t.rreq = w.rreq
    BY <2>2 DEF WithTransfer, IsWorld
  <2>5. u0 = u
    BY <2>3, <2>4
  <2> HIDE DEF u0, u
  <2>6. QED BY <2>1, <2>5
<1>2. ~x.returned /\ CanServe(x.kind, q.path, 0)
  BY WorldIs DEF HandleRequestAvailable
<1>3. /\ Going(w, r) /\ Walks(w, r) /\ IsWorld(w) /\ GoodMatches(nodes)
  BY OrderGives
<1> HIDE DEF w
<1>4. IsRequest(q) /\ x \in Transfers
  BY <1>3 DEF IsWorld
<1>5. PICK none: none = <<>>
  OBVIOUS
<1>6. w.called[r] = none /\ q.path \in Paths /\ x.kind \in Kinds \cup {"get"}
  BY <1>2, <1>3, <1>5 DEF Walks, WalkKept
<1>7. y \in Transfers /\ y.returned /\ y.kind = x.kind
  BY <1>4, HandedIs
<1>8. IsRequest(e) /\ e.path = q.path
  BY <1>4, LiveIs, PlaceKept DEF SamePlace
<1> HIDE DEF y, e, q, x
<1>9. Going(t, r) /\ t.xfer[r] = y /\ t.called = w.called
  BY <1>3, <1>7, GoingWithTransfer
<1> HIDE DEF t
<1>10. Going(u, r) /\ u.rreq[r] = e /\ u.xfer[r] = y /\ u.called[r] = none
  BY <1>6, <1>8, <1>9, GoingWithRequest
<1> HIDE DEF u
<1>11. CanServe(u.xfer[r].kind, u.rreq[r].path, 0)
  BY <1>2, <1>7, <1>8, <1>10
<1>12. /\ Found(u, r) /\ Going(f, r) /\ f.xfer = u.xfer /\ f.called = u.called
       /\ f.rreq[r].path = u.rreq[r].path
       /\ Ready(u.rreq[r].path, f.rreq[r].node, f.rreq[r].handler, u.xfer[r].kind, <<>>)
  BY <1>3, <1>10, <1>11, FindFirstGoes
<1>13. v = InvokeHandler(f, r)
  BY <1>12
<1> HIDE DEF f, v
<1>14. /\ HandedOn(f.rreq[r], f.xfer[r])
       /\ Ready(f.rreq[r].path, f.rreq[r].node, f.rreq[r].handler, f.xfer[r].kind, f.called[r])
  BY <1>5, <1>6, <1>7, <1>8, <1>10, <1>12 DEF HandedOn
<1>15. Goes(v)
  BY <1>3, <1>12, <1>13, <1>14, InvokeHandlerGoes
<1>16. QED BY <1>1, <1>15, BecomesGoes

(* The queue says nothing of walks. *)
LEMMA GoesWithQueue ==
  ASSUME NEW w, IsWorld(w), NEW l, NEW v, v = WithQueue(w, l)
  PROVE  /\ v.rreq = w.rreq /\ v.xfer = w.xfer /\ v.called = w.called
         /\ v.fault = w.fault /\ v.open = w.open /\ (Goes(w) => Goes(v))
<1>1. /\ v.rreq = w.rreq /\ v.xfer = w.xfer /\ v.called = w.called
      /\ v.fault = w.fault /\ v.open = w.open
  BY DEF IsWorld, WithQueue
<1>2. QED BY <1>1 DEF Goes, Recorded, Walks

(* A request that arrives has not been handed to anyone. *)
LEMMA ReceiveGoes ==
  ASSUME OrderInv, NEW r \in Requests, NEW kind \in Kinds, NEW path \in Paths,
         Receive(r, kind, path)
  PROVE  Goes(World)'
<1> DEFINE w == World
           x == w.xfer[r]
           q == w.rreq[r]
           y == Arrived(x, kind)
           e == AtPath(q, path)
           t == WithTransfer(w, r, y)
           u == WithRequest(t, r, e)
           line == Append(w.queue, r)
           v == WithQueue(u, line)
<1>1. Becomes(v)
  <2> DEFINE v0 == [w EXCEPT !.xfer[r].mem = "live", !.xfer[r].kind = kind,
                             !.rreq[r].path = path, !.queue = Append(@, r)]
  <2>1. Becomes(v0)
    BY DEF Receive
  <2>2. IsWorld(w)
    BY OrderGives
  <2> HIDE DEF w
  <2>3. v0 = v
    BY <2>2, ReceivedInSteps
  <2> HIDE DEF v0, v
  <2>4. QED BY <2>1, <2>3
<1>2. w.xfer[r].mem = "none"
  <2>1. Received = 1..r - 1 /\ r \in Nat
    BY HttpServerAssumption DEF Receive, Requests
  <2>2. r \notin Received
    BY <2>1
  <2>3. QED BY <2>2, WorldIs DEF Received
<1>3. WorldKept(w) /\ Going(w, r) /\ Walks(w, r)
  BY OrderGives
<1> HIDE DEF w
<1>4. IsRequest(q) /\ x \in Transfers /\ ~x.returned
  BY <1>2, <1>3 DEF WorldKept, IsWorld, Kept, TransferKept
<1>5. PICK none: none = <<>>
  OBVIOUS
<1>6. w.called[r] = none /\ q.state \in States
  BY <1>3, <1>4, <1>5 DEF Walks, WalkKept
<1>7. y \in Transfers /\ ~y.returned /\ y.kind = kind
  <2>1. kind \in {"get", "post", "websocket"}
    BY HttpServerAssumption
  <2>2. y \in Transfers /\ ~y.returned
    BY <1>4, <2>1, ArrivedIs
  <2>3. y.kind = kind
    BY <1>4 DEF Arrived, Transfers
  <2>4. QED BY <2>2, <2>3
<1>8. IsRequest(e) /\ e.path = path /\ e.state = q.state
  <2>1. IsRequest(e) /\ SameRequest(e, q)
    BY <1>4, AtPathIs
  <2>2. e.path = path
    BY <1>4 DEF AtPath, IsRequest
  <2>3. QED BY <2>1, <2>2 DEF SameRequest
<1> HIDE DEF y, e, x, q, line
<1>9. Going(t, r) /\ t.xfer[r] = y /\ t.called = w.called
  BY <1>3, <1>7, GoingWithTransfer
<1> HIDE DEF t
<1>10. Going(u, r) /\ u.rreq[r] = e /\ u.xfer[r] = y /\ u.called[r] = none
  BY <1>6, <1>8, <1>9, GoingWithRequest
<1> HIDE DEF u
<1>11. Walks(u, r)
  BY <1>5, <1>6, <1>7, <1>8, <1>10 DEF Walks, WalkKept
<1>12. Goes(u) /\ IsWorld(u)
  BY <1>10, <1>11, GoingGoes DEF Going
<1>13. Goes(v)
  BY <1>12, GoesWithQueue
<1> HIDE DEF v
<1>14. QED BY <1>1, <1>13, BecomesGoes

(* A response that ends moves nobody. *)
LEMMA FinishTransferGoes ==
  ASSUME OrderInv, FinishTransfer
  PROVE  Goes(World)'
<1> DEFINE w == World
           r == w.queue[1]
           x == w.xfer[r]
           q == w.rreq[r]
           y == Gone(x)
           e == TransferDestroyed(q)
           rest == Tail(w.queue)
           t == WithRequest(w, r, e)
           u == WithTransfer(t, r, y)
           s0 == WithQueue(u, rest)
           v == StartTransfers(s0)
<1>1. Becomes(v)
  <2> DEFINE v0 == [w EXCEPT !.queue = Tail(@), !.rreq[r] = TransferDestroyed(@),
                             !.xfer[r].mem = "freed"]
  <2>1. Becomes(StartTransfers(v0))
    <3>1. queue[1] = r
      BY WorldIs
    <3> HIDE DEF r
    <3>2. QED BY <3>1 DEF FinishTransfer
  <2>2. IsWorld(w)
    BY OrderGives
  <2> HIDE DEF w, r
  <2>3. v0 = s0
    BY <2>2 DEF WithTransfer, WithRequest, IsWorld, WithQueue, Gone
  <2> HIDE DEF v0, s0
  <2>4. QED BY <2>1, <2>3
<1>2. w.queue # <<>>
  BY WorldIs DEF FinishTransfer
<1>3. IsWorld(w) /\ \A s \in Requests: Going(w, s) /\ Walks(w, s)
  BY OrderGives
<1> HIDE DEF w
<1>4. w.queue \in Seq(Requests) /\ Distinct(w.queue)
  BY <1>3 DEF IsWorld
<1>5. r \in Requests /\ rest \in Seq(Requests) /\ Distinct(rest)
  <2> DEFINE l == w.queue
             a == SubSeq(l, 1 + 1, Len(l))
  <2>1. l \in Seq(Requests) /\ Distinct(l) /\ 1 \in 0..Len(l) /\ l[1] = r /\ l # <<>>
    BY <1>2, <1>4
  <2>2. rest = a
    BY <2>1 DEF rest
  <2> HIDE DEF l
  <2>3. a \in Seq(Requests) /\ Distinct(a)
    BY <2>1, RestOfQueue
  <2>4. r \in Requests
    BY <2>1
  <2> HIDE DEF a, rest
  <2>5. QED BY <2>2, <2>3, <2>4
<1> HIDE DEF r, rest
<1>6. IsRequest(q) /\ x \in Transfers /\ WalkKept(q, x, w.called[r])
  BY <1>3, <1>5 DEF IsWorld, Walks
<1>7. y \in Transfers /\ y.kind = x.kind /\ y.returned = x.returned
  BY <1>6 DEF Gone, Transfers, Memory
<1>8. IsRequest(e) /\ SamePlace(e, q) /\ e.state = q.state
  BY <1>6, PlaceKept, TransferDestroyedIs
<1> HIDE DEF x, q, y, e
<1>9. Going(w, r)
  BY <1>3, <1>5
<1>10. Going(t, r) /\ t.rreq[r] = e /\ t.called = w.called
  BY <1>5, <1>8, <1>9, GoingWithRequest
<1> HIDE DEF t
<1>11. Going(u, r) /\ u.rreq[r] = e /\ u.xfer[r] = y /\ u.called[r] = w.called[r]
  BY <1>5, <1>7, <1>10, GoingWithTransfer
<1> HIDE DEF u
<1>12. Walks(u, r)
  <2>1. WalkKept(e, y, w.called[r])
    BY <1>6, <1>7, <1>8, WalkStays
  <2>2. QED BY <1>11, <2>1 DEF Walks
<1>13. Goes(u) /\ IsWorld(u) /\ u.fault = "none"
  BY <1>5, <1>11, <1>12, GoingGoes DEF Going
<1>14. Goes(s0) /\ s0.fault = "none"
  BY <1>13, GoesWithQueue
<1>15. IsWorld(s0)
  BY <1>5, <1>13, WorldWithQueue
<1> HIDE DEF s0
<1>16. Goes(v)
  <2>1. /\ v.fault = "none" /\ SameRecord(v, s0)
        /\ \A s \in Requests: StaysThere(v, s0, s)
    BY <1>14, <1>15, StartTransfersStays
  <2> HIDE DEF v
  <2>2. \A s \in Requests: Walks(v, s)
    BY <1>14, <2>1, WalksOn DEF Goes
  <2>3. QED BY <1>14, <2>1, <2>2 DEF Goes, SameRecord, Recorded
<1> HIDE DEF v
<1>17. QED BY <1>1, <1>16, BecomesGoes

(* The client goes away. *)
LEMMA ClientGoneGoes ==
  ASSUME OrderInv, ClientGone
  PROVE  Goes(World)'
<1>1. PICK w: w = World
  OBVIOUS
<1>2. IsWorld(w) /\ Goes(w) /\ w.fault = "none"
  BY <1>1, OrderGives
<1>3. PICK v: v = DoShutdown(w)
  OBVIOUS
<1>4. Goes(v)
  BY <1>2, <1>3, DoShutdownGoes
<1>5. Becomes(v)
  BY <1>1, <1>3 DEF ClientGone
<1>6. QED BY <1>4, <1>5, BecomesGoes

(* dsk_http_server_finalize. *)
LEMMA FinalizeGoes ==
  ASSUME OrderInv, Finalize
  PROVE  Goes(World)'
<1>1. PICK w: w = World
  OBVIOUS
<1>2. IsWorld(w) /\ Goes(w) /\ w.fault = "none"
  BY <1>1, OrderGives
<1>3. PICK u, t: u = DoShutdown(w) /\ t = TRUE
  OBVIOUS
<1>4. PICK v: v = [u EXCEPT !.freed = t]
  OBVIOUS
<1>5. Goes(v)
  BY <1>2, <1>3, <1>4, DoShutdownGoes
<1>6. Becomes(v)
  BY <1>1, <1>3, <1>4 DEF Finalize
<1>7. QED BY <1>5, <1>6, BecomesGoes

-----------------------------------------------------------------------------
(* Every step keeps the requests on their walks. *)

(* Registration ends before the first request arrives. *)
LEMMA ConfigureGoes ==
  ASSUME OrderInv, Configure
  PROVE  /\ Goes(World)' /\ TreeKept'
         /\ (current # 0 => \A r \in Requests: ~xfer[r].returned)'
<1>1. current # 0 /\ UNCHANGED requests
  BY DEF Configure, AddMatch, MatchSave, MatchRestore, Listen, RegisterHandler
<1>2. World' = World
  BY <1>1 DEF requests, World
<1>3. PICK w: w = World
  OBVIOUS
<1>4. Goes(w) /\ w.fault = "none"
  BY <1>3, OrderGives
<1>5. \A s \in Requests: ~w.xfer[s].returned
  BY <1>1, <1>3, WorldIs DEF OrderInv
<1>6. \A s \in Requests: Walks(World, s)'
  BY <1>2, <1>3, <1>4, <1>5 DEF Goes, Walks, WalkKept
<1>7. Goes(World)'
  BY <1>2, <1>3, <1>4, <1>6 DEF Goes, Recorded
<1>8. TreeKept'
  BY RegistrationKeepsTree DEF OrderInv
<1>9. (\A r \in Requests: ~xfer[r].returned)'
  BY <1>1 DEF OrderInv, requests
<1>10. QED BY <1>7, <1>8, <1>9

(* Whatever a handler answers keeps the requests on their walks. *)
LEMMA AnswerGoes ==
  ASSUME OrderInv, Careful, NEW r \in Requests, Answer(r)
  PROVE  Goes(World)'
<1>1. ASSUME NEW content \in {"empty", "body"}, Respond(r, content) PROVE Goes(World)'
  BY <1>1, RespondGoes
<1>2. CASE RespondWithError(r)
  BY <1>2, RespondWithErrorGoes
<1>3. CASE Redirect(r)
  BY <1>3, RedirectGoes
<1>4. CASE Pass(r)
  BY <1>4, PassGoes
<1>5. ASSUME NEW path \in Paths, InternalRedirect(r, path) PROVE Goes(World)'
  BY <1>5, InternalRedirectGoes
<1>6. ASSUME NEW valid \in BOOLEAN, RespondWebsocket(r, valid) PROVE Goes(World)'
  BY <1>6, RespondWebsocketGoes
<1>7. QED BY <1>1, <1>2, <1>3, <1>4, <1>5, <1>6 DEF Answer

(* Requests arrive and are answered once the server listens. *)
LEMMA ListensThen ==
  ASSUME Next, ~Configure
  PROVE  current = 0 /\ UNCHANGED config
<1>1. ASSUME NEW v, Becomes(v) PROVE UNCHANGED config
  BY <1>1 DEF Becomes
<1>2. CASE \E r \in Requests: \/ \E kind \in Kinds, path \in Paths: Receive(r, kind, path)
                              \/ HandleRequestAvailable(r)
  BY <1>1, <1>2 DEF Receive, HandleRequestAvailable, InLoop, Running
<1>3. CASE \E r \in Requests: Answer(r)
  <2>1. PICK r \in Requests: Answer(r)
    BY <1>3
  <2>2. ASSUME NEW c, Respond(r, c) \/ RespondWebsocket(r, c) \/ InternalRedirect(r, c)
        PROVE  current = 0 /\ UNCHANGED config
    BY <1>1, <2>2
       DEF Respond, InternalRedirect, RespondWebsocket, HasToAnswer, InCallback, Running
  <2>3. ASSUME RespondWithError(r) \/ Redirect(r) \/ Pass(r)
        PROVE  current = 0 /\ UNCHANGED config
    BY <1>1, <2>3 DEF RespondWithError, Redirect, Pass, HasToAnswer, InCallback, Running
  <2>4. QED BY <2>1, <2>2, <2>3 DEF Answer
<1>4. CASE FinishTransfer \/ ClientGone \/ Finalize \/ HandlerReturns
  BY <1>1, <1>4
     DEF FinishTransfer, ClientGone, Finalize, HandlerReturns, InLoop, InCallback, Running
<1>5. QED BY <1>2, <1>3, <1>4 DEF Next

(* And so does every step. *)
LEMMA NextGoes ==
  ASSUME OrderInv, Careful, Next
  PROVE  /\ Goes(World)' /\ TreeKept'
         /\ (current # 0 => \A r \in Requests: ~xfer[r].returned)'
<1>1. CASE Configure
  BY <1>1, ConfigureGoes
<1>2. CASE ~Configure
  <2>1. current = 0 /\ nodes' = nodes /\ current' = current
    BY <1>2, ListensThen DEF config
  <2>2. TreeKept'
    BY <2>1 DEF OrderInv, TreeKept
  <2>3. ASSUME NEW r \in Requests, NEW kind \in Kinds, NEW path \in Paths,
               Receive(r, kind, path)
        PROVE  Goes(World)'
    BY <2>3, ReceiveGoes
  <2>4. ASSUME NEW r \in Requests, HandleRequestAvailable(r) PROVE Goes(World)'
    BY <2>4, HandleRequestAvailableGoes
  <2>5. ASSUME NEW r \in Requests, Answer(r) PROVE Goes(World)'
    BY <2>5, AnswerGoes
  <2>6. ASSUME FinishTransfer PROVE Goes(World)'
    BY <2>6, FinishTransferGoes
  <2>7. ASSUME ClientGone PROVE Goes(World)'
    BY <2>7, ClientGoneGoes
  <2>8. ASSUME Finalize PROVE Goes(World)'
    BY <2>8, FinalizeGoes
  <2>9. ASSUME HandlerReturns PROVE Goes(World)'
    BY <2>9, HandlerReturnsGoes
  <2>10. QED BY <1>2, <2>1, <2>2, <2>3, <2>4, <2>5, <2>6, <2>7, <2>8, <2>9 DEF Next
<1>3. QED BY <1>1, <1>2

(* The invariant is inductive: nothing fails, as ServerInv leaves only the *)
(* search for a handler to fail, and a request on its walk finds one. *)
LEMMA OrderGoesOn ==
  ASSUME OrderInv, Careful, [Next]_vars
  PROVE  OrderInv'
<1>1. CASE UNCHANGED vars
  <2>1. World' = World /\ nodes' = nodes /\ current' = current /\ xfer' = xfer /\ fault' = fault
    BY <1>1 DEF vars, World
  <2>2. Goes(World)' /\ TreeKept' /\ ServerInv'
    <3>1. \A s \in Requests: Walks(World, s)' <=> Walks(World, s)
      BY <2>1 DEF Walks, WalkKept, WalkGood, Ready, InHand, Servable, More
    <3>2. Goes(World)'
      BY <2>1, <3>1 DEF OrderInv, Goes, Recorded
    <3>3. TreeKept' /\ ServerInv'
      BY <2>1 DEF OrderInv, TreeKept, ServerInv
    <3>4. QED BY <3>2, <3>3
  <2>3. QED BY <2>1, <2>2 DEF OrderInv
<1>2. CASE Next
  <2>1. /\ Goes(World)' /\ TreeKept'
        /\ (current # 0 => \A r \in Requests: ~xfer[r].returned)'
    BY <1>2, NextGoes
  <2>2. ServerInv'
    BY StepKeeps DEF OrderInv
  <2>3. fault' = "none"
    <3>1. PICK v: v = World'
      OBVIOUS
    <3>2. v.fault \in Late \cup {"none"} /\ v.fault \in {"none", "null pointer", "should not get here"}
      BY <2>1, <2>2, <3>1 DEF Goes, ServerInv, Survives
    <3>3. v.fault = fault'
      BY <3>1 DEF World
    <3>4. QED BY <3>2, <3>3 DEF Late
  <2>4. QED BY <2>1, <2>2, <2>3 DEF OrderInv
<1>3. QED BY <1>1, <1>2

(* It holds at first. *)
LEMMA OrderStarts == Init => OrderInv
<1> SUFFICES ASSUME Init PROVE OrderInv
  OBVIOUS
<1>1. ServerInv /\ fault = "none" /\ TreeKept
  BY StartsKept, StartsWithTop, WorldIs DEF ServerInv, Survives, Init
<1>2. PICK none: none = <<>>
  OBVIOUS
<1>3. \A r \in Requests: rreq[r] = NoRequest /\ xfer[r] = NoTransfer /\ called[r] = none
  BY <1>2 DEF Init
<1>4. called = [r \in Requests |-> called[r]] /\ open \in BOOLEAN
  BY DEF Init
<1>5. NoRequest.path \in Paths /\ NoRequest.state \in States
  BY HttpServerAssumption DEF NoRequest, States
<1>6. NoTransfer.kind = "get" /\ ~NoTransfer.returned
  BY DEF NoTransfer
<1>7. WalkKept(NoRequest, NoTransfer, none)
  BY <1>2, <1>5, <1>6 DEF WalkKept
<1>8. \A r \in Requests: Walks(World, r)
  BY <1>3, <1>7, WorldIs DEF Walks
<1>9. Goes(World)
  BY <1>1, <1>4, <1>8, WorldIs DEF Goes, Recorded
<1>10. \A r \in Requests: ~xfer[r].returned
  BY <1>3, <1>6
<1>11. QED BY <1>1, <1>9, <1>10 DEF OrderInv

(* TypeOK is a part of it. *)
LEMMA OrderTypes ==
  ASSUME OrderInv
  PROVE  TypeOK
<1>1. PICK w: w = World
  OBVIOUS
<1>2. IsWorld(w) /\ Goes(w) /\ w.fault = "none"
  BY <1>1, OrderGives
<1>3. /\ w.rreq = rreq /\ w.xfer = xfer /\ w.queue = queue /\ w.open = open
      /\ w.stack = stack /\ w.freed = freed
  BY <1>1, WorldIs
<1>4. current \in 0..Len(nodes) /\ Len(nodes) \in 1..MaxNodes
  <2>1. TreeKept
    BY DEF OrderInv
  <2>2. Len(nodes) \in Nat \ {0} /\ Len(nodes) <= MaxNodes
    BY <2>1 DEF TreeKept, MatchesKept, GoodMatches
  <2>3. MaxNodes \in Nat
    BY HttpServerAssumption
  <2>4. QED BY <2>1, <2>2, <2>3 DEF TreeKept
<1>5. ASSUME NEW r \in Requests
      PROVE  /\ rreq[r].mem \in {"none", "live", "freed"} /\ rreq[r].state \in States
             /\ xfer[r].mem \in {"none", "live", "freed"} /\ xfer[r].kind \in Kinds \cup {"get"}
             /\ xfer[r].content \in {"none", "empty", "body", "websocket"}
  <2>1. WalkKept(w.rreq[r], w.xfer[r], w.called[r])
    BY <1>2 DEF Goes, Walks
  <2>2. IsRequest(rreq[r]) /\ xfer[r] \in Transfers
    BY <1>2, <1>3 DEF IsWorld
  <2>3. rreq[r].state \in States /\ xfer[r].kind \in Kinds \cup {"get"}
    BY <1>3, <2>1 DEF WalkKept
  <2>4. QED BY <2>2, <2>3 DEF IsRequest, Transfers, Memory
<1>6. queue \in Seq(Requests) /\ open \in BOOLEAN /\ freed \in BOOLEAN
  BY <1>2, <1>3 DEF IsWorld, Goes, Recorded
<1>7. \A i \in DOMAIN stack: stack[i].request \in Requests
  <2>1. stack \in Seq([request: Requests, calls: BOOLEAN])
    BY <1>2, <1>3 DEF IsWorld
  <2>2. PICK C: C = [request: Requests, calls: BOOLEAN]
    OBVIOUS
  <2>3. stack \in Seq(C)
    BY <2>1, <2>2
  <2>4. \A i \in DOMAIN stack: stack[i] \in C
    BY ONLY <2>3
  <2>5. \A c \in C: c.request \in Requests
    BY <2>2
  <2>6. QED BY <2>4, <2>5
<1>8. QED BY <1>4, <1>5, <1>6, <1>7 DEF TypeOK

(* Careful handlers keep it for ever. In particular no assertion of the *)
(* server fails, no response is given twice, nothing is used after it was *)
(* freed, and find_next_match is never asked for a handler that is not *)
(* there (dsk-http-server.c). *)
THEOREM OrderInvHolds ==
  ASSUME Careful PROVE Spec => []OrderInv
<1>1. OrderInv /\ [Next]_vars => OrderInv'
  BY OrderGoesOn
<1>2. QED BY <1>1, OrderStarts, PTL DEF Spec

(* Every variable of the model of dsk-http-server.c keeps its type: states *)
(* are states, the stack and the queue hold requests, the tree has at most *)
(* MaxNodes nodes. *)
THEOREM TypesHold ==
  ASSUME Careful PROVE Spec => []TypeOK
<1>1. OrderInv => TypeOK
  BY OrderTypes
<1>2. QED BY <1>1, OrderInvHolds, PTL

(* In runs without what Careful leaves out, where each path asked for, or *)
(* redirected to, has a handler left that suits the request: whatever *)
(* redirects, passes and errors there were, at once or late, the handlers *)
(* called for a request since its path was set are the first ones of the *)
(* order in which the match tree ought to be *)
(* searched: deeper matches before their parents, earlier registered *)
(* before later, and only handlers for its kind of request *)
(* (find_first_match, find_next_match, invoke_handler and *)
(* dsk_http_server_request_pass of dsk-http-server.c). *)
THEOREM HandlersTriedInOrder ==
  ASSUME Careful PROVE Spec => []TriedInOrder
<1>1. OrderInv => TriedInOrder
  <2> SUFFICES ASSUME OrderInv, NEW r \in Requests
               PROVE  IsPrefix(called[r], ToTry(xfer[r].kind, rreq[r].path))
    BY DEF TriedInOrder
  <2>1. PICK w: w = World
    OBVIOUS
  <2>2. GoodMatches(nodes) /\ WalkKept(w.rreq[r], w.xfer[r], w.called[r])
    BY <2>1, OrderGives DEF Walks
  <2>3. w.rreq = rreq /\ w.xfer = xfer /\ w.called = called
    BY <2>1, WorldIs
  <2>4. PICK q, x, c: q = rreq[r] /\ x = xfer[r] /\ c = called[r]
    OBVIOUS
  <2>5. WalkKept(q, x, c)
    BY <2>2, <2>3, <2>4
  <2>6. IsPrefix(c, ToTry(x.kind, q.path))
    BY <2>2, <2>5, CalledFirst
  <2>7. QED BY <2>4, <2>6
<1>2. QED BY <1>1, OrderInvHolds, PTL

(* maybe_free_real_server_request (dsk-http-server.c) frees a request *)
(* exactly when no answer is due, its transfer is gone and no handler is *)
(* being called for it, in runs without what Careful leaves out: the *)
(* client may go away at any time, but then nobody calls *)
(* dsk_http_server_request_respond for its requests, which would leave *)
(* them unfreed or use them after they were freed (:626-648); the server *)
(* is destroyed only when no answer is due; no late answer is empty; each *)
(* request has a handler left that suits it, and no POST meets a CGI *)
(* handler. *)
THEOREM RequestsFreedWhenDone ==
  ASSUME Careful PROVE Spec => []FreedWhenDone
<1>1. OrderInv => FreedWhenDone
  <2> SUFFICES ASSUME OrderInv, NEW r \in Requests, rreq[r].mem # "none"
               PROVE  rreq[r].mem = "freed" <=> /\ ~rreq[r].waiting_for_response
                                                /\ rreq[r].got_transfer_destroy
                                                /\ ~rreq[r].invoking_handler
    BY DEF FreedWhenDone
  <2>1. RequestKept(World.rreq[r], World.xfer[r])
    BY WorldIs DEF OrderInv, ServerInv, Survives, WorldKept, Kept
  <2>2. World.rreq = rreq
    BY WorldIs
  <2>3. QED BY <2>1, <2>2 DEF RequestKept, NotNeeded
<1>2. QED BY <1>1, OrderInvHolds, PTL

(* In runs without what Careful leaves out no assertion fails and nothing *)
(* is used after it was freed, and a request that waits for its answer has a transfer that takes one: it *)
(* is there, it was not answered yet, and it is in the queue of the *)
(* connection unless the connection failed, so whatever the handler calls *)
(* next of dsk_http_server_request_respond and the rest finds what it *)
(* needs (dsk-http-server.c). *)
THEOREM WaitingRequestsCanBeAnswered ==
  ASSUME Careful PROVE Spec => []AnswersHaveTransfers
<1>1. OrderInv => AnswersHaveTransfers
  <2> SUFFICES ASSUME OrderInv PROVE AnswersHaveTransfers
    OBVIOUS
  <2>1. PICK w: w = World
    OBVIOUS
  <2>2. IsWorld(w) /\ WorldKept(w) /\ \A s \in Requests: Walks(w, s)
    BY <2>1, OrderGives
  <2>3. w.rreq = rreq /\ w.xfer = xfer /\ w.queue = queue
    BY <2>1, WorldIs
  <2>4. ASSUME NEW r \in Requests, rreq[r].mem = "live", rreq[r].waiting_for_response
        PROVE  /\ xfer[r].mem = "live" /\ ~xfer[r].responded
               /\ ~xfer[r].failed => r \in ToSet(queue)
    <3> DEFINE queued == Queued(w, r)
    <3>1. PICK q, x: q = w.rreq[r] /\ x = w.xfer[r]
      OBVIOUS
    <3>2. /\ RequestKept(q, x) /\ TransferKept(q, x, queued) /\ WalkKept(q, x, w.called[r])
          /\ q.mem = "live" /\ q.waiting_for_response
      BY <2>2, <2>3, <2>4, <3>1 DEF WorldKept, Kept, Walks
    <3> HIDE DEF queued
    <3>3. x.returned
      BY <3>2 DEF TransferKept
    <3>4. q.state # "INIT"
      BY <3>2, <3>3 DEF WalkKept, WalkGood
    <3>5. ~x.responded
      BY <3>2, <3>4 DEF RequestKept, ToAnswer
    <3>6. x.mem = "live" /\ (queued \/ x.failed)
      BY <3>2, <3>3, <3>5 DEF TransferKept
    <3>7. queued => r \in ToSet(queue)
      BY <2>3 DEF queued, Queued, ToSet
    <3>8. QED BY <2>3, <3>1, <3>5, <3>6, <3>7
  <2>5. TypeOK /\ fault = "none"
    BY OrderTypes DEF OrderInv
  <2>6. QED BY <2>4, <2>5 DEF AnswersHaveTransfers
<1>2. QED BY <1>1, OrderInvHolds, PTL

=============================================================================
