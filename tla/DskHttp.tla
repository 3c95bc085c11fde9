------------------------------- MODULE DskHttp -------------------------------
(***************************************************************************)
(* An HTTP client stream and an HTTP server stream with the programs that  *)
(* use them, over a connection that may break.  Each direction of it is a  *)
(* bounded queue of octets; either end may be closed by its owner.         *)
(***************************************************************************)
EXTENDS DskHttpClientStream, DskHttpServerStream

CONSTANTS
  MaxStream,      \* bound: octets of a stream that is an answer
  MayBreak,       \* the connection may break
  SourcesFail    \* a program's source of content may fail

ASSUME StreamAssumption == MaxStream \in Nat /\ {MayBreak, SourcesFail} \subseteq BOOLEAN

VARIABLES
  script,         \* the requests of this behaviour
  n_asked,        \* number of requests made
  client, server, \* the streams
  up, down,       \* octets on their way to the server, and to the client
  broken          \* the connection is broken

vars == <<script, n_asked, client, server, up, down, broken>>

Requests == DOMAIN script

\* Types.  The limit on outgoing data is only looked at between one message and the next, so a
\* buffer may hold the limit and one more piece: a header and a chunk.
TypeOK ==
  /\ script \in Scripts /\ n_asked \in 0..Len(script)
  /\ client \in Clients(Len(script)) /\ server \in Servers(Len(script))
  /\ up \in Seq(Token) /\ down \in Seq(Token) /\ broken \in BOOLEAN
  /\ Len(up) <= NetSize /\ Len(down) <= NetSize
  /\ client.n_pending <= n_asked /\ ~server.starting /\ ~client.blocked
  /\ Len(client.outgoing) <= MaxOutgoing + 4 + Max({0} \cup {script[i].n : i \in DOMAIN script})

Init ==
  /\ script \in Scripts /\ n_asked = 0
  /\ client = ClientNew(script) /\ server = ServerNew(Len(script))
  /\ up = <<>> /\ down = <<>> /\ broken = FALSE

Runs == client.fault = "none"

-----------------------------------------------------------------------------
(* The connection, as the source and the sink of the streams see it. *)

\* What a writer may put into a direction that holds data and whose other end is open or not.
\* Octets sent to an end that is closed go nowhere, and sooner or later sending fails.
Room(data, open) == IF open THEN NetSize - Len(data) ELSE NetSize
Sent(data, out, n, open) == IF open THEN data \o SubSeq(out, 1, n) ELSE data
MayFail(open) == broken \/ ~open

Break ==
  /\ MayBreak /\ ~broken /\ Runs
  /\ broken' = TRUE /\ up' = <<>> /\ down' = <<>>
  /\ UNCHANGED <<script, n_asked, client, server>>

-----------------------------------------------------------------------------
(* The client. *)

Ask ==
  /\ Runs /\ client.open /\ n_asked < Len(script)
  /\ n_asked' = n_asked + 1
  /\ client' = ClientRequest(client, n_asked')
  /\ UNCHANGED <<script, server, up, down, broken>>

\* The program adds an octet to a stream of post-data, or ends it, or its source fails.
AppendPostData(i) ==
  LET src == client.x[i].post_data IN
  /\ Runs /\ Contains(client.queue, i) /\ client.x[i].posting /\ src.end = "open"
  /\ \E new \in {[src EXCEPT !.sent = @ + 1], [src EXCEPT !.end = "eof"],
                 [src EXCEPT !.end = "error"]} :
       /\ new.sent <= script[i].n
       /\ new.end = "error" => SourcesFail
       /\ new.end = "eof" => src.sent = script[i].n
       /\ client' = [client EXCEPT !.x[i].post_data = new]
  /\ UNCHANGED <<script, n_asked, server, up, down, broken>>

\* handle_writable
HandleWritable ==
  /\ Runs /\ client.write_trap
  /\ broken \/ Room(up, server.open) > 0
  /\ \E d \in {WriteSteps(client, script)} :
       \/ /\ ~d.open \/ d.fault # "none"
          /\ client' = d /\ up' = up
       \/ /\ d.open /\ d.fault = "none" /\ MayFail(server.open)
          /\ client' = ClientWrote(d, 0, TRUE) /\ up' = up
       \/ /\ d.open /\ d.fault = "none" /\ ~broken
          /\ LET n == Min({Room(up, server.open), Len(d.outgoing)}) IN
             /\ client' = ClientWrote(d, n, FALSE)
             /\ up' = Sent(up, d.outgoing, n, server.open)
  /\ UNCHANGED <<script, n_asked, server, down, broken>>

\* handle_post_data_readable
HandlePostDataReadable(i) ==
  /\ Runs /\ client.x[i].post_data_trap /\ Result(client.x[i].post_data) # "again"
  /\ client' = PostDataReadable(client, i, script)
  /\ UNCHANGED <<script, n_asked, server, up, down, broken>>

\* handle_transport_source_readable
HandleTransportSourceReadable ==
  /\ Runs /\ client.read_trap
  /\ \/ broken /\ client' = ClientReadError(client)
     \/ ~broken /\ down # <<>> /\ client' = ClientReadable(client, down, script)
     \/ /\ ~broken /\ down = <<>> /\ ~server.open
        /\ \E spins \in {FALSE, MaySpin(client)} : client' = ClientEof(client, spins)
  /\ down' = <<>>
  /\ UNCHANGED <<script, n_asked, server, up, broken>>

ShutDownClient ==
  /\ Runs /\ client.open /\ client' = ClientShutdown(client)
  /\ UNCHANGED <<script, n_asked, server, up, down, broken>>

-----------------------------------------------------------------------------
(* The server. *)

HandleSourceReadable ==
  /\ Runs /\ server.read_trap
  /\ \/ /\ broken \/ (up = <<>> /\ ~client.open)
        /\ server' = DoShutdown(server)
     \/ ~broken /\ up # <<>> /\ server' = ServerReadable(server, up, script)
  /\ up' = <<>>
  /\ UNCHANGED <<script, n_asked, client, down, broken>>

\* handle_http_server_request_available of dsk-http-server.c
HandleRequestAvailable ==
  /\ Runs /\ server.request_available /\ server.next_request # 0
  /\ server' = GetRequest(server)
  /\ UNCHANGED <<script, n_asked, client, up, down, broken>>

Answer(k) ==
  /\ Runs /\ server.x[k].returned /\ ~server.x[k].responded
  /\ \E a \in Answers : server' = Respond(server, k, a, script)
  /\ UNCHANGED <<script, n_asked, client, up, down, broken>>

\* The program adds an octet to a stream it answers with, or ends it, or its source fails.
AppendContent(k) ==
  LET src == server.x[k].content IN
  /\ Runs /\ Contains(server.queue, k) /\ server.x[k].has_content /\ src.end = "open"
  /\ \E new \in {[src EXCEPT !.sent = @ + 1], [src EXCEPT !.end = "eof"],
                 [src EXCEPT !.end = "error"]} :
       /\ new.sent <= MaxStream
       /\ new.end = "error" => SourcesFail
       /\ server' = [server EXCEPT !.x[k].content = new]
  /\ UNCHANGED <<script, n_asked, client, up, down, broken>>

\* handle_content_readable, called by the readable hook of the content
HandleContentReadable ==
  /\ Runs /\ server.queue # <<>>
  /\ LET y == server.x[Head(server.queue)] IN
       y.trap /\ ~y.blocked_content /\ Result(y.content) # "again"
  /\ \E s \in {ContentReadable(server)} : server' = StartTransfers(s)
  /\ UNCHANGED <<script, n_asked, client, up, down, broken>>

\* handle_sink_writable
HandleSinkWritable ==
  /\ Runs /\ server.write_trap
  /\ \/ /\ MayFail(client.open)
        /\ server' = ServerWrote(server, 0, TRUE) /\ down' = down
     \/ /\ ~broken /\ Room(down, client.open) > 0
        /\ LET n == Min({Room(down, client.open), Len(server.outgoing)}) IN
           /\ server' = ServerWrote(server, n, FALSE)
           /\ down' = Sent(down, server.outgoing, n, client.open)
  /\ UNCHANGED <<script, n_asked, client, up, broken>>

ShutDownServer ==
  /\ Runs /\ server.open /\ server' = DoShutdown(server)
  /\ UNCHANGED <<script, n_asked, client, up, down, broken>>

-----------------------------------------------------------------------------
ClientStep ==
  \/ HandleWritable \/ HandleTransportSourceReadable
  \/ \E i \in Requests : HandlePostDataReadable(i)

ServerStep ==
  \/ HandleSourceReadable \/ HandleRequestAvailable
  \/ HandleContentReadable \/ HandleSinkWritable

Next ==
  \/ ClientStep \/ ServerStep
  \/ Ask \/ ShutDownClient \/ ShutDownServer \/ Break
  \/ \E i \in Requests : AppendPostData(i) \/ Answer(i) \/ AppendContent(i)

Spec == Init /\ [][Next]_vars

\* Both loops call every hook that stays notified; both programs give what they have begun to
\* give, and the server's program answers what it is asked.
FairSpec ==
  /\ Spec
  /\ WF_vars(HandleWritable) /\ WF_vars(HandleTransportSourceReadable)
  /\ WF_vars(\E i \in Requests : HandlePostDataReadable(i))
  /\ WF_vars(HandleSourceReadable) /\ WF_vars(HandleRequestAvailable)
  /\ WF_vars(HandleContentReadable) /\ WF_vars(HandleSinkWritable)
  /\ WF_vars(\E i \in Requests : AppendPostData(i))
  /\ WF_vars(\E i \in Requests : Answer(i))
  /\ WF_vars(\E i \in Requests : AppendContent(i))

-----------------------------------------------------------------------------
(* Properties. *)

\* A transfer that the server's program is given holds the request of the same number, all of
\* its post-data and nothing of another request, however the octets arrived. One that has
\* arrived and was not fetched is announced by request_available, and it is the first such
\* that is fetched next: none is forgotten or overtaken.
FetchedWhole(k) ==
  /\ server.x[k].request = k
  /\ script[k].method = "POST" =>
       /\ server.x[k].post_data = [j \in 1..script[k].n |-> [k |-> "data", id |-> k, n |-> j]]
       /\ client.x[k].post_data.sent = script[k].n
RequestsArriveWhole ==
  LET waiting == {k \in Range(server.queue) :
                    server.x[k].read_state = "done" /\ ~server.x[k].returned}
  IN /\ TypeOK
     /\ \A k \in Requests : server.x[k].returned => FetchedWhole(k)
     /\ server.request_available <=> waiting # {}
     /\ server.next_request = IF waiting = {} THEN 0 ELSE Min(waiting)

MaxRequests == Max({Len(sc) : sc \in Scripts})

Calls(i) == IF i \in Requests THEN client.x[i].calls ELSE <<>>
Seen(i) ==
  IF i \in Requests
  THEN [j \in DOMAIN client.x[i].content |->
          IF client.x[i].content[j].id = i THEN client.x[i].content[j].n ELSE 0]
  ELSE <<>>
Responded(i) == i \in Requests /\ server.x[i].responded
Given(i) ==
  IF Responded(i) /\ server.x[i].has_content THEN server.x[i].content.sent ELSE 0
Ended(i) ==
  Responded(i) /\ (server.x[i].has_content => server.x[i].content.end = "eof")

\* The content of the answer, if it has any, does not end with the connection.
EndIsTold(i) ==
  Responded(i) /\ server.x[i].has_content => AnswerLength(server.x[i].answer) # UntilClose

Contract == INSTANCE HttpContract WITH
  N <- MaxRequests,
  given <- [i \in 1..MaxRequests |-> Given(i)], ended <- [i \in 1..MaxRequests |-> Ended(i)],
  framed <- [i \in 1..MaxRequests |-> EndIsTold(i)],
  seen <- [i \in 1..MaxRequests |-> Seen(i)], calls <- [i \in 1..MaxRequests |-> Calls(i)]

\* The two streams over this connection keep the contract of HttpContract, its exception for
\* content that ends with the connection included.
KeepsHttpContract == Contract!Spec

\* The server's first transfer is answered without content (a HEAD, or a status that has no body)
\* on a connection that is kept: start_transfer (dsk-http-server-stream.c:851) leaves it first for
\* ever. Request i is behind it, or it is this request and its client waits for the content
\* that the header tells of (has_response_body looks at the method only).
Stuck(i) ==
  /\ server.queue # <<>>
  /\ LET k == Head(server.queue)
         y == server.x[k]
     IN /\ y.responded /\ ~y.has_content /\ ~y.answer.close
        /\ k < i \/ (k = i /\ script[i].method # "HEAD" /\ AnswerLength(y.answer) # 0)

\* Every request comes to an end that its program is told of, whether it is answered, refused,
\* cut off by either program or lost with the connection; but for one that is Stuck, which ends
\* only if a program closes the connection or it breaks.
EveryRequestEnds ==
  \A i \in 1..MaxRequests :
    n_asked >= i ~> Contains(Calls(i), "destroy") \/ Stuck(i) \/ ~Runs
=============================================================================
