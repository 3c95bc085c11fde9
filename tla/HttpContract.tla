---------------------------- MODULE HttpContract -----------------------------
(***************************************************************************)
(* What a client may rely on, whatever connection, pipelining and framing  *)
(* make of it: the functions of each request are called in an order the    *)
(* header file allows (dsk-http-client-stream.h:69-83), the content it      *)
(* sees is a beginning of what the server's program answered to this very  *)
(* request, "complete" means all of it, and answers are completed in the   *)
(* order of the requests.                                                  *)
(*                                                                         *)
(* It cannot rely on this for content whose end no header tells, because it *)
(* ends with the connection (framed is FALSE): against                      *)
(* dsk-http-client-stream.h:75 "complete" then comes with the header, and   *)
(* nothing of the content is ever seen.                                    *)
(***************************************************************************)
EXTENDS Naturals, Sequences, SequencesExt

CONSTANT N        \* number of requests

VARIABLES
  given,          \* octets the server's program has given for each request
  ended,          \* whether it has given all of them
  framed,         \* whether the header tells where they end
  seen,           \* the octets in the content of each transfer
  calls           \* the functions called for each transfer

Requests == 1..N

\* No function is called after "destroy", "complete" and "error" exclude each other, and
\* "complete" comes after "response".
Histories ==
  {<<>>, <<"response">>, <<"response", "complete", "destroy">>,
   <<"error", "destroy">>, <<"response", "error", "destroy">>}

Completed(i) == Contains(calls[i], "complete")
Over(i) == Contains(calls[i], "destroy")

Octets(n) == [j \in 1..n |-> j]

Init ==
  /\ given \in [Requests -> Nat] /\ ended = [i \in Requests |-> FALSE]
  /\ framed = [i \in Requests |-> TRUE]
  /\ seen = [i \in Requests |-> <<>>] /\ calls = [i \in Requests |-> <<>>]

\* The server's program gives more, or the last, of some answers.
Give ==
  /\ \A i \in Requests :
       /\ ended[i] => given'[i] = given[i] /\ ended'[i] /\ framed'[i] = framed[i]
       /\ given'[i] \in Nat /\ framed'[i] => framed[i]
  /\ UNCHANGED <<seen, calls>>

\* Some requests get further.
Progress ==
  /\ UNCHANGED <<given, ended, framed>>
  /\ \A i \in Requests :
       /\ calls'[i] \in Histories /\ IsPrefix(calls[i], calls'[i])
       /\ IsPrefix(seen[i], seen'[i]) /\ IsPrefix(seen'[i], Octets(given[i]))
       /\ Over(i) => seen'[i] = seen[i]
       /\ Completed(i)' =>
            /\ IF framed[i] THEN ended[i] /\ seen'[i] = Octets(given[i]) ELSE seen'[i] = <<>>
            /\ \A j \in 1..(i - 1) : Completed(j)'

Next == Give \/ Progress

Spec == Init /\ [][Next]_<<given, ended, framed, seen, calls>>
=============================================================================
