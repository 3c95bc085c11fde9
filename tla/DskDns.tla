-------------------------------- MODULE DskDns --------------------------------
(***************************************************************************)
(* The DNS client (dsk/dsk-dns-client.c).  A lookup is answered from the   *)
(* cache or waits for the job of its name, which asks one nameserver after *)
(* another until an answer comes or the retries run out; an answer may be  *)
(* an alias (CNAME), which is looked up in turn, and a name not found is   *)
(* followed by the next one of the search path.  Questions and answers are *)
(* datagrams: lost, duplicated, late and out of order.                     *)
(*                                                                         *)
(* A name stands for a (name, is_ipv6) pair, that is for an entry.  The    *)
(* cache is keyed by names, as the code's tree is as long as no domain has *)
(* entries of both families; then it is `corrupt' (TreesBroken), and the   *)
(* model ends.  A datagram sent stays in `sent', and its nameserver may    *)
(* answer it at any later time, as often as it likes, or never; a send     *)
(* that fails otherwise than by EAGAIN is only warned about, which is as   *)
(* if the datagram were lost.                                              *)
(***************************************************************************)
EXTENDS Naturals, Sequences, FiniteSets, SequencesExt

CONSTANTS
  Names,
  Domain,         \* the domain name of each name
  is_ipv6,        \* and its address family
  NULL,           \* no name
  Callers,        \* calls of dsk_dns_lookup
  Tries,          \* the names each call tries: along the search path, then bare
  NServers,       \* n_resolv_conf_ns
  Attempts,       \* length of retry_schedule: 4
  MaxCnames       \* MAX_CNAMES: 16

ASSUME NullAssumption == NULL \notin Names
(* One search path at most: a second one, tried after the first had to     *)
(* wait, would be looked up without the dot before it. *)
ASSUME TriesAssumption == /\ Tries \in [Callers -> Seq(Names) \ {<<>>}]
                          /\ \A c \in Callers: Len(Tries[c]) <= 2
(* A lookup keeps to the family it was called with. *)
ASSUME FamilyAssumption ==
  /\ is_ipv6 \in [Names -> BOOLEAN]
  /\ \A c \in Callers: \A i \in DOMAIN Tries[c]: is_ipv6[Tries[c][i]] = is_ipv6[Tries[c][1]]
ASSUME BoundsAssumption == /\ NServers \in Nat \ {0} /\ Attempts \in Nat \ {0}
                           /\ MaxCnames \in Nat

VARIABLES
  cache,          \* the entry of each name
  job,            \* the question in progress for a name
  waiting,        \* first_waiting_to_send .. last_waiting_to_send
  send_trap,      \* dns_udp_socket_trap: "none", "live", or "freed" but kept
  next_nameserver_index,
  sent,           \* datagrams sent to the nameservers
  lookup,         \* the call of each caller
  notifying,      \* the job whose waiters are being called, and by whom
  fault           \* "none", "corrupt" (memory or the trees broken)

jobVars == <<job, waiting, send_trap, next_nameserver_index, sent>>
vars == <<cache, jobVars, lookup, notifying, fault>>

Servers == 0..(NServers - 1)
Results == {"error", "negative", "addr"}
Answers == [type: {"negative", "addr"}] \cup [type: {"cname"}, cname: Names]
Absent == [type |-> "absent"]
InProgress == [type |-> "in_progress"]

NoJob == [ns_index |-> 0, id |-> 0, attempt |-> 0, waiters |-> <<>>]
NotNotifying == [name |-> NULL, user |-> FALSE]

TypeOK ==
  /\ cache \in [Names -> Answers \cup [type: {"absent", "in_progress", "error"}]]
  /\ job \in [Names -> [ns_index: Servers, id: Servers, attempt: 0..(Attempts - 1),
                        waiters: Seq(Callers)]]
  /\ waiting \in Seq(Names) /\ send_trap \in {"none", "live", "freed"}
  /\ next_nameserver_index \in Servers
  /\ sent \subseteq [to: Servers, id: Servers, name: Names]
  /\ lookup \in [Callers -> [status: {"new", "waiting"}, try: Nat, n_cnames: 0..MaxCnames,
                             name: Names \cup {NULL}]
                            \cup [status: {"done"}, result: Results, answers: Nat]]
  /\ notifying \in [name: Names \cup {NULL}, user: BOOLEAN]
  /\ fault \in {"none", "corrupt"}

Init ==
  /\ cache = [n \in Names |-> Absent]
  /\ job = [n \in Names |-> NoJob]
  /\ waiting = <<>> /\ send_trap = "none"
  /\ next_nameserver_index = 0
  /\ sent = {}
  /\ lookup = [c \in Callers |-> [status |-> "new", try |-> 0, n_cnames |-> 0, name |-> NULL]]
  /\ notifying = NotNotifying
  /\ fault = "none"

Cached(n) == cache[n].type # "absent"
Asked(n) == cache[n].type = "in_progress"
Finished(n) == Cached(n) /\ ~Asked(n)

(* The tree of entries by name and the tree by time of expiry link their   *)
(* nodes through the same fields (GET_EXPIRATION_TREE uses those of        *)
(* GET_CACHE_BY_NAME_TREE): an entry in both, beside another one in the    *)
(* cache, breaks both.  Only timed-out entries enter the second tree, so   *)
(* expunge_old_cache_entries never finds one to remove before that.        *)
Tangled(entries) ==
  /\ \E n \in Names: entries[n].type = "error"
  /\ Cardinality({n \in Names: entries[n].type # "absent"}) > 1

(* COMPARE_DNS_CACHE_ENTRY_BY_NAME_TYPE puts each family of a domain       *)
(* before the other one: an insertion goes to the right of the other       *)
(* family's entry and a lookup to the left, so that, unless a rotation     *)
(* turned the two round, the entry is not found: answers to it are not     *)
(* expected, and its next lookup fails the assertion that an insertion     *)
(* finds no conflict. *)
Unordered(entries) ==
  \E m, n \in Names: /\ m # n /\ Domain[m] = Domain[n]
                     /\ entries[m].type # "absent" /\ entries[n].type # "absent"

TreesBroken(entries) == Tangled(entries) \/ Unordered(entries)

-----------------------------------------------------------------------------
(* Sending *)

Question(n, j) == [to |-> j.ns_index, id |-> j.id, name |-> n]

(* job_send_message of job j of name n, when `queue' waits to be sent: the *)
(* socket takes it, or not yet. *)
Send(n, j, queue) ==
  \/ /\ sent' = sent \cup {Question(n, j)}
     /\ waiting' = queue
     /\ send_trap' = IF queue = <<>> THEN "none" ELSE send_trap
  \/ /\ sent' = sent
     /\ waiting' = Append(queue, n)                \* raise_waiting_to_send_flag
     /\ send_trap' = IF queue = <<>> THEN "live" ELSE send_trap

(* clear_waiting_to_send_flag *)
Cleared(n) == IF n \in ToSet(waiting)
              THEN RemoveAt(waiting, CHOOSE i \in DOMAIN waiting: waiting[i] = n)
              ELSE waiting
ClearingBreaks(n) == n \in ToSet(waiting) /\ Cleared(n) = <<>> /\ send_trap = "freed"

(* handle_socket_writable: the socket takes the first k jobs that wait.    *)
(* A job it does not take waits again, behind the others; the trap returns *)
(* false, which ends it, and raise_waiting_to_send_flag has set another    *)
(* one only if no other job waited. *)
SocketWritable ==
  /\ fault = "none" /\ notifying = NotNotifying
  /\ send_trap = "live"
  /\ \E k \in 0..Len(waiting):
       LET left == SubSeq(waiting, k + 1, Len(waiting)) IN
       /\ sent' = sent \cup {Question(waiting[i], job[waiting[i]]): i \in 1..k}
       /\ waiting' = IF left = <<>> THEN <<>> ELSE Append(Tail(left), Head(left))
       /\ send_trap' = IF left = <<>> THEN "none" ELSE IF Len(left) = 1 THEN "live" ELSE "freed"
  /\ UNCHANGED <<cache, job, next_nameserver_index, lookup, notifying, fault>>

-----------------------------------------------------------------------------
(* Looking up *)

(* lookup_without_searchpath_or_cnames and handle_cname_callback: where    *)
(* name n leads after k aliases - to an answer, or to a name to wait for. *)
Follow[k \in 0..MaxCnames] == [n \in Names |->
  IF cache[n].type = "cname"
  THEN IF k < MaxCnames THEN Follow[k + 1][cache[n].cname] ELSE [result |-> "error"]
  ELSE IF cache[n].type \in Results THEN [result |-> cache[n].type]
  ELSE [name |-> n, n_cnames |-> k]]

NotFound(outcome) == outcome = [result |-> "negative"]

(* Where try u leads call c, which is at its try t and there at name n     *)
(* after k aliases. *)
Outcome(c, t, k, n, u) == IF u = t THEN Follow[k][n] ELSE Follow[0][Tries[c][u]]

(* dsk_dns_lookup_cache_entry and handle_searchpath_entry_lookup: the try  *)
(* at which the call stops. *)
LastTry(c, t, k, n) ==
  CHOOSE u \in t..Len(Tries[c]):
    /\ \A v \in t..(u - 1): NotFound(Outcome(c, t, k, n, v))
    /\ ~NotFound(Outcome(c, t, k, n, u)) \/ u = Len(Tries[c])

(* The call is answered: its callback runs. *)
Answer(c, result) ==
  lookup' = [lookup EXCEPT ![c] =
    [status |-> "done", result |-> result,
     answers |-> IF lookup[c].status = "done" THEN lookup[c].answers + 1 ELSE 1]]

(* The call waits for name n; begin_dns_request if nobody asked for it.    *)
(* `jobs' are the jobs as the caller finds them. *)
WaitFor(c, t, place, jobs) ==
  LET n == place.name
      begun == [ns_index |-> next_nameserver_index, id |-> next_nameserver_index,
                attempt |-> 0, waiters |-> <<c>>]
  IN  /\ lookup' = [lookup EXCEPT ![c] = [status |-> "waiting", try |-> t,
                                          n_cnames |-> place.n_cnames, name |-> n]]
      /\ IF Asked(n)
         THEN /\ job' = [jobs EXCEPT ![n].waiters = <<c>> \o @]
              /\ UNCHANGED <<cache, waiting, send_trap, next_nameserver_index, sent, fault>>
         ELSE /\ cache' = [cache EXCEPT ![n] = InProgress]
              /\ fault' = IF TreesBroken(cache') THEN "corrupt" ELSE fault
              /\ job' = [jobs EXCEPT ![n] = begun]
              /\ next_nameserver_index' = (next_nameserver_index + 1) % NServers
              /\ Send(n, begun, waiting)

(* Call c goes on from its try t, at name n after k aliases. *)
Resolve(c, t, k, n, jobs) ==
  LET u == LastTry(c, t, k, n)
      outcome == Outcome(c, t, k, n, u)
  IN  IF outcome \in [result: Results]
      THEN /\ Answer(c, outcome.result)
           /\ job' = jobs
           /\ UNCHANGED <<cache, waiting, send_trap, next_nameserver_index, sent, fault>>
      ELSE WaitFor(c, u, outcome, jobs)

(* dsk_dns_lookup, called by the program or by one of its callbacks *)
Lookup(c) ==
  /\ fault = "none"
  /\ lookup[c].status = "new"
  /\ notifying = NotNotifying \/ notifying.user
  /\ Resolve(c, 1, 0, Tries[c][1], job)
  /\ UNCHANGED notifying

-----------------------------------------------------------------------------
(* A job ends, and its waiters are called: job_notify_waiters_and_free. *)

(* Mutant: the waiter stays in the list while it is called. *)
NotifyWaiterInPlace ==
  LET n == notifying.name
      c == Head(job[n].waiters)
  IN  /\ fault = "none" /\ notifying # NotNotifying /\ job[n].waiters # <<>>
      /\ lookup[c].status = "waiting"
      /\ Resolve(c, lookup[c].try, lookup[c].n_cnames, n, job)
      /\ notifying' = [notifying EXCEPT !.user = (lookup'[c].status = "done")]

(* Mutant: once it had to wait, a call tries no further name. *)
NotifyWaiterLastTry ==
  LET n == notifying.name
      c == Head(job[n].waiters)
  IN  /\ fault = "none" /\ notifying # NotNotifying /\ job[n].waiters # <<>>
      /\ Resolve(c, Len(Tries[c]), lookup[c].n_cnames, n,
                 [job EXCEPT ![n].waiters = Tail(@)])
      /\ notifying' = [notifying EXCEPT !.user = (lookup'[c].status = "done")]

NotifyWaiter ==
  LET n == notifying.name
      c == Head(job[n].waiters)
  IN  /\ fault = "none" /\ notifying # NotNotifying /\ job[n].waiters # <<>>
      /\ Resolve(c, lookup[c].try, lookup[c].n_cnames, n,
                 [job EXCEPT ![n].waiters = Tail(@)])
      /\ notifying' = [notifying EXCEPT !.user = (lookup'[c].status = "done")]

NotifyDone ==
  /\ fault = "none" /\ notifying # NotNotifying /\ job[notifying.name].waiters = <<>>
  /\ job' = [job EXCEPT ![notifying.name] = NoJob]
  /\ notifying' = NotNotifying
  /\ UNCHANGED <<cache, waiting, send_trap, next_nameserver_index, sent, lookup, fault>>

(* "verify address matches id" (handle_dns_udp_socket_readable): an answer *)
(* from nameserver i counts only if it carries the id i. *)
Believed(question) == question.id = question.to

(* handle_message: of an answer that comes while a retry waits to be sent, *)
(* the job is freed and stays in the list of jobs to send. *)
Receive(question, answer) ==
  LET n == question.name IN
  /\ fault = "none" /\ notifying = NotNotifying
  /\ question \in sent /\ Believed(question)
  /\ Asked(n)
  /\ answer.type = "cname" => is_ipv6[answer.cname] = is_ipv6[n]
  /\ cache' = [cache EXCEPT ![n] = answer]
  /\ fault' = IF n \in ToSet(waiting) THEN "corrupt" ELSE fault
  /\ notifying' = [name |-> n, user |-> FALSE]
  /\ UNCHANGED <<jobVars, lookup>>

(* Mutant: the attempts are not counted. *)
RetryForEver(n) ==
  LET j == job[n]
      again == [j EXCEPT !.ns_index = (@ + 1) % NServers]
  IN  /\ fault = "none" /\ notifying = NotNotifying
      /\ Asked(n) /\ j.attempt + 1 < Attempts
      /\ job' = [job EXCEPT ![n] = again]
      /\ Send(n, again, Cleared(n))
      /\ fault' = IF ClearingBreaks(n) THEN "corrupt" ELSE fault
      /\ UNCHANGED <<cache, next_nameserver_index, lookup, notifying>>

(* handle_timer_expired *)
Retry(n) ==
  LET j == job[n]
      again == [j EXCEPT !.attempt = @ + 1, !.ns_index = (@ + 1) % NServers]
  IN  /\ fault = "none" /\ notifying = NotNotifying
      /\ Asked(n) /\ j.attempt + 1 < Attempts
      /\ job' = [job EXCEPT ![n] = again]
      /\ Send(n, again, Cleared(n))
      /\ fault' = IF ClearingBreaks(n) THEN "corrupt" ELSE fault
      /\ UNCHANGED <<cache, next_nameserver_index, lookup, notifying>>

TimeOut(n) ==
  /\ fault = "none" /\ notifying = NotNotifying
  /\ Asked(n) /\ job[n].attempt + 1 = Attempts
  /\ cache' = [cache EXCEPT ![n] = [type |-> "error"]]
  /\ waiting' = Cleared(n)
  /\ send_trap' = IF waiting' = <<>> THEN "none" ELSE send_trap
  /\ fault' = IF ClearingBreaks(n) \/ TreesBroken(cache') THEN "corrupt" ELSE fault
  /\ notifying' = [name |-> n, user |-> FALSE]
  /\ UNCHANGED <<job, next_nameserver_index, sent, lookup>>

TimerExpires(n) == Retry(n) \/ TimeOut(n)

Next ==
  \/ \E c \in Callers: Lookup(c)
  \/ \E question \in sent, answer \in Answers: Receive(question, answer)
  \/ \E n \in Names: TimerExpires(n)
  \/ NotifyWaiter \/ NotifyDone
  \/ SocketWritable

Spec == Init /\ [][Next]_vars

(* The timer of each job fires if nothing removes it (TimersFire of        *)
(* DskDispatch), and callbacks return.  No datagram need arrive. *)
FairSpec == /\ Spec /\ WF_vars(NotifyWaiter \/ NotifyDone)
            /\ \A n \in Names: WF_vars(TimerExpires(n))

-----------------------------------------------------------------------------
(* What should hold. *)

Waits(c) == lookup[c].status = "waiting"

(* Nobody is forgotten and nobody is called twice: a call that waits is    *)
(* with the job of one name, once, and its callback has not run; through   *)
(* aliases, the search path and callbacks that look up in their turn. And  *)
(* a name has a job with waiters exactly while its entry is in progress or *)
(* its waiters are called; a job waits to be sent at most once, and only   *)
(* while it is in progress. *)
EachWaitsOnce ==
  /\ TypeOK
  /\ \A c \in Callers, n \in Names:
        Cardinality({i \in DOMAIN job[n].waiters: job[n].waiters[i] = c})
           = IF Waits(c) /\ lookup[c].name = n THEN 1 ELSE 0
  /\ \A c \in Callers: lookup[c].status = "done" => lookup[c].answers = 1
  /\ \A n \in Names: Asked(n) => job[n].waiters # <<>>
  /\ \A n \in Names: (job[n] # NoJob) => Asked(n) \/ notifying.name = n
  /\ \A i, j \in DOMAIN waiting: waiting[i] = waiting[j] => i = j
  /\ fault = "none" => \A n \in ToSet(waiting): Asked(n)
  /\ (send_trap = "none") <=> (waiting = <<>>)

(* Everyone is told the same: what a call was answered is what it would    *)
(* find in the cache now, in one go, however often and at whatever alias   *)
(* or name of the search path it had to wait; no late or second answer, nor *)
(* a timer, changes it afterwards.  This is so until the trees are broken  *)
(* (an entry timed out beside others, a domain asked for in both families, *)
(* a job freed while it waits to be sent): a lookup may find anything then. *)
AnswersAgree ==
  fault = "none" =>
    \A c \in Callers: lookup[c].status = "done" =>
      Follow[0][Tries[c][LastTry(c, 1, 0, Tries[c][1])]] = [result |-> lookup[c].result]

(* Every lookup is answered, even if no nameserver ever does or aliases go *)
(* round in a circle. *)
LookupsAnswered ==
  \A c \in Callers: Waits(c) ~> (lookup[c].status = "done" \/ fault # "none")

(* "try a different nameserver" (dsk-dns-client.c:877): the nameserver     *)
(* asked is one whose answer counts. *)
AnswerWouldCount == \A question \in sent: Believed(question)
=============================================================================
