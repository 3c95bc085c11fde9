----------------------------- MODULE DskDnsProofs -----------------------------
(***************************************************************************)
(* What dsk-dns-client.c keeps for any names, callers, search paths and    *)
(* nameservers, whatever the network does: every call of dsk_dns_lookup    *)
(* waits in one place and is called back once, with what the cache says.   *)
(***************************************************************************)
EXTENDS DskDns, ListFacts

-----------------------------------------------------------------------------
(* Where a name leads, for any contents c of the cache: Follow is the *)
(* function f with Leads(c, f). *)

Entries == Answers \cup [type: {"absent", "in_progress", "error"}]
Places == [name: Names, n_cnames: 0..MaxCnames]
Results1 == [result: Results]
Open(e) == e.type \in {"absent", "in_progress"}

Lead(c, f, k, n) ==
  IF c[n].type = "cname"
  THEN IF k < MaxCnames THEN f[k + 1][c[n].cname] ELSE [result |-> "error"]
  ELSE IF c[n].type \in Results THEN [result |-> c[n].type]
  ELSE [name |-> n, n_cnames |-> k]

Leads(c, f) == f = [k \in 0..MaxCnames |-> [n \in Names |-> Lead(c, f, k, n)]]

(* There is such a function: from the longest chain of aliases backwards. *)
LEMMA SomethingLeads ==
  ASSUME NEW c PROVE \E f: Leads(c, f)
<1> DEFINE From(j) == (MaxCnames - j)..MaxCnames
           Fits(j, f) == f = [k \in From(j) |-> [n \in Names |-> Lead(c, f, k, n)]]
           Bad == {j \in 0..MaxCnames: ~\E f: Fits(j, f)}
<1>1. MaxCnames \in Nat
  BY BoundsAssumption
<1>2. Bad = {}
  <2> SUFFICES ASSUME Bad # {} PROVE FALSE
    OBVIOUS
  <2>1. Bad \in SUBSET Nat
    BY <1>1
  <2> HIDE DEF Bad
  <2>2. PICK m \in Bad: \A i \in Bad: m <= i
    BY <2>1, LeastNat
  <2>3. m \in 0..MaxCnames /\ ~\E f: Fits(m, f)
    BY DEF Bad
  <2>4. CASE m = 0
    <3> DEFINE f == [k \in From(0) |-> [n \in Names |-> Lead(c, <<>>, MaxCnames, n)]]
    <3>1. From(0) = {MaxCnames}
      BY <1>1
    <3>2. f = [k \in From(0) |-> [n \in Names |-> Lead(c, <<>>, MaxCnames, n)]]
      OBVIOUS
    <3> HIDE DEF f
    <3>3. \A n: Lead(c, <<>>, MaxCnames, n) = Lead(c, f, MaxCnames, n)
      BY <1>1 DEF Lead
    <3>4. \A k \in From(0): [n \in Names |-> Lead(c, <<>>, MaxCnames, n)] = [n \in Names |-> Lead(c, f, k, n)]
      BY <3>1, <3>3
    <3>6. Fits(0, f)
      BY <3>2, <3>4
    <3>5. QED BY <2>3, <2>4, <3>6
  <2>5. CASE m # 0
    <3>1. m - 1 \in 0..MaxCnames /\ m - 1 \notin Bad
      BY <1>1, <2>2, <2>3, <2>5
    <3>2. PICK g: Fits(m - 1, g)
      BY <3>1 DEF Bad
    <3> DEFINE low == MaxCnames - m
               f == [k \in From(m) |-> IF k = low THEN [n \in Names |-> Lead(c, g, low, n)] ELSE g[k]]
    <3>3. /\ low \in 0..MaxCnames /\ low \in From(m) /\ low \notin From(m - 1)
          /\ \A k \in From(m): k = low \/ k \in From(m - 1)
          /\ \A k \in From(m): k < MaxCnames => k + 1 \in From(m - 1) /\ k + 1 \in From(m) /\ k + 1 # low
      BY <1>1, <2>3, <2>5
    <3>4. /\ f = [k \in From(m) |-> IF k = low THEN [n \in Names |-> Lead(c, g, low, n)] ELSE g[k]]
          /\ \A k \in From(m): f[k] = IF k = low THEN [n \in Names |-> Lead(c, g, low, n)] ELSE g[k]
      OBVIOUS
    <3> HIDE DEF f, low, From
    <3>5. \A k \in From(m): k < MaxCnames => f[k + 1] = g[k + 1]
      BY <3>3, <3>4
    <3>6. \A k \in From(m), n \in Names: Lead(c, f, k, n) = Lead(c, g, k, n)
      BY <3>5 DEF Lead
    <3>7. \A k \in From(m): (IF k = low THEN [n \in Names |-> Lead(c, g, low, n)] ELSE g[k])
                              = [n \in Names |-> Lead(c, f, k, n)]
      BY ZenonT(60), <3>2, <3>3, <3>4, <3>6
    <3>8. Fits(m, f)
      BY <3>4, <3>7
    <3>9. QED BY <2>3, <3>8
  <2>6. QED BY <2>4, <2>5
<1>3. PICK f: Fits(MaxCnames, f)
  BY SMTT(30), <1>1, <1>2
<1>4. From(MaxCnames) = 0..MaxCnames
  BY <1>1
<1>5. QED BY <1>3, <1>4 DEF Leads

(* Follow is what its definition says, before and after a step. *)
LEMMA FollowLeads == Leads(cache, Follow)
<1> DEFINE L(f) == f = [k \in 0..MaxCnames |-> [n \in Names |-> Lead(cache, f, k, n)]]
<1>1. Follow = CHOOSE f: L(f)
  BY DEF Follow, Lead
<1>2. PICK f: L(f)
  BY SomethingLeads DEF Leads
<1> HIDE DEF L
<1>3. L(Follow)
  BY <1>1, <1>2
<1>4. QED BY <1>3 DEF L, Leads

LEMMA FollowLeadsNext == Leads(cache', Follow')
<1> DEFINE F(f) == [k \in 0..MaxCnames |-> [n \in Names |->
                      IF cache'[n].type = "cname"
                      THEN IF k < MaxCnames THEN f[k + 1][cache'[n].cname] ELSE [result |-> "error"]
                      ELSE IF cache'[n].type \in Results THEN [result |-> cache'[n].type]
                      ELSE [name |-> n, n_cnames |-> k]]]
<1>1. Follow' = CHOOSE f: f = F(f)
  BY DEF Follow
<1>2. PICK e: e = F(e)
  <2>1. \A g: Leads(cache', g) <=> g = F(g)
    BY DEF Leads, Lead
  <2> HIDE DEF F
  <2>2. QED BY <2>1, SomethingLeads
<1>3. \A f: f = F(f) => Leads(cache', f)
  BY DEF Leads, Lead
<1> HIDE DEF F
<1>4. Follow' = F(Follow')
  BY <1>1, <1>2
<1>5. QED BY <1>3, <1>4

LEMMA LeadOf ==
  ASSUME NEW c, NEW f, Leads(c, f), NEW k \in 0..MaxCnames, NEW n \in Names
  PROVE  f[k][n] = Lead(c, f, k, n)
<1> DEFINE row(i) == [a \in Names |-> Lead(c, f, i, a)]
<1>1. f = [i \in 0..MaxCnames |-> row(i)]
  BY DEF Leads
<1>2. row(k)[n] = Lead(c, f, k, n)
  OBVIOUS
<1> HIDE DEF row
<1>3. f[k] = row(k)
  BY ONLY <1>1, k \in 0..MaxCnames
<1>4. QED BY <1>2, <1>3

(* A name leads to a result, or to a name that nobody has asked for yet or *)
(* that is being asked for. *)
LEMMA WhereItEnds ==
  ASSUME NEW c \in [Names -> Entries], NEW f, Leads(c, f)
  PROVE  \A k \in 0..MaxCnames, n \in Names:
           \/ f[k][n] \in Results1
           \/ f[k][n] \in Places /\ Open(c[f[k][n].name])
<1> DEFINE Good(x) == x \in Results1 \/ (x \in Places /\ Open(c[x.name]))
           Bad == {j \in 0..MaxCnames: ~\A n \in Names: Good(f[MaxCnames - j][n])}
<1>1. MaxCnames \in Nat
  BY BoundsAssumption
<1>2. Bad = {}
  <2> SUFFICES ASSUME Bad # {} PROVE FALSE
    OBVIOUS
  <2>1. Bad \in SUBSET Nat
    BY <1>1
  <2> HIDE DEF Bad
  <2>2. PICK m \in Bad: \A i \in Bad: m <= i
    BY <2>1, LeastNat
  <2>3. m \in 0..MaxCnames /\ ~\A n \in Names: Good(f[MaxCnames - m][n])
    BY DEF Bad
  <2> DEFINE k == MaxCnames - m
  <2>4. k \in 0..MaxCnames /\ (k < MaxCnames => m - 1 \in 0..MaxCnames /\ m - 1 < m /\ MaxCnames - (m - 1) = k + 1)
    BY <1>1, <2>3
  <2>5. PICK n \in Names: ~Good(f[k][n])
    BY <2>3
  <2>6. k < MaxCnames => \A a \in Names: Good(f[k + 1][a])
    <3>1. k < MaxCnames => m - 1 \notin Bad
      BY <2>2, <2>3, <2>4
    <3>2. QED BY <2>4, <3>1 DEF Bad
  <2>7. f[k][n] = Lead(c, f, k, n)
    BY <2>4, LeadOf
  <2> HIDE DEF k
  <2>8. c[n] \in Entries
    OBVIOUS
  <2>9. CASE c[n].type = "cname"
    <3>1. c[n].cname \in Names
      BY <2>8, <2>9 DEF Entries, Answers
    <3>2. Good([result |-> "error"])
      BY DEF Results1, Results
    <3>3. QED BY <2>5, <2>6, <2>7, <2>9, <3>1, <3>2 DEF Lead
  <2>10. CASE c[n].type \in Results
    <3>1. [result |-> c[n].type] \in Results1
      BY <2>10 DEF Results1
    <3>2. f[k][n] = [result |-> c[n].type]
      BY <2>7, <2>10 DEF Lead, Results
    <3>3. QED BY <2>5, <3>1, <3>2
  <2>11. CASE c[n].type \notin Results /\ c[n].type # "cname"
    <3> DEFINE x == [name |-> n, n_cnames |-> k]
    <3>1. x \in Places /\ x.name = n
      BY <2>4 DEF Places
    <3>2. Open(c[n])
      BY <2>8, <2>11 DEF Entries, Answers, Open, Results
    <3>3. f[k][n] = x
      BY <2>7, <2>11 DEF Lead
    <3> HIDE DEF x
    <3>4. QED BY <2>5, <3>1, <3>2, <3>3
  <2>12. QED BY <2>9, <2>10, <2>11
<1>3. ASSUME NEW k \in 0..MaxCnames, NEW n \in Names PROVE Good(f[k][n])
  <2>1. MaxCnames - k \in 0..MaxCnames /\ MaxCnames - (MaxCnames - k) = k
    BY <1>1
  <2>2. QED BY <1>2, <2>1
<1>4. QED BY <1>3

(* As the cache fills, a result stays what it was, and a name that led to *)
(* an open one now leads wherever that one leads. *)
LEMMA Advance ==
  ASSUME NEW c \in [Names -> Entries], NEW d \in [Names -> Entries],
         NEW f, Leads(c, f), NEW g, Leads(d, g),
         \A n \in Names: ~Open(c[n]) => d[n] = c[n]
  PROVE  \A k \in 0..MaxCnames, n \in Names:
           /\ f[k][n] \in Results1 => g[k][n] = f[k][n]
           /\ f[k][n] \in Places => g[k][n] = g[f[k][n].n_cnames][f[k][n].name]
<1> DEFINE Good(k, n) == /\ f[k][n] \in Results1 => g[k][n] = f[k][n]
                         /\ f[k][n] \in Places => g[k][n] = g[f[k][n].n_cnames][f[k][n].name]
           Bad == {j \in 0..MaxCnames: ~\A n \in Names: Good(MaxCnames - j, n)}
<1>1. MaxCnames \in Nat
  BY BoundsAssumption
<1>2. Bad = {}
  <2> SUFFICES ASSUME Bad # {} PROVE FALSE
    OBVIOUS
  <2>1. Bad \in SUBSET Nat
    BY <1>1
  <2> HIDE DEF Bad
  <2>2. PICK m \in Bad: \A i \in Bad: m <= i
    BY <2>1, LeastNat
  <2>3. m \in 0..MaxCnames /\ ~\A n \in Names: Good(MaxCnames - m, n)
    BY DEF Bad
  <2> DEFINE k == MaxCnames - m
  <2>4. k \in 0..MaxCnames /\ (k < MaxCnames => m - 1 \in 0..MaxCnames /\ m - 1 < m /\ MaxCnames - (m - 1) = k + 1)
    BY <1>1, <2>3
  <2>5. PICK n \in Names: ~Good(k, n)
    BY <2>3
  <2>6. k < MaxCnames => \A a \in Names: Good(k + 1, a)
    <3>1. k < MaxCnames => m - 1 \notin Bad
      BY <2>2, <2>3, <2>4
    <3>2. QED BY <2>4, <3>1 DEF Bad
  <2>7. f[k][n] = Lead(c, f, k, n) /\ g[k][n] = Lead(d, g, k, n)
    BY <2>4, LeadOf
  <2> HIDE DEF k
  <2>8. c[n] \in Entries
    OBVIOUS
  <2>9. CASE ~Open(c[n])
    <3>1. d[n] = c[n]
      BY <2>9
    <3>2. CASE c[n].type = "cname" /\ k < MaxCnames
      <4>1. c[n].cname \in Names
        BY <2>8, <3>2 DEF Entries, Answers
      <4>2. f[k][n] = f[k + 1][c[n].cname] /\ g[k][n] = g[k + 1][c[n].cname]
        BY <2>7, <3>1, <3>2 DEF Lead
      <4>3. QED BY <2>5, <2>6, <3>2, <4>1, <4>2
    <3>3. CASE ~(c[n].type = "cname" /\ k < MaxCnames)
      <4>1. f[k][n] \in Results1 /\ g[k][n] = f[k][n]
        BY <2>7, <2>8, <2>9, <3>1, <3>3 DEF Lead, Entries, Answers, Open, Results, Results1
      <4>2. f[k][n] \notin Places
        BY <4>1 DEF Results1, Places
      <4>3. QED BY <2>5, <4>1, <4>2
    <3>4. QED BY <3>2, <3>3
  <2>10. CASE Open(c[n])
    <3> DEFINE x == [name |-> n, n_cnames |-> k]
    <3>1. x \in Places /\ x.name = n /\ x.n_cnames = k
      BY <2>4 DEF Places
    <3>2. f[k][n] = x
      BY <2>7, <2>10 DEF Lead, Open, Results
    <3> HIDE DEF x
    <3>3. x \notin Results1
      BY <3>1 DEF Results1, Places
    <3>4. QED BY <2>5, <3>1, <3>2, <3>3
  <2>11. QED BY <2>9, <2>10
<1>3. ASSUME NEW k \in 0..MaxCnames, NEW n \in Names PROVE Good(k, n)
  <2>1. MaxCnames - k \in 0..MaxCnames /\ MaxCnames - (MaxCnames - k) = k
    BY <1>1
  <2>2. QED BY <1>2, <2>1
<1>4. QED BY <1>3

-----------------------------------------------------------------------------
(* The invariant. *)

(* A call that waits is on the list of the job of its name, once. *)
WaitersInv ==
  /\ \A n \in Names: Injective(job[n].waiters)
  /\ \A c \in Callers, n \in Names:
        c \in ToSet(job[n].waiters) <=> Waits(c) /\ lookup[c].name = n

(* A name has a job while it is asked for or its waiters are called: and *)
(* then the cache has its answer. *)
JobsInv ==
  /\ \A n \in Names: Asked(n) => job[n].waiters # <<>>
  /\ \A n \in Names: job[n] # NoJob => Asked(n) \/ notifying.name = n
  /\ \/ notifying = NotNotifying
     \/ notifying.name \in Names /\ Finished(notifying.name)

QueueInv ==
  /\ Injective(waiting)
  /\ fault = "none" => \A n \in ToSet(waiting): Asked(n)
  /\ (send_trap = "none") <=> (waiting = <<>>)

(* A call that waits is where its current name leads now, after names that *)
(* do not exist; one that was answered was told what it would find there. *)
StopsAt(c, u, r) ==
  /\ Follow[0][Tries[c][u]] = [result |-> r]
  /\ \A v \in 1..(u - 1): NotFound(Follow[0][Tries[c][v]])
  /\ r # "negative" \/ u = Len(Tries[c])

CallInv(c) ==
  /\ Waits(c) =>
       /\ lookup[c].try \in 1..Len(Tries[c]) /\ lookup[c].name \in Names
       /\ Follow[0][Tries[c][lookup[c].try]] = Follow[lookup[c].n_cnames][lookup[c].name]
       /\ \A v \in 1..(lookup[c].try - 1): NotFound(Follow[0][Tries[c][v]])
  /\ lookup[c].status = "done" =>
       /\ lookup[c].answers = 1
       /\ \E u \in 1..Len(Tries[c]): StopsAt(c, u, lookup[c].result)

CallsInv == \A c \in Callers: CallInv(c)

DnsInv == TypeOK /\ WaitersInv /\ JobsInv /\ QueueInv /\ CallsInv

-----------------------------------------------------------------------------
(* How the steps move the calls on. *)

Jobs == [ns_index: Servers, id: Servers, attempt: 0..(Attempts - 1), waiters: Seq(Callers)]
Calls == [status: {"new", "waiting"}, try: Nat, n_cnames: 0..MaxCnames, name: Names \cup {NULL}]
         \cup [status: {"done"}, result: Results, answers: Nat]

Somewhere == \A k \in 0..MaxCnames, n \in Names:
  \/ Follow[k][n] \in Results1
  \/ Follow[k][n] \in Places /\ Open(cache[Follow[k][n].name])

Onward == \A k \in 0..MaxCnames, n \in Names:
  /\ Follow[k][n] \in Results1 => Follow'[k][n] = Follow[k][n]
  /\ Follow[k][n] \in Places => Follow'[k][n] = Follow'[Follow[k][n].n_cnames][Follow[k][n].name]

LEMMA TypesAre ==
  /\ TypeOK <=> /\ cache \in [Names -> Entries] /\ job \in [Names -> Jobs]
                /\ waiting \in Seq(Names) /\ send_trap \in {"none", "live", "freed"}
                /\ next_nameserver_index \in Servers
                /\ sent \subseteq [to: Servers, id: Servers, name: Names]
                /\ lookup \in [Callers -> Calls]
                /\ notifying \in [name: Names \cup {NULL}, user: BOOLEAN]
                /\ fault \in {"none", "corrupt"}
  /\ TypeOK' <=> /\ cache' \in [Names -> Entries] /\ job' \in [Names -> Jobs]
                 /\ waiting' \in Seq(Names) /\ send_trap' \in {"none", "live", "freed"}
                 /\ next_nameserver_index' \in Servers
                 /\ sent' \subseteq [to: Servers, id: Servers, name: Names]
                 /\ lookup' \in [Callers -> Calls]
                 /\ notifying' \in [name: Names \cup {NULL}, user: BOOLEAN]
                 /\ fault' \in {"none", "corrupt"}
BY DEF TypeOK, Entries, Jobs, Calls

LEMMA LeadsSomewhere ==
  ASSUME cache \in [Names -> Entries] PROVE Somewhere
BY FollowLeads, WhereItEnds DEF Somewhere

LEMMA LeadsOnward ==
  ASSUME cache \in [Names -> Entries], cache' \in [Names -> Entries],
         \A n \in Names: ~Open(cache[n]) => cache'[n] = cache[n]
  PROVE  Onward
BY FollowLeads, FollowLeadsNext, Advance DEF Onward

LEMMA TriesAre ==
  ASSUME NEW c \in Callers
  PROVE  /\ Len(Tries[c]) \in Nat \ {0}
         /\ \A v \in 1..Len(Tries[c]): Tries[c][v] \in Names
<1>1. Tries[c] \in Seq(Names) /\ Tries[c] # <<>>
  BY TriesAssumption
<1>2. QED BY <1>1

(* A result stays. *)
LEMMA ResultsStay ==
  ASSUME NEW c \in Callers, Onward
  PROVE  /\ \A v \in 1..Len(Tries[c]), r \in Results:
               Follow[0][Tries[c][v]] = [result |-> r] => Follow'[0][Tries[c][v]] = [result |-> r]
         /\ \A v \in 1..Len(Tries[c]):
               NotFound(Follow[0][Tries[c][v]]) => NotFound(Follow'[0][Tries[c][v]])
<1>1. ASSUME NEW v \in 1..Len(Tries[c]), NEW r \in Results, Follow[0][Tries[c][v]] = [result |-> r]
      PROVE  Follow'[0][Tries[c][v]] = [result |-> r]
  <2>1. 0 \in 0..MaxCnames /\ Tries[c][v] \in Names
    BY BoundsAssumption, TriesAre
  <2>2. Follow[0][Tries[c][v]] \in Results1
    BY <1>1 DEF Results1
  <2>3. QED BY <1>1, <2>1, <2>2 DEF Onward
<1>2. "negative" \in Results
  BY DEF Results
<1>3. QED BY <1>1, <1>2 DEF NotFound

(* A call that a step does not touch stays true as the cache fills. *)
LEMMA CallKept ==
  ASSUME NEW c \in Callers, lookup \in [Callers -> Calls], Somewhere, Onward, CallInv(c),
         lookup'[c] = lookup[c]
  PROVE  CallInv(c)'
<1> USE TriesAre
<1>0. 0 \in 0..MaxCnames /\ Len(Tries[c]) \in Nat
  BY BoundsAssumption
<1>1. \A v \in 1..Len(Tries[c]), r \in Results:
        Follow[0][Tries[c][v]] = [result |-> r] => Follow'[0][Tries[c][v]] = [result |-> r]
  BY ResultsStay
<1>2. \A v \in 1..Len(Tries[c]): NotFound(Follow[0][Tries[c][v]]) => NotFound(Follow'[0][Tries[c][v]])
  BY ResultsStay
<1>3. CASE Waits(c)
  <2> DEFINE x == lookup[c]
             T == Tries[c][x.try]
  <2>1. /\ x.try \in 1..Len(Tries[c]) /\ x.name \in Names /\ x.n_cnames \in 0..MaxCnames
        /\ Follow[0][T] = Follow[x.n_cnames][x.name]
        /\ \A v \in 1..(x.try - 1): NotFound(Follow[0][Tries[c][v]])
    BY <1>3 DEF CallInv, Waits, Calls
  <2>2. T \in Names /\ x.try \in Nat
    BY <2>1, <1>0
  <2> HIDE DEF x, T
  <2>3. Follow'[0][T] = Follow'[x.n_cnames][x.name]
    BY <1>0, <2>1, <2>2 DEF Somewhere, Onward
  <2>4. \A v \in 1..(x.try - 1): NotFound(Follow'[0][Tries[c][v]])
    BY <1>0, <1>2, <2>1, <2>2
  <2>5. lookup'[c] = x
    BY DEF x
  <2>6. QED BY <1>3, <2>1, <2>3, <2>4, <2>5 DEF CallInv, Waits, x, T
<1>4. CASE lookup[c].status = "done"
  <2>1. PICK u \in 1..Len(Tries[c]): StopsAt(c, u, lookup[c].result)
    BY <1>4 DEF CallInv
  <2>2. lookup[c].result \in Results /\ lookup[c].answers = 1
    BY <1>4 DEF CallInv, Calls
  <2>3. \A v \in 1..(u - 1): v \in 1..Len(Tries[c])
    BY <1>0, <2>1
  <2>4. StopsAt(c, u, lookup[c].result)'
    BY <1>1, <1>2, <2>1, <2>2, <2>3 DEF StopsAt
  <2>5. QED BY <1>4, <2>2, <2>4 DEF CallInv, Waits
<1>5. CASE ~Waits(c) /\ lookup[c].status # "done"
  BY <1>5 DEF CallInv, Waits
<1>6. QED BY <1>3, <1>4, <1>5

(* Where a call stops. *)
LEMMA LastTryIs ==
  ASSUME NEW c \in Callers, NEW t \in 1..Len(Tries[c]), NEW k, NEW n
  PROVE  LET u == LastTry(c, t, k, n) IN
         /\ u \in t..Len(Tries[c])
         /\ \A v \in t..(u - 1): NotFound(Outcome(c, t, k, n, v))
         /\ ~NotFound(Outcome(c, t, k, n, u)) \/ u = Len(Tries[c])
<1> DEFINE Stops(v) == ~NotFound(Outcome(c, t, k, n, v)) \/ v = Len(Tries[c])
           T == {v \in t..Len(Tries[c]): Stops(v)}
           Is(u) == /\ \A v \in t..(u - 1): NotFound(Outcome(c, t, k, n, v))
                    /\ Stops(u)
<1>1. Len(Tries[c]) \in Nat /\ t \in Nat /\ t <= Len(Tries[c])
  BY TriesAre
<1>2. T \in SUBSET Nat /\ Len(Tries[c]) \in T
  BY <1>1
<1> HIDE DEF T
<1>3. PICK m \in T: \A v \in T: m <= v
  BY <1>2, LeastNat
<1>4. m \in t..Len(Tries[c]) /\ Stops(m)
  BY DEF T
<1>5. ASSUME NEW v \in t..(m - 1) PROVE NotFound(Outcome(c, t, k, n, v))
  <2>1. v \in t..Len(Tries[c]) /\ ~(m <= v)
    BY <1>1, <1>4
  <2>2. v \notin T
    BY <1>3, <2>1
  <2>3. QED BY <2>1, <2>2 DEF T
<1>6. Is(m)
  BY <1>4, <1>5
<1>7. LastTry(c, t, k, n) = CHOOSE u \in t..Len(Tries[c]): Is(u)
  BY DEF LastTry
<1> HIDE DEF Is
<1>8. LastTry(c, t, k, n) \in t..Len(Tries[c]) /\ Is(LastTry(c, t, k, n))
  BY <1>4, <1>6, <1>7
<1>9. QED BY <1>8 DEF Is

(* Call c, at its try t and there at name n after k aliases, and not *)
(* waiting any more: it is answered, or waits, at the next name that is *)
(* found. *)
At(c, t, k, n) ==
  /\ t \in 1..Len(Tries[c]) /\ k \in 0..MaxCnames /\ n \in Names
  /\ Follow[0][Tries[c][t]] = Follow[k][n]
  /\ \A v \in 1..(t - 1): NotFound(Follow[0][Tries[c][v]])

Stops(c, u) ==
  /\ u \in 1..Len(Tries[c])
  /\ \A v \in 1..(u - 1): NotFound(Follow[0][Tries[c][v]])
  /\ ~NotFound(Follow[0][Tries[c][u]]) \/ u = Len(Tries[c])

LEMMA ResolveIs ==
  ASSUME NEW c \in Callers, NEW t, NEW k, NEW n, NEW jobs, Somewhere, At(c, t, k, n),
         Resolve(c, t, k, n, jobs)
  PROVE  \E u: LET x == Follow[0][Tries[c][u]] IN
           /\ Stops(c, u)
           /\ \/ /\ x \in Results1 /\ Answer(c, x.result) /\ job' = jobs
                 /\ UNCHANGED <<cache, waiting, send_trap, next_nameserver_index, sent, fault>>
              \/ x \in Places /\ Open(cache[x.name]) /\ WaitFor(c, u, x, jobs)
<1> DEFINE u == LastTry(c, t, k, n)
           x == Follow[0][Tries[c][u]]
<1>0. t \in 1..Len(Tries[c]) /\ Len(Tries[c]) \in Nat /\ 0 \in 0..MaxCnames
  BY TriesAre, BoundsAssumption DEF At
<1>1. /\ u \in t..Len(Tries[c])
      /\ \A v \in t..(u - 1): NotFound(Outcome(c, t, k, n, v))
      /\ ~NotFound(Outcome(c, t, k, n, u)) \/ u = Len(Tries[c])
  BY <1>0, LastTryIs
<1>2. \A v: Outcome(c, t, k, n, v) = Follow[0][Tries[c][v]]
  BY DEF Outcome, At
<1>3. /\ x \in Results1 => Answer(c, x.result) /\ job' = jobs
                        /\ UNCHANGED <<cache, waiting, send_trap, next_nameserver_index, sent, fault>>
      /\ x \notin Results1 => WaitFor(c, u, x, jobs)
  BY <1>2 DEF Resolve, Results1
<1> HIDE DEF u
<1>4. u \in 1..Len(Tries[c]) /\ \A v \in 1..(u - 1): v \in 1..(t - 1) \/ v \in t..(u - 1)
  BY <1>0, <1>1
<1>5. Stops(c, u)
  BY <1>1, <1>2, <1>4 DEF Stops, At
<1>6. Tries[c][u] \in Names
  BY <1>4, TriesAre
<1>7. x \in Results1 \/ (x \in Places /\ Open(cache[x.name]))
  BY <1>0, <1>6 DEF Somewhere
<1> HIDE DEF x
<1>8. (x \in Results1 /\ Answer(c, x.result) /\ job' = jobs
         /\ UNCHANGED <<cache, waiting, send_trap, next_nameserver_index, sent, fault>>)
      \/ (x \in Places /\ Open(cache[x.name]) /\ WaitFor(c, u, x, jobs))
  BY <1>3, <1>7
<1>9. QED BY <1>5, <1>8 DEF x

(* Changing the waiters of one job. *)
LEMMA WaitersChange ==
  ASSUME NEW jobs \in [Names -> Jobs], NEW n \in Names, NEW list \in Seq(Callers)
  PROVE  LET new == [jobs EXCEPT ![n].waiters = list] IN
         /\ new \in [Names -> Jobs] /\ new[n].waiters = list
         /\ \A m \in Names: m # n => new[m] = jobs[m]
BY DEF Jobs

(* The jobs, when call c waits with none of them and is not answered. *)
Ready(c, jobs) ==
  /\ jobs \in [Names -> Jobs]
  /\ \A n \in Names: Injective(jobs[n].waiters)
  /\ \A d \in Callers, n \in Names:
        d \in ToSet(jobs[n].waiters) <=> d # c /\ Waits(d) /\ lookup[d].name = n
  /\ \A n \in Names: Asked(n) => jobs[n].waiters # <<>>
  /\ \A n \in Names: jobs[n] # NoJob => Asked(n) \/ notifying.name = n
  /\ lookup[c].status # "done"

(* The waiters of a job are called one after the other. *)
Notifying ==
  /\ notifying' \in [name: Names \cup {NULL}, user: BOOLEAN]
  /\ notifying'.name = notifying.name
  /\ notifying = NotNotifying => notifying' = NotNotifying

(* It is answered. *)
LEMMA AnswerKeeps ==
  ASSUME DnsInv, fault = "none", Notifying, NEW c \in Callers, NEW u, NEW jobs, Ready(c, jobs),
         Stops(c, u), Follow[0][Tries[c][u]] \in Results1,
         Answer(c, Follow[0][Tries[c][u]].result), job' = jobs,
         UNCHANGED <<cache, waiting, send_trap, next_nameserver_index, sent, fault>>
  PROVE  DnsInv'
<1>1. PICK r \in Results: Follow[0][Tries[c][u]] = [result |-> r]
  BY DEF Results1
<1> DEFINE new == [status |-> "done", result |-> r, answers |-> 1]
<1>2. lookup' = [lookup EXCEPT ![c] = new]
  BY <1>1 DEF Answer, Ready
<1>3. new \in Calls
  BY <1>1 DEF Calls
<1>4. new.status = "done" /\ new.answers = 1 /\ new.result = r
  OBVIOUS
<1> HIDE DEF new
<1>5. lookup \in [Callers -> Calls] /\ cache \in [Names -> Entries]
  BY TypesAre DEF DnsInv
<1>6. /\ lookup' \in [Callers -> Calls] /\ lookup'[c] = new
      /\ \A d \in Callers: d # c => lookup'[d] = lookup[d]
  BY <1>2, <1>3, <1>5
<1>7. TypeOK'
  BY <1>6, TypesAre DEF DnsInv, Ready, Notifying
<1>8. WaitersInv'
  BY <1>4, <1>6 DEF WaitersInv, Ready, Waits
<1>9. JobsInv'
  BY DEF JobsInv, DnsInv, Ready, Notifying, Asked, Finished, Cached
<1>10. QueueInv'
  BY DEF QueueInv, DnsInv, Asked
<1>11. Somewhere /\ Onward
  BY <1>5, LeadsSomewhere, LeadsOnward
<1>12. ASSUME NEW d \in Callers PROVE CallInv(d)'
  <2>1. CASE d # c
    BY <1>5, <1>6, <1>11, <2>1, CallKept DEF DnsInv, CallsInv
  <2>2. CASE d = c
    <3>0. 0 \in 0..MaxCnames /\ Len(Tries[c]) \in Nat /\ \A v \in 1..Len(Tries[c]): Tries[c][v] \in Names
      BY BoundsAssumption, TriesAre
    <3>1. u \in 1..Len(Tries[c]) /\ \A v \in 1..(u - 1): v \in 1..Len(Tries[c])
      BY <3>0 DEF Stops
    <3>2. Follow'[0][Tries[c][u]] = [result |-> r]
      BY <1>1, <1>11, <3>1, ResultsStay
    <3>3. \A v \in 1..(u - 1): NotFound(Follow'[0][Tries[c][v]])
      BY <1>11, <3>1, ResultsStay DEF Stops
    <3>5. r # "negative" \/ u = Len(Tries[c])
      BY <1>1 DEF Stops, NotFound
    <3>6. StopsAt(c, u, r)'
      BY <3>2, <3>3, <3>5 DEF StopsAt
    <3>7. lookup'[d].status = "done" /\ lookup'[d].answers = 1 /\ lookup'[d].result = r
      BY <1>4, <1>6, <2>2
    <3>4. QED BY <2>2, <3>1, <3>6, <3>7 DEF CallInv, Waits
  <2>3. QED BY <2>1, <2>2
<1>13. QED BY <1>7, <1>8, <1>9, <1>10, <1>12 DEF DnsInv, CallsInv

(* It waits, at its try u, for the name where that try leads. *)
LEMMA CallWaits ==
  ASSUME NEW c \in Callers, Somewhere, Onward, NEW u, Stops(c, u), NEW x \in Places,
         Follow[0][Tries[c][u]] = x,
         lookup'[c] = [status |-> "waiting", try |-> u, n_cnames |-> x.n_cnames, name |-> x.name]
  PROVE  CallInv(c)'
<1>1. /\ 0 \in 0..MaxCnames /\ Len(Tries[c]) \in Nat
      /\ \A v \in 1..Len(Tries[c]): Tries[c][v] \in Names
  BY BoundsAssumption, TriesAre
<1>2. u \in 1..Len(Tries[c]) /\ \A v \in 1..(u - 1): v \in 1..Len(Tries[c])
  BY <1>1 DEF Stops
<1>3. Tries[c][u] \in Names
  BY <1>1, <1>2
<1>4. Follow'[0][Tries[c][u]] = Follow'[x.n_cnames][x.name]
  BY <1>1, <1>3 DEF Onward
<1>5. \A v \in 1..(u - 1): NotFound(Follow'[0][Tries[c][v]])
  BY <1>2, ResultsStay DEF Stops
<1>6. x.name \in Names
  BY DEF Places
<1>7. QED BY <1>2, <1>4, <1>5, <1>6 DEF CallInv, Waits

LEMMA WaitingCall ==
  ASSUME NEW c \in Callers, NEW u, Stops(c, u), NEW x \in Places
  PROVE  [status |-> "waiting", try |-> u, n_cnames |-> x.n_cnames, name |-> x.name] \in Calls
<1>1. u \in Nat
  BY TriesAre DEF Stops
<1>2. QED BY <1>1 DEF Calls, Places

(* ... which somebody has asked for already. *)
LEMMA WaitsMore ==
  ASSUME DnsInv, fault = "none", Notifying, NEW c \in Callers, NEW u, NEW jobs, Ready(c, jobs),
         Stops(c, u), NEW x \in Places, Follow[0][Tries[c][u]] = x, Asked(x.name),
         WaitFor(c, u, x, jobs)
  PROVE  DnsInv'
<1> DEFINE n == x.name
           w == [status |-> "waiting", try |-> u, n_cnames |-> x.n_cnames, name |-> n]
           list == <<c>> \o jobs[n].waiters
<1>1. n \in Names
  BY DEF Places
<1>2. /\ lookup' = [lookup EXCEPT ![c] = w]
      /\ job' = [jobs EXCEPT ![n].waiters = list]
  BY DEF WaitFor
<1>0. UNCHANGED <<cache, waiting, send_trap, next_nameserver_index, sent, fault>>
  BY DEF WaitFor
<1>3. w \in Calls
  BY WaitingCall
<1>4. w.status = "waiting" /\ w.name = n
  OBVIOUS
<1>5. lookup \in [Callers -> Calls] /\ cache \in [Names -> Entries] /\ jobs \in [Names -> Jobs]
  BY TypesAre DEF DnsInv, Ready
<1>6. jobs[n].waiters \in Seq(Callers) /\ Injective(jobs[n].waiters) /\ c \notin ToSet(jobs[n].waiters)
  BY <1>1, <1>5 DEF Ready, Jobs
<1>7. /\ list \in Seq(Callers) /\ list # <<>> /\ Injective(list)
      /\ ToSet(list) = ToSet(jobs[n].waiters) \cup {c}
  BY <1>6, PrependIs
<1>8. Somewhere /\ Onward
  BY <1>0, <1>5, LeadsSomewhere, LeadsOnward
<1>9. CallInv(c)'
  <2>1. lookup'[c] = w
    BY <1>2, <1>5
  <2>2. QED BY <1>8, <2>1, CallWaits
<1> HIDE DEF w, list
<1>10. /\ lookup' \in [Callers -> Calls] /\ lookup'[c] = w
       /\ \A d \in Callers: d # c => lookup'[d] = lookup[d]
  BY <1>2, <1>3, <1>5
<1>11. /\ job' \in [Names -> Jobs] /\ job'[n].waiters = list
       /\ \A m \in Names: m # n => job'[m] = jobs[m]
  BY <1>1, <1>2, <1>5, <1>7, WaitersChange
<1>12. TypeOK'
  BY <1>0, <1>10, <1>11, TypesAre DEF DnsInv, Notifying
<1>13. WaitersInv'
  <2>1. \A m \in Names: Injective(job'[m].waiters)
    BY <1>7, <1>11 DEF Ready
  <2>2. \A d \in Callers, m \in Names:
          d \in ToSet(job'[m].waiters) <=> lookup'[d].status = "waiting" /\ lookup'[d].name = m
    BY <1>4, <1>7, <1>10, <1>11 DEF Ready, Waits
  <2>3. QED BY <2>1, <2>2 DEF WaitersInv, Waits
<1>14. JobsInv'
  <2>1. \A m \in Names: Asked(m)' <=> Asked(m)
    BY <1>0 DEF Asked
  <2>2. \A m \in Names: Asked(m) => job'[m].waiters # <<>>
    BY <1>7, <1>11 DEF Ready
  <2>3. \A m \in Names: job'[m] # NoJob => Asked(m) \/ notifying'.name = m
    BY <1>11 DEF Ready, Notifying
  <2>4. (notifying = NotNotifying \/ (notifying.name \in Names /\ Finished(notifying.name)))'
    BY <1>0 DEF DnsInv, JobsInv, Notifying, Finished, Asked, Cached
  <2>5. QED BY <2>1, <2>2, <2>3, <2>4 DEF JobsInv
<1>15. QueueInv'
  BY <1>0 DEF QueueInv, DnsInv, Asked
<1>16. ASSUME NEW d \in Callers, d # c PROVE CallInv(d)'
  BY <1>5, <1>8, <1>10, <1>16, CallKept DEF DnsInv, CallsInv
<1>17. QED BY <1>9, <1>12, <1>13, <1>14, <1>15, <1>16 DEF DnsInv, CallsInv

(* What job_send_message does to the list of those to send. *)
LEMMA SendKeeps ==
  ASSUME NEW n \in Names, NEW j \in Jobs, NEW queue \in Seq(Names), Injective(queue),
         n \notin ToSet(queue), TypeOK, send_trap = "none" => queue = <<>>, Send(n, j, queue)
  PROVE  /\ sent' \subseteq [to: Servers, id: Servers, name: Names]
         /\ waiting' \in Seq(Names) /\ Injective(waiting')
         /\ send_trap' \in {"none", "live", "freed"}
         /\ ToSet(waiting') \subseteq ToSet(queue) \cup {n}
         /\ (send_trap' = "none") <=> (waiting' = <<>>)
<1>1. Question(n, j) \in [to: Servers, id: Servers, name: Names]
  BY DEF Question, Jobs
<1>2. sent \subseteq [to: Servers, id: Servers, name: Names] /\ send_trap \in {"none", "live", "freed"}
  BY TypesAre
<1>3. CASE /\ sent' = sent \cup {Question(n, j)}
           /\ waiting' = queue
           /\ send_trap' = IF queue = <<>> THEN "none" ELSE send_trap
  BY <1>1, <1>2, <1>3
<1>4. CASE /\ sent' = sent
           /\ waiting' = Append(queue, n)
           /\ send_trap' = IF queue = <<>> THEN "live" ELSE send_trap
  <2>1. /\ waiting' \in Seq(Names) /\ Injective(waiting')
        /\ ToSet(waiting') = ToSet(queue) \cup {n}
    BY <1>4, AppendIs
  <2>2. waiting' # <<>>
    BY <1>4
  <2>3. QED BY <1>2, <1>4, <2>1, <2>2
<1>5. QED BY <1>3, <1>4 DEF Send

LEMMA NextServer == \A i \in Servers: (i + 1) % NServers \in Servers
BY BoundsAssumption DEF Servers

(* ... which nobody has asked for: a job begins. *)
LEMMA WaitsFirst ==
  ASSUME DnsInv, fault = "none", Notifying, NEW c \in Callers, NEW u, NEW jobs, Ready(c, jobs),
         Stops(c, u), NEW x \in Places, Follow[0][Tries[c][u]] = x, Open(cache[x.name]), ~Asked(x.name),
         WaitFor(c, u, x, jobs)
  PROVE  DnsInv'
<1> DEFINE n == x.name
           w == [status |-> "waiting", try |-> u, n_cnames |-> x.n_cnames, name |-> n]
           begun == [ns_index |-> next_nameserver_index, id |-> next_nameserver_index,
                     attempt |-> 0, waiters |-> <<c>>]
<1>1. n \in Names
  BY DEF Places
<1>2. /\ lookup' = [lookup EXCEPT ![c] = w]
      /\ job' = [jobs EXCEPT ![n] = begun]
      /\ cache' = [cache EXCEPT ![n] = InProgress]
      /\ Send(n, begun, waiting)
  BY DEF WaitFor
<1>0. /\ fault' \in {"none", "corrupt"}
      /\ next_nameserver_index' = (next_nameserver_index + 1) % NServers
  BY DEF WaitFor
<1>3. w \in Calls
  BY WaitingCall
<1>4. w.status = "waiting" /\ w.name = n
  OBVIOUS
<1>5. /\ lookup \in [Callers -> Calls] /\ cache \in [Names -> Entries] /\ jobs \in [Names -> Jobs]
      /\ next_nameserver_index \in Servers /\ waiting \in Seq(Names) /\ TypeOK
  BY TypesAre DEF DnsInv, Ready
<1>6. begun \in Jobs
  <2>1. 0 \in 0..(Attempts - 1) /\ <<c>> \in Seq(Callers)
    BY BoundsAssumption
  <2>2. QED BY <1>5, <2>1 DEF Jobs
<1>7. begun.waiters = <<c>> /\ <<c>> # <<>> /\ Injective(<<c>>) /\ ToSet(<<c>>) = {c}
  BY DEF Injective, ToSet
<1>8. cache[n].type = "absent"
  BY DEF Open, Asked
<1>9. /\ cache' \in [Names -> Entries] /\ cache'[n].type = "in_progress"
      /\ \A m \in Names: m # n => cache'[m] = cache[m]
  <2>1. InProgress \in Entries /\ InProgress.type = "in_progress"
    BY DEF InProgress, Entries
  <2>2. QED BY <1>1, <1>2, <1>5, <2>1
<1>10. \A m \in Names: Asked(m)' <=> Asked(m) \/ m = n
  BY <1>1, <1>9 DEF Asked
<1>11. Somewhere /\ Onward
  BY <1>5, <1>8, <1>9, LeadsSomewhere, LeadsOnward DEF Open
<1>12. CallInv(c)'
  <2>1. lookup'[c] = w
    BY <1>2, <1>5
  <2>2. QED BY <1>11, <2>1, CallWaits
<1> HIDE DEF w, begun
<1>13. /\ lookup' \in [Callers -> Calls] /\ lookup'[c] = w
       /\ \A d \in Callers: d # c => lookup'[d] = lookup[d]
  BY <1>2, <1>3, <1>5
<1>14. /\ job' \in [Names -> Jobs] /\ job'[n] = begun
       /\ \A m \in Names: m # n => job'[m] = jobs[m]
  BY <1>1, <1>2, <1>5, <1>6
<1>15. /\ Injective(waiting) /\ \A m \in ToSet(waiting): Asked(m)
       /\ send_trap = "none" => waiting = <<>>
  BY DEF DnsInv, QueueInv
<1>16. /\ sent' \subseteq [to: Servers, id: Servers, name: Names]
       /\ waiting' \in Seq(Names) /\ Injective(waiting')
       /\ send_trap' \in {"none", "live", "freed"}
       /\ ToSet(waiting') \subseteq ToSet(waiting) \cup {n}
       /\ (send_trap' = "none") <=> (waiting' = <<>>)
  BY <1>1, <1>2, <1>5, <1>6, <1>15, SendKeeps
<1>17. TypeOK'
  BY <1>0, <1>5, <1>9, <1>13, <1>14, <1>16, TypesAre, NextServer DEF Notifying
<1>18. n # notifying.name
  BY <1>1, <1>8, NullAssumption DEF DnsInv, JobsInv, Finished, Cached, NotNotifying
<1>19. \A d \in Callers: d # c => ~(Waits(d) /\ lookup[d].name = n)
  <2>1. jobs[n] = NoJob
    BY <1>1, <1>18 DEF Ready
  <2>2. jobs[n].waiters = <<>>
    BY <2>1 DEF NoJob
  <2>3. ToSet(<<>>) = {}
    BY DEF ToSet
  <2>4. QED BY <1>1, <2>2, <2>3 DEF Ready
<1>20. WaitersInv'
  <2>1. \A m \in Names: Injective(job'[m].waiters)
    BY <1>7, <1>14 DEF Ready
  <2>2. \A d \in Callers, m \in Names:
          d \in ToSet(job'[m].waiters) <=> lookup'[d].status = "waiting" /\ lookup'[d].name = m
    BY <1>4, <1>7, <1>13, <1>14, <1>19 DEF Ready, Waits
  <2>3. QED BY <2>1, <2>2 DEF WaitersInv, Waits
<1>21. JobsInv'
  <2>2. \A m \in Names: Asked(m)' => job'[m].waiters # <<>>
    BY <1>7, <1>10, <1>14 DEF Ready
  <2>3. \A m \in Names: job'[m] # NoJob => Asked(m)' \/ notifying'.name = m
    BY <1>10, <1>14 DEF Ready, Notifying
  <2>4. (notifying = NotNotifying \/ (notifying.name \in Names /\ Finished(notifying.name)))'
    BY <1>9, <1>18 DEF DnsInv, JobsInv, Notifying, Finished, Asked, Cached
  <2>5. QED BY <2>2, <2>3, <2>4 DEF JobsInv
<1>22. QueueInv'
  <2>1. \A m \in ToSet(waiting'): m \in Names
    BY <1>16 DEF ToSet
  <2>2. \A m \in ToSet(waiting'): Asked(m)'
    BY <1>10, <1>15, <1>16, <2>1
  <2>3. QED BY <1>16, <2>2 DEF QueueInv
<1>23. ASSUME NEW d \in Callers, d # c PROVE CallInv(d)'
  BY <1>5, <1>11, <1>13, <1>23, CallKept DEF DnsInv, CallsInv
<1>24. QED BY <1>12, <1>17, <1>20, <1>21, <1>22, <1>23 DEF DnsInv, CallsInv

(* A call that is at a name goes on: Resolve. *)
LEMMA ResolveKeeps ==
  ASSUME DnsInv, fault = "none", Notifying, NEW c \in Callers, NEW t, NEW k, NEW n, NEW jobs,
         Ready(c, jobs), At(c, t, k, n), Resolve(c, t, k, n, jobs)
  PROVE  DnsInv'
<1>1. Somewhere
  BY TypesAre, LeadsSomewhere DEF DnsInv
<1>2. PICK u: LET x == Follow[0][Tries[c][u]] IN
        /\ Stops(c, u)
        /\ \/ /\ x \in Results1 /\ Answer(c, x.result) /\ job' = jobs
              /\ UNCHANGED <<cache, waiting, send_trap, next_nameserver_index, sent, fault>>
           \/ x \in Places /\ Open(cache[x.name]) /\ WaitFor(c, u, x, jobs)
  BY <1>1, ResolveIs
<1>3. CASE Follow[0][Tries[c][u]] \in Results1
  <2>1. Follow[0][Tries[c][u]] \notin Places
    BY <1>3 DEF Results1, Places
  <2>2. QED BY <1>2, <1>3, <2>1, AnswerKeeps
<1>4. CASE Follow[0][Tries[c][u]] \notin Results1
  <2>1. PICK x \in Places: x = Follow[0][Tries[c][u]]
    BY <1>2, <1>4
  <2>2. Stops(c, u) /\ Open(cache[x.name]) /\ WaitFor(c, u, x, jobs)
    BY <1>2, <1>4, <2>1
  <2>3. QED BY <2>1, <2>2, WaitsMore, WaitsFirst
<1>5. QED BY <1>3, <1>4

-----------------------------------------------------------------------------
(* The steps. *)

(* A step that leaves the calls alone. *)
LEMMA CallsKept ==
  ASSUME DnsInv, cache' \in [Names -> Entries], \A n \in Names: ~Open(cache[n]) => cache'[n] = cache[n],
         lookup' = lookup
  PROVE  CallsInv'
<1>1. lookup \in [Callers -> Calls] /\ cache \in [Names -> Entries]
  BY TypesAre DEF DnsInv
<1>2. Somewhere /\ Onward
  BY <1>1, LeadsSomewhere, LeadsOnward
<1>3. QED BY <1>1, <1>2, CallKept DEF DnsInv, CallsInv

LEMMA LookupKeeps ==
  ASSUME DnsInv, NEW c \in Callers, Lookup(c) PROVE DnsInv'
<1>1. /\ fault = "none" /\ lookup[c].status = "new" /\ notifying' = notifying
      /\ Resolve(c, 1, 0, Tries[c][1], job)
  BY DEF Lookup
<1>2. Notifying
  BY <1>1, TypesAre DEF DnsInv, Notifying
<1>3. Ready(c, job)
  BY <1>1, TypesAre DEF Ready, DnsInv, WaitersInv, JobsInv, Waits
<1>4. 1 \in 1..Len(Tries[c]) /\ 0 \in 0..MaxCnames /\ Tries[c][1] \in Names
  BY BoundsAssumption, TriesAre
<1>5. At(c, 1, 0, Tries[c][1])
  BY <1>4 DEF At
<1>6. QED BY <1>1, <1>2, <1>3, <1>5, ResolveKeeps

LEMMA NotifyWaiterKeeps ==
  ASSUME DnsInv, NotifyWaiter PROVE DnsInv'
<1> DEFINE n == notifying.name
           c == Head(job[n].waiters)
           list == Tail(job[n].waiters)
           jobs == [job EXCEPT ![n].waiters = list]
<1>1. /\ fault = "none" /\ notifying # NotNotifying /\ job[n].waiters # <<>>
      /\ Resolve(c, lookup[c].try, lookup[c].n_cnames, n, jobs)
  BY DEF NotifyWaiter
<1>2. notifying' = [notifying EXCEPT !.user = (lookup'[c].status = "done")]
  BY DEF NotifyWaiter
<1>3. n \in Names /\ Finished(n)
  BY <1>1 DEF DnsInv, JobsInv
<1>4. Notifying
  <2>1. notifying \in [name: Names \cup {NULL}, user: BOOLEAN]
    BY TypesAre DEF DnsInv
  <2>2. (lookup'[c].status = "done") \in BOOLEAN
    OBVIOUS
  <2> DEFINE ended == (lookup'[c].status = "done")
  <2>3. notifying' = [notifying EXCEPT !.user = ended] /\ ended \in BOOLEAN
    BY <1>2, <2>2
  <2> HIDE DEF ended
  <2>4. notifying' \in [name: Names \cup {NULL}, user: BOOLEAN] /\ notifying'.name = notifying.name
    BY ONLY <2>1, <2>3
  <2>5. QED BY <1>1, <2>4 DEF Notifying
<1>5. job \in [Names -> Jobs] /\ lookup \in [Callers -> Calls]
  BY TypesAre DEF DnsInv
<1>6. job[n].waiters \in Seq(Callers) /\ Injective(job[n].waiters)
  BY <1>3, <1>5 DEF Jobs, DnsInv, WaitersInv
<1>7. /\ c \in ToSet(job[n].waiters) /\ c \in Callers /\ list \in Seq(Callers)
      /\ ToSet(list) = ToSet(job[n].waiters) \ {c} /\ Injective(list)
  BY <1>1, <1>6, TailIs
<1>8. /\ jobs \in [Names -> Jobs] /\ jobs[n].waiters = list
      /\ \A m \in Names: m # n => jobs[m] = job[m]
  BY <1>3, <1>5, <1>7, WaitersChange
<1> HIDE DEF jobs, list, c
<1>9. Waits(c) /\ lookup[c].name = n
  BY <1>3, <1>7 DEF DnsInv, WaitersInv
<1>10. Ready(c, jobs)
  <2>1. \A m \in Names: Injective(jobs[m].waiters)
    BY <1>7, <1>8 DEF DnsInv, WaitersInv
  <2>2. \A d \in Callers, m \in Names:
          d \in ToSet(job[m].waiters) <=> Waits(d) /\ lookup[d].name = m
    BY DEF DnsInv, WaitersInv
  <2>3. \A d \in Callers, m \in Names:
          d \in ToSet(jobs[m].waiters) <=> d # c /\ Waits(d) /\ lookup[d].name = m
    BY <1>3, <1>7, <1>8, <1>9, <2>2
  <2>4. \A m \in Names: Asked(m) => jobs[m].waiters # <<>>
    BY <1>3, <1>8 DEF DnsInv, JobsInv, Finished
  <2>5. \A m \in Names: jobs[m] # NoJob => Asked(m) \/ n = m
    BY <1>8 DEF DnsInv, JobsInv
  <2>6. lookup[c].status # "done"
    BY <1>9 DEF Waits
  <2>7. QED BY <1>8, <2>1, <2>3, <2>4, <2>5, <2>6 DEF Ready
<1>11. At(c, lookup[c].try, lookup[c].n_cnames, n)
  <2>1. lookup[c].n_cnames \in 0..MaxCnames
    BY <1>5, <1>7, <1>9 DEF Calls, Waits
  <2>2. QED BY <1>3, <1>7, <1>9, <2>1 DEF At, DnsInv, CallsInv, CallInv
<1> HIDE DEF n
<1>12. QED BY <1>1, <1>4, <1>7, <1>10, <1>11, ResolveKeeps

LEMMA NotifyDoneKeeps ==
  ASSUME DnsInv, NotifyDone PROVE DnsInv'
<1> DEFINE n == notifying.name
<1>1. /\ notifying # NotNotifying /\ job[n].waiters = <<>>
      /\ job' = [job EXCEPT ![n] = NoJob] /\ notifying' = NotNotifying
      /\ UNCHANGED <<cache, waiting, send_trap, next_nameserver_index, sent, lookup, fault>>
  BY DEF NotifyDone
<1>2. n \in Names /\ Finished(n)
  BY <1>1 DEF DnsInv, JobsInv
<1>3. job \in [Names -> Jobs] /\ cache \in [Names -> Entries]
  BY TypesAre DEF DnsInv
<1>4. NoJob \in Jobs /\ NoJob.waiters = <<>>
  BY BoundsAssumption DEF NoJob, Jobs, Servers
<1>5. /\ job' \in [Names -> Jobs] /\ job'[n] = NoJob
      /\ \A m \in Names: m # n => job'[m] = job[m]
  BY <1>1, <1>2, <1>3, <1>4
<1>6. NotNotifying \in [name: Names \cup {NULL}, user: BOOLEAN] /\ NotNotifying.name = NULL
  BY DEF NotNotifying
<1>7. TypeOK'
  BY <1>1, <1>5, <1>6, TypesAre DEF DnsInv
<1> HIDE DEF n
<1>8. WaitersInv'
  <2>1. \A m \in Names: job'[m].waiters = job[m].waiters
    BY <1>1, <1>4, <1>5 DEF n
  <2>2. lookup' = lookup
    BY <1>1
  <2>3. QED BY <2>1, <2>2 DEF DnsInv, WaitersInv, Waits
<1>9. JobsInv'
  <2>1. \A m \in Names: Asked(m)' <=> Asked(m)
    BY <1>1 DEF Asked
  <2>2. \A m \in Names: Asked(m) => job'[m].waiters # <<>>
    BY <1>2, <1>5 DEF DnsInv, JobsInv, Finished
  <2>3. \A m \in Names: job'[m] # NoJob => Asked(m)
    BY <1>5 DEF DnsInv, JobsInv, n
  <2>4. QED BY <1>1, <2>1, <2>2, <2>3 DEF JobsInv, NotNotifying
<1>10. QueueInv'
  BY <1>1 DEF DnsInv, QueueInv, Asked
<1>11. CallsInv'
  BY <1>1, <1>3, CallsKept
<1>12. QED BY <1>7, <1>8, <1>9, <1>10, <1>11 DEF DnsInv

(* The job of name n ends: from now on its waiters are called. *)
LEMMA EndingKeeps ==
  ASSUME DnsInv, notifying = NotNotifying, NEW n \in Names, Asked(n),
         NEW e \in Entries, e.type \notin {"absent", "in_progress"},
         cache' = [cache EXCEPT ![n] = e], notifying' = [name |-> n, user |-> FALSE],
         UNCHANGED <<job, next_nameserver_index, lookup, sent>>, fault' \in {"none", "corrupt"},
         waiting' \in Seq(Names), send_trap' \in {"none", "live", "freed"}, Injective(waiting'),
         fault' = "none" => ToSet(waiting') \subseteq ToSet(waiting) \ {n}, fault = "none",
         (send_trap' = "none") <=> (waiting' = <<>>)
  PROVE  DnsInv'
<1>1. cache \in [Names -> Entries]
  BY TypesAre DEF DnsInv
<1>2. /\ cache' \in [Names -> Entries] /\ cache'[n] = e
      /\ \A m \in Names: m # n => cache'[m] = cache[m]
  BY <1>1
<1>3. \A m \in Names: Asked(m)' <=> Asked(m) /\ m # n
  BY <1>2 DEF Asked
<1>4. /\ notifying' \in [name: Names \cup {NULL}, user: BOOLEAN] /\ notifying'.name = n
  OBVIOUS
<1>5. TypeOK'
  BY <1>2, <1>4, TypesAre DEF DnsInv
<1>6. WaitersInv'
  BY DEF DnsInv, WaitersInv, Waits
<1>7. JobsInv'
  <2>1. \A m \in Names: job'[m] # NoJob => Asked(m)' \/ notifying'.name = m
    BY <1>3, <1>4, NullAssumption DEF DnsInv, JobsInv, NotNotifying
  <2>2. \A m \in Names: Asked(m)' => job'[m].waiters # <<>>
    BY <1>3 DEF DnsInv, JobsInv
  <2>3. Finished(n)'
    BY <1>2 DEF Finished, Cached, Asked
  <2>4. (notifying.name \in Names /\ Finished(notifying.name))'
    BY <1>4, <2>3 DEF Finished, Cached, Asked
  <2>5. QED BY <2>1, <2>2, <2>4 DEF JobsInv
<1>8. QueueInv'
  <2>1. \A m \in ToSet(waiting'): m \in Names
    BY DEF ToSet
  <2>2. fault' = "none" => \A m \in ToSet(waiting'): Asked(m)'
    BY <1>3, <2>1 DEF DnsInv, QueueInv
  <2>3. QED BY <2>2 DEF QueueInv
<1>9. CallsInv'
  BY <1>2, CallsKept DEF Asked, Open
<1>10. QED BY <1>5, <1>6, <1>7, <1>8, <1>9 DEF DnsInv

LEMMA ReceiveKeeps ==
  ASSUME DnsInv, NEW question \in sent, NEW answer \in Answers, Receive(question, answer)
  PROVE  DnsInv'
<1>1. question.name \in Names
  BY TypesAre DEF DnsInv
<1>2. /\ fault = "none" /\ notifying = NotNotifying /\ Asked(question.name)
      /\ cache' = [cache EXCEPT ![question.name] = answer]
      /\ fault' = IF question.name \in ToSet(waiting) THEN "corrupt" ELSE fault
      /\ notifying' = [name |-> question.name, user |-> FALSE]
      /\ UNCHANGED <<job, waiting, send_trap, next_nameserver_index, sent, lookup>>
  BY DEF Receive, jobVars
<1>3. answer \in Entries /\ answer.type \notin {"absent", "in_progress"}
  BY DEF Answers, Entries
<1>4. /\ waiting' \in Seq(Names) /\ send_trap' \in {"none", "live", "freed"} /\ Injective(waiting')
      /\ (send_trap' = "none") <=> (waiting' = <<>>)
  BY <1>2, TypesAre DEF DnsInv, QueueInv
<1>5. fault' \in {"none", "corrupt"} /\ (fault' = "none" => ToSet(waiting') \subseteq ToSet(waiting) \ {question.name})
  BY <1>2
<1>6. QED BY <1>1, <1>2, <1>3, <1>4, <1>5, EndingKeeps

(* clear_waiting_to_send_flag takes the job of name n off the list. *)
LEMMA ClearedIs ==
  ASSUME DnsInv, NEW n \in Names
  PROVE  /\ Cleared(n) \in Seq(Names) /\ Injective(Cleared(n))
         /\ ToSet(Cleared(n)) = ToSet(waiting) \ {n}
         /\ waiting = <<>> => Cleared(n) = <<>>
<1>1. Cleared(n) = Removed(waiting, n)
  BY DEF Cleared, Removed
<1>2. waiting \in Seq(Names) /\ Injective(waiting)
  BY TypesAre DEF DnsInv, QueueInv
<1>3. waiting = <<>> => Cleared(n) = <<>>
  BY DEF Cleared, ToSet
<1>4. QED BY <1>1, <1>2, <1>3, RemoveIs

LEMMA TimeOutKeeps ==
  ASSUME DnsInv, NEW n \in Names, TimeOut(n)
  PROVE  DnsInv'
<1> DEFINE e == [type |-> "error"]
<1>1. /\ fault = "none" /\ notifying = NotNotifying /\ Asked(n)
      /\ cache' = [cache EXCEPT ![n] = e]
      /\ waiting' = Cleared(n)
      /\ send_trap' = IF waiting' = <<>> THEN "none" ELSE send_trap
      /\ fault' \in {"none", "corrupt"}
      /\ notifying' = [name |-> n, user |-> FALSE]
      /\ UNCHANGED <<job, next_nameserver_index, sent, lookup>>
  BY DEF TimeOut
<1>2. e \in Entries /\ e.type \notin {"absent", "in_progress"}
  BY DEF Entries
<1> HIDE DEF e
<1>3. /\ waiting' \in Seq(Names) /\ Injective(waiting') /\ ToSet(waiting') \subseteq ToSet(waiting) \ {n}
      /\ waiting = <<>> => waiting' = <<>>
  BY <1>1, ClearedIs
<1>4. send_trap' \in {"none", "live", "freed"} /\ ((send_trap' = "none") <=> (waiting' = <<>>))
  BY <1>1, <1>3, TypesAre DEF DnsInv, QueueInv
<1>5. QED BY <1>1, <1>2, <1>3, <1>4, EndingKeeps

LEMMA RetryKeeps ==
  ASSUME DnsInv, NEW n \in Names, Retry(n)
  PROVE  DnsInv'
<1> DEFINE j == job[n]
           again == [j EXCEPT !.attempt = j.attempt + 1, !.ns_index = (j.ns_index + 1) % NServers]
<1>1. /\ fault = "none" /\ Asked(n) /\ j.attempt + 1 < Attempts
      /\ job' = [job EXCEPT ![n] = again]
      /\ Send(n, again, Cleared(n))
  BY DEF Retry
<1>2. fault' \in {"none", "corrupt"} /\ UNCHANGED <<cache, next_nameserver_index, lookup, notifying>>
  BY DEF Retry
<1>3. job \in [Names -> Jobs] /\ TypeOK
  BY TypesAre DEF DnsInv
<1>4. again \in Jobs /\ again.waiters = j.waiters
  <2>1. j.attempt + 1 \in 0..(Attempts - 1) /\ (j.ns_index + 1) % NServers \in Servers
    BY <1>1, <1>3, NextServer, BoundsAssumption DEF Jobs
  <2>2. j \in Jobs
    BY <1>3
  <2> DEFINE a == j.attempt + 1
             i == (j.ns_index + 1) % NServers
  <2>3. a \in 0..(Attempts - 1) /\ i \in Servers /\ again = [j EXCEPT !.attempt = a, !.ns_index = i]
    BY <2>1
  <2> HIDE DEF a, i, j, again
  <2>4. QED BY <2>2, <2>3 DEF Jobs
<1> HIDE DEF again
<1>5. /\ job' \in [Names -> Jobs] /\ job'[n] = again
      /\ \A m \in Names: m # n => job'[m] = job[m]
  BY <1>1, <1>3, <1>4
<1>6. /\ sent' \subseteq [to: Servers, id: Servers, name: Names]
      /\ waiting' \in Seq(Names) /\ Injective(waiting')
      /\ send_trap' \in {"none", "live", "freed"}
      /\ ToSet(waiting') \subseteq ToSet(Cleared(n)) \cup {n}
      /\ (send_trap' = "none") <=> (waiting' = <<>>)
  <2>1. /\ Cleared(n) \in Seq(Names) /\ Injective(Cleared(n)) /\ n \notin ToSet(Cleared(n))
        /\ send_trap = "none" => Cleared(n) = <<>>
    BY ClearedIs DEF DnsInv, QueueInv
  <2>2. QED BY <1>1, <1>3, <1>4, <2>1, SendKeeps
<1>7. TypeOK'
  BY <1>2, <1>3, <1>5, <1>6, TypesAre
<1>8. WaitersInv'
  <2>1. \A m \in Names: job'[m].waiters = job[m].waiters
    BY <1>4, <1>5
  <2>2. lookup' = lookup
    BY <1>2
  <2>3. QED BY <2>1, <2>2 DEF DnsInv, WaitersInv, Waits
<1>9. \A m \in Names: Asked(m)' <=> Asked(m)
  BY <1>2 DEF Asked
<1>10. JobsInv'
  <2>1. \A m \in Names: Asked(m) => job'[m].waiters # <<>>
    BY <1>4, <1>5 DEF DnsInv, JobsInv
  <2>2. \A m \in Names: job'[m] # NoJob => Asked(m) \/ notifying'.name = m
    BY <1>1, <1>2, <1>5 DEF DnsInv, JobsInv
  <2>3. (notifying = NotNotifying \/ (notifying.name \in Names /\ Finished(notifying.name)))'
    BY <1>2 DEF DnsInv, JobsInv, Finished, Asked, Cached
  <2>4. QED BY <1>9, <2>1, <2>2, <2>3 DEF JobsInv
<1>11. QueueInv'
  <2>0. \A m \in ToSet(waiting'): m \in Names
    BY <1>6 DEF ToSet
  <2>3. ToSet(Cleared(n)) = ToSet(waiting) \ {n}
    BY ClearedIs
  <2>4. \A m \in ToSet(waiting): Asked(m)
    BY <1>1 DEF DnsInv, QueueInv
  <2>1. \A m \in ToSet(waiting'): m \in Names /\ Asked(m)
    BY <1>1, <1>6, <2>0, <2>3, <2>4
  <2>2. QED BY <1>6, <1>9, <2>1 DEF QueueInv
<1>12. CallsInv'
  BY <1>2, CallsKept, TypesAre DEF DnsInv
<1>13. QED BY <1>7, <1>8, <1>10, <1>11, <1>12 DEF DnsInv

LEMMA SocketWritableKeeps ==
  ASSUME DnsInv, SocketWritable PROVE DnsInv'
<1>1. /\ fault = "none" /\ send_trap = "live"
      /\ UNCHANGED <<cache, job, next_nameserver_index, lookup, notifying, fault>>
  BY DEF SocketWritable
<1>2. PICK k \in 0..Len(waiting):
        LET left == SubSeq(waiting, k + 1, Len(waiting)) IN
        /\ sent' = sent \cup {Question(waiting[i], job[waiting[i]]): i \in 1..k}
        /\ waiting' = IF left = <<>> THEN <<>> ELSE Append(Tail(left), Head(left))
        /\ send_trap' = IF left = <<>> THEN "none" ELSE IF Len(left) = 1 THEN "live" ELSE "freed"
  BY DEF SocketWritable
<1> DEFINE left == SubSeq(waiting, k + 1, Len(waiting))
<1>3. /\ waiting \in Seq(Names) /\ Injective(waiting) /\ job \in [Names -> Jobs]
      /\ sent \subseteq [to: Servers, id: Servers, name: Names]
      /\ cache \in [Names -> Entries]
  BY TypesAre DEF DnsInv, QueueInv
<1>4. left \in Seq(Names) /\ ToSet(left) \subseteq ToSet(waiting) /\ Injective(left)
  BY <1>3, RestIs
<1>5. sent' \subseteq [to: Servers, id: Servers, name: Names]
  <2>1. \A n \in Names: Question(n, job[n]) \in [to: Servers, id: Servers, name: Names]
    BY <1>3 DEF Question, Jobs
  <2>2. \A i \in 1..k: waiting[i] \in Names
    BY <1>3
  <2>3. QED BY <1>2, <1>3, <2>1, <2>2
<1>6. /\ waiting' = IF left = <<>> THEN <<>> ELSE Append(Tail(left), Head(left))
      /\ send_trap' = IF left = <<>> THEN "none" ELSE IF Len(left) = 1 THEN "live" ELSE "freed"
  BY <1>2
<1> HIDE DEF left
<1>7. /\ waiting' \in Seq(Names) /\ Injective(waiting') /\ ToSet(waiting') \subseteq ToSet(waiting)
      /\ send_trap' \in {"none", "live", "freed"}
      /\ (send_trap' = "none") <=> (waiting' = <<>>)
  <2>1. CASE left = <<>>
    BY <1>6, <2>1 DEF Injective, ToSet
  <2>2. CASE left # <<>>
    <3>1. /\ Head(left) \in ToSet(left) /\ Head(left) \in Names
          /\ Tail(left) \in Seq(Names)
          /\ ToSet(Tail(left)) = ToSet(left) \ {Head(left)}
          /\ Injective(Tail(left))
      BY <1>4, <2>2, TailIs
    <3>2. waiting' = Append(Tail(left), Head(left))
      BY <1>6, <2>2
    <3>3. /\ waiting' \in Seq(Names) /\ Injective(waiting')
          /\ ToSet(waiting') = ToSet(Tail(left)) \cup {Head(left)}
      <4> DEFINE rest == Tail(left)
                 first == Head(left)
      <4>1. /\ rest \in Seq(Names) /\ first \in Names /\ Injective(rest) /\ first \notin ToSet(rest)
            /\ waiting' = Append(rest, first)
        BY <3>1, <3>2
      <4>2. rest = Tail(left) /\ first = Head(left)
        OBVIOUS
      <4> HIDE DEF rest, first
      <4>3. /\ Append(rest, first) \in Seq(Names) /\ Injective(Append(rest, first))
            /\ ToSet(Append(rest, first)) = ToSet(rest) \cup {first}
        BY ONLY <4>1, AppendIs
      <4>4. QED BY <4>1, <4>2, <4>3
    <3>4. waiting' # <<>>
      BY <3>1, <3>2
    <3>5. send_trap' \in {"live", "freed"}
      BY <1>6, <2>2
    <3>6. QED BY <1>4, <3>1, <3>3, <3>4, <3>5
  <2>3. QED BY <2>1, <2>2
<1>8. TypeOK'
  <2>1. waiting' \in Seq(Names) /\ send_trap' \in {"none", "live", "freed"}
    BY <1>7
  <2>2. TypeOK
    BY DEF DnsInv
  <2>3. QED BY ONLY <1>1, <1>5, <2>1, <2>2, TypesAre
<1>9. WaitersInv'
  BY <1>1 DEF DnsInv, WaitersInv, Waits
<1>10. JobsInv'
  BY <1>1 DEF DnsInv, JobsInv, Asked, Finished, Cached
<1>11. QueueInv'
  <2>1. \A m \in ToSet(waiting): Asked(m)
    BY <1>1 DEF DnsInv, QueueInv
  <2>2. \A m: Asked(m)' <=> Asked(m)
    BY <1>1 DEF Asked
  <2>3. \A m \in ToSet(waiting'): Asked(m)'
    BY <1>7, <2>1, <2>2
  <2>4. Injective(waiting)'
    BY <1>7
  <2>5. QED BY ONLY <1>7, <2>3, <2>4 DEF QueueInv
<1>12. CallsInv'
  BY <1>1, <1>3, CallsKept
<1>13. QED BY <1>8, <1>9, <1>10, <1>11, <1>12 DEF DnsInv

-----------------------------------------------------------------------------
(* The theorems. *)

LEMMA DnsInit ==
  ASSUME Init PROVE DnsInv
<1>1. 0 \in Servers /\ 0 \in 0..(Attempts - 1) /\ 0 \in 0..MaxCnames
  BY BoundsAssumption DEF Servers
<1>2. NoJob \in Jobs /\ NoJob.waiters = <<>>
  BY <1>1 DEF NoJob, Jobs
<1>3. [status |-> "new", try |-> 0, n_cnames |-> 0, name |-> NULL] \in Calls
  BY <1>1 DEF Calls
<1>4. Absent \in Entries /\ Absent.type = "absent"
  BY DEF Absent, Entries
<1>5. NotNotifying \in [name: Names \cup {NULL}, user: BOOLEAN]
  BY DEF NotNotifying
<1>6. TypeOK
  BY <1>1, <1>2, <1>3, <1>4, <1>5, TypesAre DEF Init
<1>7. ToSet(<<>>) = {} /\ Injective(<<>>)
  BY DEF ToSet, Injective
<1>8. WaitersInv
  BY <1>2, <1>7 DEF Init, WaitersInv, Waits
<1>9. JobsInv
  BY <1>4 DEF Init, JobsInv, Asked
<1>10. QueueInv
  BY <1>7 DEF Init, QueueInv
<1>11. CallsInv
  BY DEF Init, CallsInv, CallInv, Waits
<1>12. QED BY <1>6, <1>8, <1>9, <1>10, <1>11 DEF DnsInv

LEMMA DnsStep ==
  ASSUME DnsInv, [Next]_vars PROVE DnsInv'
<1>1. CASE UNCHANGED vars
  <2>1. /\ UNCHANGED <<cache, job, waiting, send_trap, next_nameserver_index, sent>>
        /\ UNCHANGED <<lookup, notifying, fault>>
    BY <1>1 DEF vars, jobVars
  <2>2. TypeOK'
    BY <2>1, TypesAre DEF DnsInv
  <2>3. WaitersInv' /\ JobsInv' /\ QueueInv'
    BY <2>1 DEF DnsInv, WaitersInv, JobsInv, QueueInv, Waits, Asked, Finished, Cached
  <2>4. CallsInv'
    BY <2>1, CallsKept, TypesAre DEF DnsInv
  <2>5. QED BY <2>2, <2>3, <2>4 DEF DnsInv
<1>2. ASSUME NEW c \in Callers, Lookup(c) PROVE DnsInv'
  BY <1>2, LookupKeeps
<1>3. ASSUME NEW question \in sent, NEW answer \in Answers, Receive(question, answer) PROVE DnsInv'
  BY <1>3, ReceiveKeeps
<1>4. ASSUME NEW n \in Names, TimerExpires(n) PROVE DnsInv'
  BY <1>4, RetryKeeps, TimeOutKeeps DEF TimerExpires
<1>5. QED
  BY <1>1, <1>2, <1>3, <1>4, NotifyWaiterKeeps, NotifyDoneKeeps, SocketWritableKeeps DEF Next

(* The invariant holds whatever the program looks up, whatever the *)
(* nameservers answer, however late and however often, and whatever the *)
(* network loses. *)
THEOREM DnsInvHolds == Spec => []DnsInv
<1>1. Init => DnsInv
  BY DnsInit
<1>2. DnsInv /\ [Next]_vars => DnsInv'
  BY DnsStep
<1>3. QED BY <1>1, <1>2, PTL DEF Spec

(* A list without repetitions holds a member at one place. *)
LEMMA PlacesOf ==
  ASSUME NEW S, NEW list \in Seq(S), Injective(list), NEW x
  PROVE  Cardinality({i \in DOMAIN list: list[i] = x}) = IF x \in ToSet(list) THEN 1 ELSE 0
<1>1. CASE x \in ToSet(list)
  <2>1. PICK i \in DOMAIN list: list[i] = x
    BY <1>1 DEF ToSet
  <2>2. {j \in DOMAIN list: list[j] = x} = {i}
    BY <2>1 DEF Injective
  <2>3. QED BY <1>1, <2>2, FS_Singleton
<1>2. CASE x \notin ToSet(list)
  <2>1. {i \in DOMAIN list: list[i] = x} = {}
    BY <1>2 DEF ToSet
  <2>2. QED BY <1>2, <2>1, FS_EmptySet
<1>3. QED BY <1>1, <1>2

(* Nobody is forgotten and nobody is called twice (job_notify_waiters_and_free, *)
(* lookup_without_searchpath_or_cnames, handle_timer_expired): a call *)
(* waits in one list, for as long as it has not been called back. *)
THEOREM EveryCallWaitsOnce == Spec => []EachWaitsOnce
<1>1. ASSUME DnsInv PROVE EachWaitsOnce
  <2>1. ASSUME NEW c \in Callers, NEW n \in Names
        PROVE  Cardinality({i \in DOMAIN job[n].waiters: job[n].waiters[i] = c})
                  = IF Waits(c) /\ lookup[c].name = n THEN 1 ELSE 0
    <3>1. job[n].waiters \in Seq(Callers) /\ Injective(job[n].waiters)
      BY <1>1, TypesAre DEF DnsInv, WaitersInv, Jobs
    <3>2. c \in ToSet(job[n].waiters) <=> Waits(c) /\ lookup[c].name = n
      BY <1>1 DEF DnsInv, WaitersInv
    <3>3. QED BY <3>1, <3>2, PlacesOf
  <2>2. /\ \A c \in Callers: lookup[c].status = "done" => lookup[c].answers = 1
        /\ \A n \in Names: Asked(n) => job[n].waiters # <<>>
        /\ \A n \in Names: (job[n] # NoJob) => Asked(n) \/ notifying.name = n
        /\ \A i, j \in DOMAIN waiting: waiting[i] = waiting[j] => i = j
        /\ fault = "none" => \A n \in ToSet(waiting): Asked(n)
        /\ (send_trap = "none") <=> (waiting = <<>>)
    BY <1>1 DEF DnsInv, CallsInv, CallInv, JobsInv, QueueInv, Injective
  <2>3. QED BY <1>1, <2>1, <2>2 DEF EachWaitsOnce, DnsInv
<1>2. QED BY <1>1, DnsInvHolds, PTL

(* Everyone is told the same (dsk_dns_lookup_cache_entry, *)
(* handle_searchpath_entry_lookup): what a call was answered is what it *)
(* would find in the cache now, following aliases and the search path in *)
(* one go; as long as the cache's trees are whole, and so in particular no *)
(* domain is in it for both families. *)
THEOREM CallersAreToldTheSame == Spec => []AnswersAgree
<1>1. ASSUME DnsInv PROVE AnswersAgree
  <2> SUFFICES ASSUME NEW c \in Callers, lookup[c].status = "done"
               PROVE  Follow[0][Tries[c][LastTry(c, 1, 0, Tries[c][1])]] = [result |-> lookup[c].result]
    BY DEF AnswersAgree
  <2>1. PICK u \in 1..Len(Tries[c]): StopsAt(c, u, lookup[c].result)
    BY <1>1 DEF DnsInv, CallsInv, CallInv
  <2> DEFINE l == LastTry(c, 1, 0, Tries[c][1])
  <2>2. Len(Tries[c]) \in Nat \ {0} /\ 1 \in 1..Len(Tries[c])
    BY TriesAre
  <2>3. /\ l \in 1..Len(Tries[c])
        /\ \A v \in 1..(l - 1): NotFound(Outcome(c, 1, 0, Tries[c][1], v))
        /\ ~NotFound(Outcome(c, 1, 0, Tries[c][1], l)) \/ l = Len(Tries[c])
    BY <2>2, LastTryIs
  <2>4. \A v: Outcome(c, 1, 0, Tries[c][1], v) = Follow[0][Tries[c][v]]
    BY DEF Outcome
  <2> HIDE DEF l
  <2>5. ~(u < l)
    <3> SUFFICES ASSUME u < l PROVE FALSE
      OBVIOUS
    <3>1. u \in 1..(l - 1) /\ u # Len(Tries[c])
      BY <2>2, <2>3
    <3>2. NotFound(Follow[0][Tries[c][u]])
      BY <2>3, <2>4, <3>1
    <3>3. lookup[c].result # "negative"
      BY <2>1, <3>1 DEF StopsAt
    <3>4. QED BY <2>1, <3>2, <3>3 DEF StopsAt, NotFound
  <2>6. ~(l < u)
    <3> SUFFICES ASSUME l < u PROVE FALSE
      OBVIOUS
    <3>1. l \in 1..(u - 1) /\ l # Len(Tries[c])
      BY <2>2, <2>3
    <3>2. QED BY <2>1, <2>3, <2>4, <3>1 DEF StopsAt
  <2>7. l = u
    BY <2>2, <2>3, <2>5, <2>6
  <2>8. QED BY <2>1, <2>7 DEF StopsAt, l
<1>2. QED BY <1>1, DnsInvHolds, PTL

=============================================================================
