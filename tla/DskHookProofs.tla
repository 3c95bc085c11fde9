---------------------------- MODULE DskHookProofs ----------------------------
(***************************************************************************)
(* What dsk-hook.c keeps, for every set of hooks and traps.  The counts,   *)
(* the idle list and the traps under a callback are properties DskHook     *)
(* states of the program's view; none is inductive.  HookInv adds where    *)
(* traps are, what each frame of a (nested) dsk_hook_notify relies on, and *)
(* that no hook is notified twice at a time; EndedInv adds that a list is  *)
(* walked away from its ended traps, so that the sweep at the end leaves   *)
(* none.  All of it is said of Careful programs: with Careful = FALSE the  *)
(* known faults of destroying a blocked trap and of a second set of data   *)
(* are in, and the counts are wrong.                                       *)
(***************************************************************************)
EXTENDS DskHook, FiniteSetTheorems, SequenceTheorems, TLAPS

(* No member of a sequence comes twice. *)
Injective(list) == \A i, j \in DOMAIN list: list[i] = list[j] => i = j

(* What Append, Without, Tail, Behind and Pruned (the sequence operations of
   DskHook) return, for every sequence. *)
LEMMA AppendIs ==
  ASSUME NEW S, NEW list \in Seq(S), NEW x \in S
  PROVE  /\ Append(list, x) \in Seq(S)
         /\ Len(Append(list, x)) = Len(list) + 1
         /\ \A i \in 1..Len(list): Append(list, x)[i] = list[i]
         /\ Append(list, x)[Len(list) + 1] = x
         /\ ToSet(Append(list, x)) = ToSet(list) \cup {x}
         /\ Injective(list) /\ x \notin ToSet(list) => Injective(Append(list, x))
<1> DEFINE longer == Append(list, x)
<1>1. /\ longer \in Seq(S) /\ Len(longer) = Len(list) + 1
      /\ \A i \in 1..Len(list): longer[i] = list[i]
      /\ longer[Len(list) + 1] = x
  OBVIOUS
<1>2. DOMAIN longer = 1..(Len(list) + 1) /\ DOMAIN list = 1..Len(list) /\ Len(list) \in Nat
  OBVIOUS
<1> HIDE DEF longer
<1>3. ToSet(longer) = ToSet(list) \cup {x}
  BY <1>1, <1>2 DEF ToSet
<1>4. ASSUME Injective(list), x \notin ToSet(list) PROVE Injective(longer)
  BY <1>1, <1>2, <1>4 DEF ToSet, Injective
<1>5. QED BY <1>1, <1>3, <1>4 DEF longer

(* Taking a trap out of a list leaves the others. *)
LEMMA WithoutIs ==
  ASSUME NEW S, NEW list \in Seq(S), Injective(list), NEW x
  PROVE  /\ Without(list, x) \in Seq(S)
         /\ ToSet(Without(list, x)) = ToSet(list) \ {x}
         /\ Injective(Without(list, x))
<1>1. CASE x \notin ToSet(list)
  BY <1>1 DEF Without
<1>2. CASE x \in ToSet(list)
  <2> DEFINE k == Index(list, x)
             shorter == Without(list, x)
  <2>1. k \in 1..Len(list) /\ list[k] = x
    BY <1>2 DEF ToSet, Index
  <2>2. \A i \in 1..Len(list): i # k => list[i] # x
    BY <2>1 DEF Injective
  <2> HIDE DEF k
  <2>3. shorter = SubSeq(list, 1, k - 1) \o SubSeq(list, k + 1, Len(list))
    BY <1>2 DEF Without, RemoveAt, k
  <2>4. /\ shorter \in Seq(S) /\ Len(shorter) = Len(list) - 1
        /\ \A i \in 1..(Len(list) - 1): shorter[i] = IF i < k THEN list[i] ELSE list[i + 1]
    <3> DEFINE a == SubSeq(list, 1, k - 1)
               b == SubSeq(list, k + 1, Len(list))
               n == Len(list)
    <3>1. a \in Seq(S) /\ Len(a) = k - 1 /\ \A i \in 1..(k - 1): a[i] = list[i]
      BY <2>1
    <3>2. b \in Seq(S) /\ Len(b) = n - k /\ \A i \in 1..(n - k): b[i] = list[i + k]
      BY <2>1
    <3>3. shorter = a \o b /\ n \in Nat /\ k \in 1..n
      BY <2>1, <2>3
    <3> HIDE DEF shorter, a, b, n
    <3>4. /\ shorter \in Seq(S) /\ Len(shorter) = n - 1
          /\ \A i \in 1..(n - 1): shorter[i] = IF i <= k - 1 THEN a[i] ELSE b[i - (k - 1)]
      BY <3>1, <3>2, <3>3
    <3>5. ASSUME NEW i \in 1..(n - 1) PROVE shorter[i] = IF i < k THEN list[i] ELSE list[i + 1]
      <4>1. CASE i < k
        BY <3>1, <3>3, <3>4, <4>1
      <4>2. CASE ~(i < k)
        <5>1. i - (k - 1) \in 1..(n - k) /\ (i - (k - 1)) + k = i + 1 /\ ~(i <= k - 1)
          BY <3>3, <4>2
        <5>2. shorter[i] = b[i - (k - 1)] /\ b[i - (k - 1)] = list[(i - (k - 1)) + k]
          BY <3>2, <3>4, <5>1
        <5>3. QED BY <4>2, <5>1, <5>2
      <4>3. QED BY <4>1, <4>2
    <3>6. QED BY <3>4, <3>5 DEF n
  <2> HIDE DEF shorter
  <2>5. DOMAIN shorter = 1..(Len(list) - 1) /\ DOMAIN list = 1..Len(list) /\ Len(list) \in Nat
    BY <2>4, <2>1
  <2>6. Injective(shorter)
    <3>1. \A i, j \in 1..Len(list): list[i] = list[j] => i = j
      BY <2>5 DEF Injective
    <3> SUFFICES ASSUME NEW i \in 1..(Len(list) - 1), NEW j \in 1..(Len(list) - 1),
                        shorter[i] = shorter[j]
                 PROVE  i = j
      BY <2>5 DEF Injective
    <3> DEFINE At_(l) == IF l < k THEN l ELSE l + 1
    <3>2. At_(i) \in 1..Len(list) /\ At_(j) \in 1..Len(list) /\ (At_(i) = At_(j) => i = j)
      BY <2>1, <2>5
    <3>3. shorter[i] = list[At_(i)] /\ shorter[j] = list[At_(j)]
      BY <2>4
    <3> HIDE DEF At_
    <3>4. QED BY <3>1, <3>2, <3>3
  <2>7. ASSUME NEW y \in ToSet(shorter) PROVE y \in ToSet(list) \ {x}
    <3>1. PICK i \in 1..(Len(list) - 1): shorter[i] = y
      BY <2>5 DEF ToSet
    <3>2. PICK l \in 1..Len(list): l # k /\ list[l] = y
      <4>1. CASE i < k
        BY <2>1, <2>4, <2>5, <3>1, <4>1
      <4>2. CASE ~(i < k)
        BY <2>1, <2>4, <2>5, <3>1, <4>2
      <4>3. QED BY <4>1, <4>2
    <3>3. QED BY <2>2, <2>5, <3>2 DEF ToSet
  <2>8. ASSUME NEW y \in ToSet(list), y # x PROVE y \in ToSet(shorter)
    <3>1. PICK i \in 1..Len(list): list[i] = y
      BY <2>5 DEF ToSet
    <3>2. CASE i < k
      <4>1. i \in 1..(Len(list) - 1)
        BY ONLY <2>1, <2>5, <3>2
      <4>2. shorter[i] = y
        BY <2>4, <3>1, <3>2, <4>1
      <4>3. QED BY <4>1, <4>2, <2>5 DEF ToSet
    <3>3. CASE i > k
      <4>1. i - 1 \in 1..(Len(list) - 1) /\ shorter[i - 1] = y
        BY <2>1, <2>4, <3>1, <3>3
      <4>2. QED BY <4>1, <2>5 DEF ToSet
    <3>4. QED BY <2>1, <2>8, <3>1, <3>2, <3>3
  <2>9. QED BY <2>4, <2>6, <2>7, <2>8 DEF shorter
<1>3. QED BY <1>1, <1>2

(* Taking the first hook of the idle list leaves the others. *)
LEMMA TailIs ==
  ASSUME NEW S, NEW list \in Seq(S), Injective(list), list # <<>>
  PROVE  /\ Head(list) \in ToSet(list) /\ Head(list) \in S
         /\ Tail(list) \in Seq(S)
         /\ ToSet(Tail(list)) = ToSet(list) \ {Head(list)}
         /\ Injective(Tail(list))
<1> DEFINE rest == Tail(list)
           n == Len(list)
<1>1. /\ Head(list) = list[1] /\ n \in Nat /\ n >= 1 /\ DOMAIN list = 1..n
      /\ rest \in Seq(S) /\ Len(rest) = n - 1 /\ DOMAIN rest = 1..(n - 1)
      /\ \A i \in 1..(n - 1): rest[i] = list[i + 1]
  OBVIOUS
<1> HIDE DEF rest, n
<1>2. Head(list) \in ToSet(list) /\ Head(list) \in S
  BY <1>1 DEF ToSet, n
<1>3. \A i, j \in 1..n: list[i] = list[j] => i = j
  BY <1>1 DEF Injective
<1>4. Injective(rest)
  <2> SUFFICES ASSUME NEW i \in 1..(n - 1), NEW j \in 1..(n - 1), rest[i] = rest[j]
               PROVE  i = j
    BY <1>1 DEF Injective
  <2>1. rest[i] = list[i + 1] /\ rest[j] = list[j + 1] /\ i + 1 \in 1..n /\ j + 1 \in 1..n
    BY <1>1
  <2>2. i + 1 = j + 1
    BY <1>3, <2>1
  <2>3. QED BY <1>1, <2>2
<1>5. ASSUME NEW y \in ToSet(rest) PROVE y \in ToSet(list) \ {Head(list)}
  <2>1. PICK i \in 1..(n - 1): rest[i] = y
    BY <1>1 DEF ToSet
  <2>2. i + 1 \in 1..n /\ i + 1 # 1 /\ 1 \in 1..n /\ y = list[i + 1]
    BY <1>1, <2>1
  <2>3. y # list[1]
    BY <1>3, <2>2
  <2>4. QED BY <1>1, <2>2, <2>3 DEF ToSet
<1>6. ASSUME NEW y \in ToSet(list), y # Head(list) PROVE y \in ToSet(rest)
  <2>1. PICK i \in 1..n: list[i] = y
    BY <1>1 DEF ToSet
  <2>2. i - 1 \in 1..(n - 1) /\ rest[i - 1] = y
    BY <1>1, <1>6, <2>1
  <2>3. QED BY <1>1, <2>2 DEF ToSet
<1>7. QED BY <1>1, <1>2, <1>4, <1>5, <1>6 DEF rest

(* A finite set of numbers can be counted through in order. *)
LEMMA RanksAreAll ==
  ASSUME NEW n \in Nat, NEW K \in SUBSET (1..n)
  PROVE  /\ Cardinality(K) \in Nat
         /\ \A i \in K: Cardinality({j \in K: j <= i}) \in 1..Cardinality(K)
         /\ \A k \in 1..Cardinality(K): \E i \in K: Cardinality({j \in K: j <= i}) = k
         /\ \A i, l \in K: Cardinality({j \in K: j <= i}) = Cardinality({j \in K: j <= l}) => i = l
<1> DEFINE UpTo(i) == {j \in K: j <= i}
           rank == [i \in K |-> Cardinality(UpTo(i))]
           ranks == 1..Cardinality(K)
<1>1. IsFiniteSet(K) /\ Cardinality(K) \in Nat
  <2>1. IsFiniteSet(1..n)
    BY FS_Interval
  <2>2. QED BY <2>1, FS_Subset, FS_CardinalityType
<1>2. \A i \in K: /\ IsFiniteSet(UpTo(i)) /\ Cardinality(UpTo(i)) \in Nat
                  /\ Cardinality(UpTo(i)) <= Cardinality(K) /\ Cardinality(UpTo(i)) # 0
  <2> SUFFICES ASSUME NEW i \in K
               PROVE  /\ IsFiniteSet(UpTo(i)) /\ Cardinality(UpTo(i)) \in Nat
                      /\ Cardinality(UpTo(i)) <= Cardinality(K) /\ Cardinality(UpTo(i)) # 0
    OBVIOUS
  <2>1. UpTo(i) \in SUBSET K /\ i \in UpTo(i)
    OBVIOUS
  <2> HIDE DEF UpTo
  <2>2. QED BY <1>1, <2>1, FS_Subset, FS_CardinalityType, FS_EmptySet
<1>3. \A i, l \in K: i < l => Cardinality(UpTo(i)) # Cardinality(UpTo(l))
  <2> SUFFICES ASSUME NEW i \in K, NEW l \in K, i < l
               PROVE  Cardinality(UpTo(i)) # Cardinality(UpTo(l))
    OBVIOUS
  <2>1. i \in Nat /\ l \in Nat /\ \A j \in K: j \in Nat
    OBVIOUS
  <2>2. \A j \in K: j <= i => j <= l
    BY <2>1
  <2>3. l \in UpTo(l) /\ l \notin UpTo(i)
    BY <2>1
  <2>4. UpTo(i) \in SUBSET UpTo(l) /\ UpTo(i) # UpTo(l)
    BY <2>2, <2>3
  <2> HIDE DEF UpTo
  <2>5. QED BY <1>2, <2>4, FS_Subset
<1>4. \A i, l \in K: Cardinality(UpTo(i)) = Cardinality(UpTo(l)) => i = l
  <2> SUFFICES ASSUME NEW i \in K, NEW l \in K, Cardinality(UpTo(i)) = Cardinality(UpTo(l)), i # l
               PROVE  FALSE
    OBVIOUS
  <2>1. i < l \/ l < i
    OBVIOUS
  <2> HIDE DEF UpTo
  <2>2. QED BY <1>3, <2>1
<1> HIDE DEF UpTo
<1>5. \A i \in K: rank[i] \in ranks
  BY <1>1, <1>2
<1>6. rank \in Injection(K, ranks)
  BY <1>4, <1>5 DEF Injection, IsInjective
<1>7. IsFiniteSet(ranks) /\ Cardinality(ranks) = Cardinality(K)
  BY <1>1, FS_Interval
<1>8. rank \in Surjection(K, ranks)
  BY <1>6, <1>7, FS_Injection
<1>9. \A k \in ranks: \E i \in K: Cardinality(UpTo(i)) = k
  BY <1>8 DEF Surjection
<1>10. QED BY <1>1, <1>4, <1>5, <1>9 DEF ranks, rank, UpTo

(* The sweep at the end of a notification takes the ended traps, no other one. *)
LEMMA PrunedIs ==
  ASSUME NEW list \in Seq(Traps), Injective(list)
  PROVE  /\ Pruned(list) \in Seq(Traps)
         /\ ToSet(Pruned(list)) = {r \in ToSet(list): Live(r)}
         /\ Injective(Pruned(list))
<1> DEFINE kept == {i \in DOMAIN list: Live(list[i])}
           Rank(i) == Cardinality({j \in kept: j <= i})
           At_(k) == CHOOSE i \in kept: Rank(i) = k
           n == Cardinality(kept)
<1>1. DOMAIN list = 1..Len(list) /\ Len(list) \in Nat /\ kept \in SUBSET (1..Len(list))
  OBVIOUS
<1>2. Pruned(list) = [k \in 1..n |-> list[At_(k)]]
  BY DEF Pruned
<1>3. \A i \in kept: i \in DOMAIN list /\ Live(list[i]) /\ list[i] \in Traps
  OBVIOUS
<1>4. \A i \in DOMAIN list: Live(list[i]) => i \in kept
  OBVIOUS
<1> HIDE DEF kept
<1>5. /\ n \in Nat
      /\ \A i \in kept: Rank(i) \in 1..n
      /\ \A k \in 1..n: \E i \in kept: Rank(i) = k
      /\ \A i, l \in kept: Rank(i) = Rank(l) => i = l
  BY <1>1, RanksAreAll
<1> HIDE DEF Rank, n
<1>6. \A k \in 1..n: At_(k) \in kept /\ Rank(At_(k)) = k
  BY <1>5
<1>7. \A i \in kept: At_(Rank(i)) = i
  BY <1>5, <1>6
<1> HIDE DEF At_
<1>8. Pruned(list) \in Seq(Traps) /\ DOMAIN Pruned(list) = 1..n
      /\ \A k \in 1..n: Pruned(list)[k] = list[At_(k)]
  BY <1>2, <1>3, <1>5, <1>6
<1>9. Injective(Pruned(list))
  <2> SUFFICES ASSUME NEW k \in 1..n, NEW l \in 1..n, list[At_(k)] = list[At_(l)]
               PROVE  k = l
    BY <1>8 DEF Injective
  <2>1. At_(k) = At_(l)
    BY <1>3, <1>6 DEF Injective
  <2>2. QED BY <1>6, <2>1
<1>10. ToSet(Pruned(list)) \subseteq {r \in ToSet(list): Live(r)}
  BY <1>3, <1>6, <1>8 DEF ToSet
<1>11. ASSUME NEW r \in ToSet(list), Live(r) PROVE r \in ToSet(Pruned(list))
  <2>1. PICK i \in DOMAIN list: list[i] = r
    BY DEF ToSet
  <2>2. i \in kept /\ Rank(i) \in 1..n /\ At_(Rank(i)) = i
    BY <1>4, <1>5, <1>7, <1>11, <2>1
  <2>3. QED BY <1>8, <2>1, <2>2 DEF ToSet
<1>12. QED BY <1>8, <1>9, <1>10, <1>11

(* Popping the stack leaves the frames below. *)
LEMMA FrontIs ==
  ASSUME NEW S, NEW list \in Seq(S), list # <<>>
  PROVE  /\ Len(list) \in Nat /\ Len(list) >= 1 /\ Last(list) = list[Len(list)]
         /\ Last(list) \in S
         /\ Front(list) \in Seq(S) /\ Len(Front(list)) = Len(list) - 1
         /\ \A i \in 1..(Len(list) - 1): Front(list)[i] = list[i]
BY DEF Front, Last

-----------------------------------------------------------------------------

(* The frames that wait for a callback of the program, or for the DestroyNotify
   of its data, to return. *)
Calling == {"in_main", "drop_main", "in_list", "drop_list"}

(* A trap is on one hook only, in one place of it; the main trap is live; a trap
   never handed out is on no hook. *)
PlacesInv ==
  /\ \A h \in Hooks:
       /\ Injective(hook[h].list)
       /\ hook[h].main # NULL => Live(hook[h].main) /\ hook[h].main \notin ToSet(hook[h].list)
  /\ \A r \in Traps, h1, h2 \in Hooks: OnHook(r, h1) /\ OnHook(r, h2) => h1 = h2
  /\ \A r \in Traps: trap[r].status = "new" => trap[r].block_count = 0 /\ \A h \in Hooks: ~OnHook(r, h)

(* What a frame of dsk_hook_notify relies on: the trap whose callback runs is
   live and says so, still on its hook; a trap put off to be dropped is ended. *)
FrameKept(f) ==
  /\ f.stage = "main" => f.at = NULL
  /\ f.stage \in Calling => f.at # NULL
  /\ f.stage = "in_main" =>
       f.at = hook[f.hook].main /\ Live(f.at) /\ trap[f.at].is_notifying
  /\ f.stage = "drop_main" => /\ trap[f.at].status = "ended" /\ trap[f.at].block_count = 0
                              /\ \A h \in Hooks: ~OnHook(f.at, h)
  /\ f.stage \in {"list", "in_list", "drop_list"} /\ f.at # NULL => f.at \in ToSet(hook[f.hook].list)
  /\ f.stage = "in_list" => Live(f.at) /\ trap[f.at].is_notifying
  /\ f.stage = "drop_list" => trap[f.at].status = "ended"
(* The frames of the stack that are not the one of run_idle_notifications. *)
Calls == {i \in DOMAIN stack: stack[i].stage # "idle"}

(* The stack of notifications: only the topmost frame moves, all others wait for
   a callback; no hook is notified twice at a time and no two frames hold one
   trap; is_notifying is exactly "there is a frame". *)
StackInv ==
  /\ \A i \in Calls: i < Len(stack) => stack[i].stage \in Calling
  /\ \A i \in DOMAIN stack: i \notin Calls => i = 1
  /\ \A i \in Calls: FrameKept(stack[i]) /\ hook[stack[i].hook].is_notifying
  /\ \A i, j \in Calls: i # j => /\ stack[i].hook # stack[j].hook
                                 /\ stack[i].at # NULL => stack[i].at # stack[j].at
  /\ \A h \in Hooks: hook[h].is_notifying => \E i \in Calls: stack[i].hook = h

(* The types of the variables of the counts and the idle list. *)
CountTypes ==
  /\ trap_count \in [Hooks -> 0..(CountMod - 1)] /\ polled \in [Hooks -> BOOLEAN]
  /\ idle_list \in Seq(Hooks \cup {Guard}) /\ idle_handler \in BOOLEAN

(* trap_count is the number of traps that count, without having wrapped round,
   and the hook is polled exactly while there is one. *)
CountInv ==
  \A h \in Hooks:
    /\ IsFiniteSet(Counted(h)) /\ trap_count[h] = Cardinality(Counted(h))
    /\ polled[h] <=> Counted(h) # {}

(* run_idle_notifications is at the bottom of the stack. *)
IdleRuns == stack # <<>> /\ stack[1].stage = "idle"

(* The idle list holds each hook once, exactly those that have traps and ask for
   idle notification, and the guard exactly while run_idle_notifications runs. *)
IdleInv ==
  /\ Injective(idle_list)
  /\ \A h \in Hooks: h \in ToSet(idle_list) <=> hook[h].is_idle_notify /\ Counted(h) # {}
  /\ Guard \in ToSet(idle_list) <=> IdleRuns
  /\ idle_list # <<>> => idle_handler \/ Guard \in ToSet(idle_list)

(* The part of the invariant about the counts. *)
CountsKept == CountTypes /\ CountInv /\ IdleInv

(* The inductive invariant: the types, where traps are, what the frames of the
   stack rely on, the counts, the idle list, and that nothing is destroyed twice. *)
HookInv == TypeOK /\ PlacesInv /\ StackInv /\ CountInv /\ IdleInv /\ DestroyedOnce

(* A step that leaves the counted traps alone keeps the counts. *)
LEMMA CountsSame ==
  ASSUME CountsKept, UNCHANGED countVars, \A h \in Hooks: Counted(h)' = Counted(h),
         \A h \in Hooks: hook'[h].is_idle_notify = hook[h].is_idle_notify,
         IdleRuns' = IdleRuns
  PROVE  CountsKept'
<1>1. CountTypes'
  BY DEF CountsKept, CountTypes, countVars
<1>2. CountInv'
  BY DEF CountsKept, CountInv, countVars
<1>3. IdleInv'
  BY DEF CountsKept, IdleInv, countVars, Injective, ToSet
<1>4. QED BY <1>1, <1>2, <1>3 DEF CountsKept

(* A hook joins the list of the idle ones when it is not on it. *)
LEMMA Joins ==
  ASSUME CountsKept, NEW h \in Hooks, h \notin ToSet(idle_list), JoinIdleList(h)
  PROVE  /\ idle_list' \in Seq(Hooks \cup {Guard}) /\ idle_handler' = TRUE
         /\ Injective(idle_list)' /\ ToSet(idle_list)' = ToSet(idle_list) \cup {h}
<1>1. idle_list \in Seq(Hooks \cup {Guard}) /\ Injective(idle_list) /\ h \in Hooks \cup {Guard}
  BY DEF CountsKept, CountTypes, IdleInv
<1>2. idle_list' = Append(idle_list, h) /\ idle_handler' = TRUE
  BY DEF JoinIdleList
<1>3. QED BY <1>1, <1>2, AppendIs

(* A hook leaves the list of the idle ones. *)
LEMMA Leaves ==
  ASSUME CountsKept, NEW h \in Hooks, LeaveIdleList(h)
  PROVE  /\ idle_list' \in Seq(Hooks \cup {Guard}) /\ idle_handler' = idle_handler
         /\ Injective(idle_list)' /\ ToSet(idle_list)' = ToSet(idle_list) \ {h}
         /\ idle_list' # <<>> => idle_list # <<>>
<1>1. idle_list \in Seq(Hooks \cup {Guard}) /\ Injective(idle_list)
  BY DEF CountsKept, CountTypes, IdleInv
<1>2. idle_list' = Without(idle_list, h) /\ idle_handler' = idle_handler
  BY DEF LeaveIdleList
<1>3. idle_list = <<>> => idle_list' = <<>>
  BY <1>2 DEF Without, ToSet
<1>4. QED BY <1>1, <1>2, <1>3, WithoutIs

(* The idle list after the counted traps of h came to be some, or none. *)
LEMMA IdleEdge ==
  ASSUME NULL \notin Traps /\ Guard \notin Hooks, CountsKept, NEW h \in Hooks,
         \A g \in Hooks \ {h}: Counted(g)' = Counted(g),
         \A g \in Hooks: hook'[g].is_idle_notify = hook[g].is_idle_notify,
         hook[h].is_idle_notify \in BOOLEAN,
         IdleRuns' = IdleRuns,
         \/ (Counted(h) = {}) = (Counted(h)' = {}) /\ UNCHANGED <<idle_list, idle_handler>>
         \/ /\ Counted(h) = {} /\ Counted(h)' # {}
            /\ IF hook[h].is_idle_notify THEN JoinIdleList(h) ELSE UNCHANGED <<idle_list, idle_handler>>
         \/ /\ Counted(h) # {} /\ Counted(h)' = {}
            /\ IF hook[h].is_idle_notify THEN LeaveIdleList(h) ELSE UNCHANGED <<idle_list, idle_handler>>
  PROVE  idle_list' \in Seq(Hooks \cup {Guard}) /\ idle_handler' \in BOOLEAN /\ IdleInv'
<1>1. CASE UNCHANGED <<idle_list, idle_handler>> /\ (Counted(h) # {} <=> Counted(h)' # {})
  BY <1>1 DEF CountsKept, CountTypes, IdleInv, Injective, ToSet
<1>2. CASE UNCHANGED <<idle_list, idle_handler>> /\ ~hook[h].is_idle_notify
  BY <1>2 DEF CountsKept, CountTypes, IdleInv, Injective, ToSet
<1>3. CASE Counted(h) = {} /\ Counted(h)' # {} /\ hook[h].is_idle_notify /\ JoinIdleList(h)
  <2>1. h \notin ToSet(idle_list)
    BY <1>3 DEF CountsKept, IdleInv
  <2>2. /\ idle_list' \in Seq(Hooks \cup {Guard}) /\ idle_handler' = TRUE
        /\ Injective(idle_list)' /\ ToSet(idle_list)' = ToSet(idle_list) \cup {h}
    BY <1>3, <2>1, Joins
  <2>3. QED BY <1>3, <2>2 DEF CountsKept, IdleInv
<1>4. CASE Counted(h) # {} /\ Counted(h)' = {} /\ hook[h].is_idle_notify /\ LeaveIdleList(h)
  <2>1. /\ idle_list' \in Seq(Hooks \cup {Guard}) /\ idle_handler' = idle_handler
        /\ Injective(idle_list)' /\ ToSet(idle_list)' = ToSet(idle_list) \ {h}
        /\ idle_list' # <<>> => idle_list # <<>>
    BY <1>4, Leaves
  <2>2. idle_handler' \in BOOLEAN
    BY <2>1 DEF CountsKept, CountTypes
  <2>3. QED BY <1>4, <2>1, <2>2 DEF CountsKept, IdleInv
<1>5. QED BY <1>1, <1>2, <1>3, <1>4

(* One more trap of h is counted. *)
LEMMA CountsUp ==
  ASSUME CountsKept, NEW h \in Hooks, NEW r, r \notin Counted(h), Counted(h)' = Counted(h) \cup {r},
         \A g \in Hooks \ {h}: Counted(g)' = Counted(g),
         \A g \in Hooks: hook'[g].is_idle_notify = hook[g].is_idle_notify,
         hook[h].is_idle_notify \in BOOLEAN,
         IdleRuns' = IdleRuns, IncrTrapCount(h)
  PROVE  CountsKept'
<1> DEFINE n == trap_count[h]
<1>1. /\ IsFiniteSet(Counted(h)) /\ n = Cardinality(Counted(h)) /\ n \in Nat
      /\ trap_count \in [Hooks -> 0..(CountMod - 1)] /\ polled \in [Hooks -> BOOLEAN]
  BY DEF CountsKept, CountInv, CountTypes
<1>2. n < CountMod - 1 /\ trap_count' = [trap_count EXCEPT ![h] = n + 1]
  BY DEF IncrTrapCount
<1>3. IsFiniteSet(Counted(h)') /\ Cardinality(Counted(h)') = n + 1
  BY <1>1, FS_AddElement
<1>4. n = 0 <=> Counted(h) = {}
  BY <1>1, FS_EmptySet
<1>5. polled' = [polled EXCEPT ![h] = TRUE]
  <2>1. CASE n = 0
    BY <2>1 DEF IncrTrapCount, TrapCountNonzero
  <2>2. CASE n # 0
    <3>1. polled' = polled /\ polled[h] = TRUE
      BY <1>4, <2>2, <1>1 DEF IncrTrapCount, CountsKept, CountInv
    <3>2. QED BY <1>1, <3>1
  <2>3. QED BY <2>1, <2>2
<1>6. CountInv'
  BY <1>1, <1>2, <1>3, <1>5 DEF CountsKept, CountInv
<1>7. \/ (Counted(h) = {}) = (Counted(h)' = {}) /\ UNCHANGED <<idle_list, idle_handler>>
      \/ /\ Counted(h) = {} /\ Counted(h)' # {}
         /\ IF hook[h].is_idle_notify THEN JoinIdleList(h) ELSE UNCHANGED <<idle_list, idle_handler>>
  BY <1>4 DEF IncrTrapCount, TrapCountNonzero
<1>8. idle_list' \in Seq(Hooks \cup {Guard}) /\ idle_handler' \in BOOLEAN /\ IdleInv'
  BY <1>7, IdleEdge, NullAssumption
<1>9. CountTypes'
  BY <1>1, <1>2, <1>5, <1>8, BoundsAssumption DEF CountTypes
<1>10. QED BY <1>6, <1>8, <1>9 DEF CountsKept

(* One trap of h is counted no more. *)
LEMMA CountsDown ==
  ASSUME CountsKept, NEW h \in Hooks, NEW r \in Counted(h), Counted(h)' = Counted(h) \ {r},
         \A g \in Hooks \ {h}: Counted(g)' = Counted(g),
         \A g \in Hooks: hook'[g].is_idle_notify = hook[g].is_idle_notify,
         hook[h].is_idle_notify \in BOOLEAN,
         IdleRuns' = IdleRuns, DecrTrapCount(h)
  PROVE  CountsKept'
<1> DEFINE n == trap_count[h]
<1>1. /\ IsFiniteSet(Counted(h)) /\ n = Cardinality(Counted(h)) /\ n \in 0..(CountMod - 1)
      /\ trap_count \in [Hooks -> 0..(CountMod - 1)] /\ polled \in [Hooks -> BOOLEAN]
  BY DEF CountsKept, CountInv, CountTypes
<1>2. IsFiniteSet(Counted(h)') /\ Cardinality(Counted(h)') = n - 1
  BY <1>1, FS_RemoveElement
<1>3. n >= 1
  BY <1>1, FS_EmptySet
<1>4. trap_count' = [trap_count EXCEPT ![h] = n - 1]
  <2>1. trap_count' = [trap_count EXCEPT ![h] = (n + CountMod - 1) % CountMod]
    BY DEF DecrTrapCount
  <2> DEFINE w == CountMod
  <2>2. w \in Nat /\ w > 1 /\ n - 1 \in 0..(w - 1) /\ n + w - 1 = (n - 1) + w
    BY <1>1, <1>3, BoundsAssumption
  <2>3. (n + w - 1) % w = n - 1
    <3> HIDE DEF n, w
    <3> QED BY <2>2
  <2>4. QED BY <2>1, <2>3
<1>5. n = 1 <=> Counted(h)' = {}
  BY <1>1, <1>2, <1>3, FS_EmptySet
<1>6. polled' = [polled EXCEPT ![h] = n # 1]
  <2>1. CASE n = 1
    BY <2>1 DEF DecrTrapCount, TrapCountZero
  <2>2. CASE n # 1
    <3>1. polled' = polled /\ polled[h] = TRUE
      BY <2>2, <1>1 DEF DecrTrapCount, CountsKept, CountInv
    <3>2. QED BY <1>1, <2>2, <3>1
  <2>3. QED BY <2>1, <2>2
<1>7. CountInv'
  BY <1>1, <1>2, <1>4, <1>5, <1>6 DEF CountsKept, CountInv
<1>8. \/ (Counted(h) = {}) = (Counted(h)' = {}) /\ UNCHANGED <<idle_list, idle_handler>>
      \/ /\ Counted(h) # {} /\ Counted(h)' = {}
         /\ IF hook[h].is_idle_notify THEN LeaveIdleList(h) ELSE UNCHANGED <<idle_list, idle_handler>>
  BY <1>5 DEF DecrTrapCount, TrapCountZero
<1>9. idle_list' \in Seq(Hooks \cup {Guard}) /\ idle_handler' \in BOOLEAN /\ IdleInv'
  BY <1>8, IdleEdge, NullAssumption
<1>10. CountTypes'
  BY <1>1, <1>3, <1>4, <1>6, <1>9, BoundsAssumption DEF CountTypes
<1>11. QED BY <1>7, <1>9, <1>10 DEF CountsKept

(* No trap of h is counted any more. *)
LEMMA CountsNone ==
  ASSUME CountsKept, NEW h \in Hooks, Counted(h)' = {},
         \A g \in Hooks \ {h}: Counted(g)' = Counted(g),
         \A g \in Hooks: hook'[g].is_idle_notify = hook[g].is_idle_notify,
         hook[h].is_idle_notify \in BOOLEAN, IdleRuns' = IdleRuns,
         trap_count' = [trap_count EXCEPT ![h] = 0],
         IF trap_count[h] > 0 THEN TrapCountZero(h)
         ELSE UNCHANGED <<polled, idle_list, idle_handler>>
  PROVE  CountsKept'
<1> DEFINE n == trap_count[h]
<1>1. /\ IsFiniteSet(Counted(h)) /\ n = Cardinality(Counted(h)) /\ n \in 0..(CountMod - 1)
      /\ trap_count \in [Hooks -> 0..(CountMod - 1)] /\ polled \in [Hooks -> BOOLEAN]
  BY DEF CountsKept, CountInv, CountTypes
<1>2. n > 0 <=> Counted(h) # {}
  BY <1>1, FS_EmptySet
<1>3. IsFiniteSet(Counted(h)') /\ Cardinality(Counted(h)') = 0
  BY FS_EmptySet
<1>4. polled' = [polled EXCEPT ![h] = FALSE]
  <2>1. CASE n > 0
    BY <2>1 DEF TrapCountZero
  <2>2. CASE ~(n > 0)
    <3>1. polled' = polled /\ polled[h] = FALSE
      BY <1>1, <1>2, <2>2 DEF CountsKept, CountInv
    <3>2. QED BY <1>1, <3>1
  <2>3. QED BY <2>1, <2>2
<1>5. CountInv'
  BY <1>1, <1>3, <1>4 DEF CountsKept, CountInv
<1>6. \/ (Counted(h) = {}) = (Counted(h)' = {}) /\ UNCHANGED <<idle_list, idle_handler>>
      \/ /\ Counted(h) # {} /\ Counted(h)' = {}
         /\ IF hook[h].is_idle_notify THEN LeaveIdleList(h) ELSE UNCHANGED <<idle_list, idle_handler>>
  BY <1>2 DEF TrapCountZero
<1>7. idle_list' \in Seq(Hooks \cup {Guard}) /\ idle_handler' \in BOOLEAN /\ IdleInv'
  BY <1>6, IdleEdge, NullAssumption
<1>8. CountTypes'
  BY <1>1, <1>4, <1>7, BoundsAssumption DEF CountTypes
<1>9. QED BY <1>5, <1>7, <1>8 DEF CountsKept

-----------------------------------------------------------------------------

(* The records of hooks and of traps. *)
HookRecords == [is_idle_notify: BOOLEAN, is_cleared: BOOLEAN, is_notifying: BOOLEAN,
                clear_in_notify: BOOLEAN, main: Traps \cup {NULL}, list: Seq(Traps)]
TrapRecords == [status: {"new", "live", "ended"}, block_count: 0..MaxBlocks,
                is_notifying: BOOLEAN, destroy_in_notify: BOOLEAN]

(* The types of the variables that are not about the counts. *)
OtherTypes ==
  /\ hook \in [Hooks -> HookRecords] /\ trap \in [Traps -> TrapRecords]
  /\ stack \in Seq(Frames)
  /\ destroyed \in [Traps -> Nat] /\ calls \in 0..MaxCalls

(* The invariant is its five parts. *)
LEMMA InvParts == HookInv <=> OtherTypes /\ PlacesInv /\ StackInv /\ CountsKept /\ DestroyedOnce
BY DEF HookInv, TypeOK, OtherTypes, HookRecords, TrapRecords, CountsKept, CountTypes

(* The same after a step. *)
LEMMA InvPartsNext ==
  ASSUME OtherTypes', PlacesInv', StackInv', CountsKept', DestroyedOnce' PROVE HookInv'
BY DEF HookInv, TypeOK, OtherTypes, HookRecords, TrapRecords, CountsKept, CountTypes

(* The frames of dsk_hook_notify of a stack, as a function of the stack. *)
CallsOf(s) == {i \in DOMAIN s: s[i].stage # "idle"}

(* The positions of the frames depend on the stack alone. *)
LEMMA FramesAre ==
  ASSUME NEW s \in Seq(Frames)
  PROVE  /\ Len(s) \in Nat /\ DOMAIN s = 1..Len(s)
         /\ \A i \in DOMAIN s: s[i] \in Frames
         /\ \A i \in CallsOf(s): /\ i \in DOMAIN s /\ s[i].stage \in Stages
                                 /\ s[i].hook \in Hooks /\ s[i].at \in Traps \cup {NULL}
                                 /\ s[i] = [stage |-> s[i].stage, hook |-> s[i].hook, at |-> s[i].at]
<1>1. /\ Len(s) \in Nat /\ DOMAIN s = 1..Len(s)
      /\ \A i \in DOMAIN s: s[i] \in Frames
  OBVIOUS
<1>2. ASSUME NEW i \in CallsOf(s)
      PROVE  /\ i \in DOMAIN s /\ s[i].stage \in Stages
             /\ s[i].hook \in Hooks /\ s[i].at \in Traps \cup {NULL}
             /\ s[i] = [stage |-> s[i].stage, hook |-> s[i].hook, at |-> s[i].at]
  <2> DEFINE f == s[i]
  <2>1. i \in DOMAIN s /\ f \in Frames /\ f.stage # "idle"
    BY <1>1 DEF CallsOf
  <2> HIDE DEF f
  <2>2. f \in [stage: Stages, hook: Hooks, at: Traps \cup {NULL}]
    BY <2>1 DEF Frames
  <2>3. QED BY <2>1, <2>2 DEF f
<1>3. QED BY <1>1, <1>2

(* A position of Calls holds a frame, its stage and its hook. *)
LEMMA FrameIs ==
  ASSUME OtherTypes
  PROVE  /\ Len(stack) \in Nat /\ DOMAIN stack = 1..Len(stack)
         /\ \A i \in DOMAIN stack: stack[i] \in Frames
         /\ \A i \in Calls: /\ i \in DOMAIN stack /\ stack[i].stage \in Stages
                            /\ stack[i].hook \in Hooks /\ stack[i].at \in Traps \cup {NULL}
                            /\ stack[i] = [stage |-> stack[i].stage, hook |-> stack[i].hook,
                                          at |-> stack[i].at]
BY FramesAre DEF OtherTypes, Calls, CallsOf

(* The same after a step. *)
LEMMA FrameIsNext ==
  ASSUME OtherTypes'
  PROVE  /\ Len(stack') \in Nat /\ DOMAIN stack' = 1..Len(stack')
         /\ \A i \in DOMAIN stack': stack'[i] \in Frames
         /\ \A i \in Calls': /\ i \in DOMAIN stack' /\ stack'[i].stage \in Stages
                             /\ stack'[i].hook \in Hooks /\ stack'[i].at \in Traps \cup {NULL}
                             /\ stack'[i] = [stage |-> stack'[i].stage, hook |-> stack'[i].hook,
                                            at |-> stack'[i].at]
BY FramesAre DEF OtherTypes, Calls, CallsOf

(* The frame that runs the destroy function of the main trap of h. *)
Drops(i, h, r) == stack[i].stage = "drop_main" /\ stack[i].hook = h /\ stack[i].at = r

(* What a frame that drops a trap says of the trap. *)
LEMMA DroppedIn ==
  ASSUME NEW s \in Seq(Frames), NEW h, NEW r
  PROVE  [stage |-> "drop_main", hook |-> h, at |-> r] \in ToSet(s)
           <=> \E i \in CallsOf(s): s[i].stage = "drop_main" /\ s[i].hook = h /\ s[i].at = r
<1>1. ASSUME [stage |-> "drop_main", hook |-> h, at |-> r] \in ToSet(s)
      PROVE  \E i \in CallsOf(s): s[i].stage = "drop_main" /\ s[i].hook = h /\ s[i].at = r
  <2>1. PICK i \in DOMAIN s: s[i] = [stage |-> "drop_main", hook |-> h, at |-> r]
    BY <1>1 DEF ToSet
  <2>2. QED BY <2>1 DEF CallsOf
<1>2. ASSUME NEW i \in CallsOf(s), s[i].stage = "drop_main", s[i].hook = h, s[i].at = r
      PROVE  [stage |-> "drop_main", hook |-> h, at |-> r] \in ToSet(s)
  <2>1. i \in DOMAIN s /\ s[i] = [stage |-> "drop_main", hook |-> h, at |-> r]
    BY <1>2, FramesAre
  <2>2. QED BY <2>1 DEF ToSet
<1>3. QED BY <1>1, <1>2

(* Which traps a hook counts, told by the places of traps and the stack. *)
LEMMA CountedIs ==
  ASSUME OtherTypes
  PROVE  \A h, r: r \in Counted(h) <=>
           /\ r \in Traps /\ trap[r].block_count = 0
           /\ (OnHook(r, h) /\ Live(r)) \/ \E i \in Calls: Drops(i, h, r)
<1> SUFFICES ASSUME NEW h, NEW r
             PROVE  r \in Counted(h) <=>
                      /\ r \in Traps /\ trap[r].block_count = 0
                      /\ (OnHook(r, h) /\ Live(r)) \/ \E i \in Calls: Drops(i, h, r)
  OBVIOUS
<1>1. [stage |-> "drop_main", hook |-> h, at |-> r] \in ToSet(stack) <=> \E i \in Calls: Drops(i, h, r)
  BY DroppedIn DEF OtherTypes, Drops, Calls, CallsOf
<1>2. QED BY <1>1 DEF Counted

(* The same after a step. *)
LEMMA CountedIsNext ==
  ASSUME OtherTypes'
  PROVE  \A h, r: r \in Counted(h)' <=>
           /\ r \in Traps /\ trap'[r].block_count = 0
           /\ (OnHook(r, h)' /\ Live(r)') \/ \E i \in Calls': Drops(i, h, r)'
<1> SUFFICES ASSUME NEW h, NEW r
             PROVE  r \in Counted(h)' <=>
                      /\ r \in Traps /\ trap'[r].block_count = 0
                      /\ (OnHook(r, h)' /\ Live(r)') \/ \E i \in Calls': Drops(i, h, r)'
  OBVIOUS
<1>1. [stage |-> "drop_main", hook |-> h, at |-> r] \in ToSet(stack') <=> \E i \in Calls': Drops(i, h, r)'
  BY SMTT(30), DroppedIn DEF OtherTypes, Drops, Calls, CallsOf
<1>2. QED BY <1>1 DEF Counted

(* The frames of a step that leaves the stack alone. *)
LEMMA StackPartsNext ==
  ASSUME \A i \in Calls': i < Len(stack') => stack'[i].stage \in Calling,
         \A i \in DOMAIN stack': i \notin Calls' => i = 1,
         \A i \in Calls': FrameKept(stack[i])',
         \A i \in Calls': hook'[stack'[i].hook].is_notifying,
         \A i, j \in Calls': i # j => stack'[i].hook # stack'[j].hook,
         \A i, j \in Calls': i # j /\ stack'[i].at # NULL => stack'[i].at # stack'[j].at,
         \A h \in Hooks: hook'[h].is_notifying => \E i \in Calls': stack'[i].hook = h
  PROVE  StackInv'
<1>1. \A i \in Calls': FrameKept(stack[i])' /\ hook'[stack'[i].hook].is_notifying
  OBVIOUS
<1>2. QED BY <1>1 DEF StackInv

(* A step that leaves the stack and the notifying hooks alone keeps the frames. *)
LEMMA StackStays ==
  ASSUME OtherTypes, StackInv, UNCHANGED stack,
         \A i \in Calls: FrameKept(stack[i])',
         \A h \in Hooks: hook'[h].is_notifying = hook[h].is_notifying
  PROVE  StackInv' /\ Calls' = Calls /\ IdleRuns' = IdleRuns
<1>1. Calls' = Calls /\ IdleRuns' = IdleRuns
  BY DEF Calls, IdleRuns
<1>2. \A i \in Calls: FrameKept(stack[i])' /\ hook'[stack'[i].hook].is_notifying
  BY FrameIs DEF StackInv
<1>3. \A i, j \in Calls: i # j => /\ stack'[i].hook # stack'[j].hook
                                  /\ stack'[i].at # NULL => stack'[i].at # stack'[j].at
  BY DEF StackInv
<1>4. \A h \in Hooks: hook'[h].is_notifying => \E i \in Calls: stack'[i].hook = h
  BY DEF StackInv
<1>5. \A i \in Calls: i < Len(stack') => stack'[i].stage \in Calling
  BY DEF StackInv
<1>6. \A i \in DOMAIN stack': i \notin Calls => i = 1
  BY DEF StackInv
<1>7. QED BY <1>1, <1>2, <1>3, <1>4, <1>5, <1>6 DEF StackInv

(* The innermost call goes on to another stage. *)
LEMMA TopMoves ==
  ASSUME OtherTypes, StackInv, NEW f \in Frames, SetTop(f), f.stage # "idle",
         Len(stack) \in Calls
  PROVE  /\ stack' \in Seq(Frames) /\ Calls' = Calls /\ IdleRuns' = IdleRuns
         /\ Len(stack') = Len(stack) /\ Top = stack[Len(stack)]
         /\ stack'[Len(stack)] = f
         /\ \A i \in Calls \ {Len(stack)}: stack'[i] = stack[i]
<1> DEFINE n == Len(stack)
<1>1. n \in Nat /\ DOMAIN stack = 1..n /\ stack \in Seq(Frames) /\ n \in DOMAIN stack
  BY FrameIs DEF OtherTypes
<1>2. stack # <<>> /\ n >= 1
  BY <1>1
<1>3. /\ Top = stack[n] /\ Front(stack) \in Seq(Frames) /\ Len(Front(stack)) = n - 1
      /\ \A i \in 1..(n - 1): Front(stack)[i] = stack[i]
  BY <1>1, <1>2, FrontIs DEF Top
<1>4. /\ stack' \in Seq(Frames) /\ Len(stack') = n - 1 + 1
      /\ \A i \in 1..(n - 1): stack'[i] = Front(stack)[i]
      /\ stack'[n - 1 + 1] = f
  BY <1>3, AppendIs DEF SetTop
<1> HIDE DEF n
<1>5. /\ Len(stack') = n /\ stack'[n] = f /\ DOMAIN stack' = 1..n
      /\ \A i \in 1..(n - 1): stack'[i] = stack[i]
  BY <1>1, <1>3, <1>4
<1>6. stack[n].stage # "idle"
  BY <1>1 DEF Calls, n
<1>7. Calls' = Calls
  BY <1>1, <1>5, <1>6 DEF Calls
<1>8. IdleRuns' = IdleRuns
  <2>1. stack' # <<>> /\ stack'[1].stage = "idle" <=> stack # <<>> /\ stack[1].stage = "idle"
    BY <1>1, <1>2, <1>4, <1>5, <1>6
  <2>2. QED BY <2>1 DEF IdleRuns
<1>9. \A i \in Calls \ {n}: stack'[i] = stack[i]
  BY <1>1, <1>5 DEF Calls
<1>10. QED BY <1>3, <1>4, <1>5, <1>7, <1>8, <1>9 DEF n

(* The frames stay right when the topmost one moves on. *)
LEMMA TopMovesKept ==
  ASSUME OtherTypes, OtherTypes', StackInv, NEW f \in Frames, SetTop(f), f.stage # "idle",
         Len(stack) \in Calls, f.hook = Top.hook,
         FrameKept(f)', \A i \in Calls \ {Len(stack)}: FrameKept(stack[i])',
         f.at # NULL => \A i \in Calls \ {Len(stack)}: stack[i].at # f.at,
         \A h \in Hooks: hook'[h].is_notifying = hook[h].is_notifying
  PROVE  StackInv'
<1> DEFINE n == Len(stack)
<1>1. /\ Calls' = Calls /\ Len(stack') = n /\ Top = stack[n] /\ stack'[n] = f
      /\ \A i \in Calls \ {n}: stack'[i] = stack[i]
  BY TopMoves
<1>2. DOMAIN stack' = DOMAIN stack
  BY <1>1, FrameIs, FrameIsNext
<1>3. \A i \in Calls: stack'[i].hook = stack[i].hook
  BY <1>1
<1>4. \A i \in Calls: i < n => stack'[i].stage \in Calling
  <2>1. \A i \in DOMAIN stack: i < n => i # n
    BY FrameIs
  <2>2. QED BY <1>1, <1>2, <2>1 DEF StackInv
<1>5. \A i \in Calls: FrameKept(stack[i])' /\ hook'[stack'[i].hook].is_notifying
  <2> SUFFICES ASSUME NEW i \in Calls
               PROVE  FrameKept(stack[i])' /\ hook'[stack'[i].hook].is_notifying
    OBVIOUS
  <2>1. hook'[stack'[i].hook].is_notifying
    BY <1>3, FrameIs DEF StackInv
  <2>2. CASE i = n
    BY <1>1, <2>1, <2>2
  <2>3. CASE i # n
    BY <1>1, <2>1, <2>3
  <2>4. QED BY <2>2, <2>3
<1>6. \A i, j \in Calls: i # j => /\ stack'[i].hook # stack'[j].hook
                                  /\ stack'[i].at # NULL => stack'[i].at # stack'[j].at
  BY <1>1, <1>3 DEF StackInv
<1>7. \A h \in Hooks: hook'[h].is_notifying => \E i \in Calls: stack'[i].hook = h
  BY <1>3 DEF StackInv
<1>8. \A i \in DOMAIN stack': i \notin Calls => i = 1
  BY <1>2 DEF StackInv
<1>9. QED BY <1>1, <1>4, <1>5, <1>6, <1>7, <1>8 DEF StackInv

-----------------------------------------------------------------------------
(* The calls of the program. *)

(* The calls below the innermost one are in callbacks, too. *)
LEMMA CalledBack ==
  ASSUME OtherTypes, StackInv, CanCall
  PROVE  \A i \in Calls: stack[i].stage \in Calling
<1> SUFFICES ASSUME NEW i \in Calls PROVE stack[i].stage \in Calling
  OBVIOUS
<1>1. i \in 1..Len(stack) /\ Len(stack) \in Nat
  BY FrameIs
<1>2. CASE i < Len(stack)
  BY <1>2 DEF StackInv
<1>3. CASE i = Len(stack)
  <2>1. stack # <<>>
    BY <1>1
  <2>2. Top.stage \in Calling
    BY <2>1 DEF CanCall, InCallback, Calling
  <2>3. Top = stack[i]
    BY <1>3 DEF Top, Last
  <2>4. QED BY <2>2, <2>3
<1>4. QED BY <1>1, <1>2, <1>3

(* A trap whose callback or destroy function runs, or that has run. *)
Held(x) == trap[x].status = "ended" \/ (Live(x) /\ trap[x].is_notifying)

(* What a call of the program may change while callbacks wait. *)
LEMMA CallKeepsStack ==
  ASSUME OtherTypes, StackInv, CanCall, UNCHANGED stack,
         \A g \in Hooks: hook'[g].is_notifying = hook[g].is_notifying,
         \A x \in Traps: trap[x].status = "ended" => trap'[x] = trap[x],
         \A x \in Traps, g \in Hooks: Held(x) /\ hook[g].is_notifying =>
           /\ x = hook[g].main => x = hook'[g].main
           /\ x \in ToSet(hook[g].list) => x \in ToSet(hook'[g].list)
           /\ OnHook(x, g) /\ Live(x) => trap'[x].status = "live" /\ trap'[x].is_notifying,
         \A x \in Traps, g \in Hooks: trap[x].status = "ended" /\ OnHook(x, g)' => OnHook(x, g)
  PROVE  StackInv' /\ Calls' = Calls /\ IdleRuns' = IdleRuns
<1>1. ASSUME NEW i \in Calls PROVE FrameKept(stack[i])'
  <2> PICK f: f = stack[i]
    OBVIOUS
  <2>1. /\ f.stage \in Calling /\ FrameKept(f) /\ hook[f.hook].is_notifying
        /\ f.hook \in Hooks /\ f.at \in Traps \cup {NULL}
    BY CalledBack, FrameIs DEF StackInv
  <2>0. SUFFICES FrameKept(f)'
    BY DEF FrameKept
  <2>2. PICK x \in Traps, g \in Hooks: x = f.at /\ g = f.hook
    BY <2>1 DEF FrameKept, Calling
  <2>3. CASE f.stage = "in_main"
    <3>1. x = hook[g].main /\ trap[x].is_notifying /\ Live(x)
      BY <2>1, <2>2, <2>3 DEF FrameKept
    <3>2. Held(x) /\ OnHook(x, g) /\ hook[g].is_notifying
      BY <2>1, <2>2, <3>1 DEF Held, OnHook
    <3>3. x = hook'[g].main /\ trap'[x].is_notifying /\ trap'[x].status = "live"
      BY <3>1, <3>2
    <3>4. QED BY <2>1, <2>2, <2>3, <3>3 DEF FrameKept, Live, Calling
  <2>4. CASE f.stage = "in_list"
    <3>1. x \in ToSet(hook[g].list) /\ trap[x].is_notifying /\ Live(x)
      BY <2>1, <2>2, <2>4 DEF FrameKept, Calling
    <3>2. Held(x) /\ OnHook(x, g) /\ hook[g].is_notifying
      BY <2>1, <2>2, <3>1 DEF Held, OnHook
    <3>3. x \in ToSet(hook'[g].list) /\ trap'[x].is_notifying /\ trap'[x].status = "live"
      BY <3>1, <3>2
    <3>4. QED BY <2>1, <2>2, <2>4, <3>3 DEF FrameKept, Live, Calling
  <2>5. CASE f.stage = "drop_main"
    <3>1. /\ trap[x].status = "ended" /\ trap[x].block_count = 0
          /\ \A k \in Hooks: ~OnHook(x, k)
      BY <2>1, <2>2, <2>5 DEF FrameKept
    <3>2. /\ trap'[x].status = "ended" /\ trap'[x].block_count = 0
          /\ \A k \in Hooks: ~OnHook(x, k)'
      BY <3>1
    <3>3. QED BY <2>1, <2>2, <2>5, <3>2 DEF FrameKept, Calling
  <2>6. CASE f.stage = "drop_list"
    <3>1. x \in ToSet(hook[g].list) /\ trap[x].status = "ended"
      BY <2>1, <2>2, <2>6 DEF FrameKept, Calling
    <3>2. Held(x) /\ hook[g].is_notifying
      BY <2>1, <2>2, <3>1 DEF Held
    <3>3. x \in ToSet(hook'[g].list)
      BY <3>1, <3>2
    <3>4. trap'[x].status = "ended"
      BY <3>1
    <3>5. QED BY <2>1, <2>2, <2>6, <3>3, <3>4 DEF FrameKept, Calling
  <2>7. QED BY <2>1, <2>3, <2>4, <2>5, <2>6 DEF Calling
<1>2. QED BY <1>1, StackStays

(* A frame that drops a trap holds a trap that ended. *)
LEMMA DropsIs ==
  ASSUME OtherTypes, StackInv
  PROVE  \A i \in Calls: \A h, r: Drops(i, h, r) =>
           /\ r \in Traps /\ h \in Hooks /\ trap[r].status = "ended" /\ trap[r].block_count = 0
           /\ \A g \in Hooks: ~OnHook(r, g)
<1> SUFFICES ASSUME NEW i \in Calls, NEW h, NEW r, Drops(i, h, r)
             PROVE  /\ r \in Traps /\ h \in Hooks
                    /\ trap[r].status = "ended" /\ trap[r].block_count = 0
                    /\ \A g \in Hooks: ~OnHook(r, g)
  OBVIOUS
<1> PICK f: f = stack[i]
  OBVIOUS
<1>1. /\ f.stage = "drop_main" /\ f.hook = h /\ f.at = r /\ FrameKept(f)
      /\ h \in Hooks /\ r \in Traps \cup {NULL}
  BY FrameIs DEF StackInv, Drops
<1>2. QED BY <1>1 DEF FrameKept, Calling

(* A trap that is live and not blocked counts on its hook, no other one. *)
LEMMA CountedLater ==
  ASSUME OtherTypes, OtherTypes', UNCHANGED stack
  PROVE  \A h, r: r \in Counted(h)' <=>
           /\ r \in Traps /\ trap'[r].block_count = 0
           /\ (OnHook(r, h)' /\ Live(r)') \/ \E i \in Calls: Drops(i, h, r)
<1>1. Calls' = Calls /\ \A i \in Calls: \A h, r: Drops(i, h, r)' <=> Drops(i, h, r)
  BY DEF Calls, Drops
<1>2. QED BY <1>1, CountedIsNext

(* dsk_hook_trap keeps the invariant. *)
LEMMA TrapKeeps ==
  ASSUME HookInv, NEW h \in Hooks, NEW r \in Traps, Trap(h, r)
  PROVE  HookInv'
<1> OtherTypes /\ PlacesInv /\ StackInv /\ CountsKept /\ DestroyedOnce
  BY InvParts
<1>1. /\ CanCall /\ Called /\ trap[r].status = "new" /\ stack' = stack /\ destroyed' = destroyed
      /\ IncrTrapCount(h)
      /\ trap' = [trap EXCEPT ![r].status = "live"]
      /\ hook' = IF hook[h].main = NULL THEN [hook EXCEPT ![h].main = r]
                 ELSE [hook EXCEPT ![h].list = Append(@, r)]
  BY DEF Trap
<1>2. /\ hook \in [Hooks -> HookRecords] /\ trap \in [Traps -> TrapRecords]
      /\ hook[h].list \in Seq(Traps)
  BY DEF OtherTypes, HookRecords
<1>3. /\ Append(hook[h].list, r) \in Seq(Traps)
      /\ ToSet(Append(hook[h].list, r)) = ToSet(hook[h].list) \cup {r}
      /\ Injective(hook[h].list) /\ r \notin ToSet(hook[h].list) => Injective(Append(hook[h].list, r))
  BY <1>2, AppendIs
<1>4. OtherTypes'
  <2>1. trap' \in [Traps -> TrapRecords]
    BY <1>1, <1>2 DEF TrapRecords
  <2>2. hook' \in [Hooks -> HookRecords]
    BY ZenonT(60), <1>1, <1>2, <1>3 DEF HookRecords
  <2>3. calls' \in 0..MaxCalls
    BY <1>1, BoundsAssumption DEF OtherTypes, CanCall, Called
  <2>4. QED BY <1>1, <2>1, <2>2, <2>3 DEF OtherTypes
<1>5. /\ trap[r].block_count = 0 /\ \A g \in Hooks: ~OnHook(r, g)
      /\ r # NULL
  BY <1>1, NullAssumption DEF PlacesInv
<1>6. \A g \in Hooks:
        /\ g # h => hook'[g] = hook[g]
        /\ hook'[g].is_notifying = hook[g].is_notifying
        /\ hook'[g].is_idle_notify = hook[g].is_idle_notify
  BY <1>1, <1>2
<1>7. \/ /\ hook[h].main = NULL /\ hook'[h].main = r
         /\ hook'[h].list = hook[h].list
      \/ /\ hook[h].main # NULL /\ hook'[h].main = hook[h].main
         /\ hook'[h].list = Append(hook[h].list, r)
  BY <1>1, <1>2
<1>8. \A x \in Traps, g \in Hooks: OnHook(x, g)' <=> OnHook(x, g) \/ (x = r /\ g = h)
  <2>1. \A x \in Traps, g \in Hooks: g # h => (OnHook(x, g)' <=> OnHook(x, g))
    BY <1>6 DEF OnHook
  <2>2. \A x \in Traps: OnHook(x, h)' <=> OnHook(x, h) \/ x = r
    <3>1. CASE hook[h].main = NULL /\ hook'[h].main = r /\ hook'[h].list = hook[h].list
      BY <3>1, NullAssumption DEF OnHook
    <3>2. CASE hook[h].main # NULL /\ hook'[h].main = hook[h].main
                /\ hook'[h].list = Append(hook[h].list, r)
      <4>1. ToSet(hook'[h].list) = ToSet(hook[h].list) \cup {r}
        BY <1>3, <3>2
      <4>2. QED BY <3>2, <4>1 DEF OnHook
    <3>3. QED BY <1>7, <3>1, <3>2
  <2>3. QED BY <2>1, <2>2
<1>9. /\ \A x \in Traps: x # r => trap'[x] = trap[x]
      /\ \A x \in Traps: trap'[x].block_count = trap[x].block_count
      /\ trap'[r].status = "live"
  <2>1. \A x \in Traps: x # r => trap'[x] = trap[x]
    BY <1>1, <1>2
  <2>2. trap'[r].block_count = trap[r].block_count /\ trap'[r].status = "live"
    BY <1>1, <1>2
  <2>3. QED BY <2>1, <2>2
<1>10. PlacesInv'
  <2>1. \A g \in Hooks: Injective(hook'[g].list)
    <3>1. \A g \in Hooks: g # h => Injective(hook'[g].list)
      BY <1>6 DEF PlacesInv
    <3>2. Injective(hook'[h].list)
      BY <1>3, <1>5, <1>7 DEF PlacesInv, OnHook
    <3>3. QED BY <3>1, <3>2
  <2>2. \A g \in Hooks: hook'[g].main # NULL => Live(hook[g].main)' /\ hook'[g].main \notin ToSet(hook'[g].list)
    <3>1. \A g \in Hooks: g # h /\ hook'[g].main # NULL =>
            Live(hook[g].main)' /\ hook'[g].main \notin ToSet(hook'[g].list)
      BY <1>1, <1>2, <1>6, <1>9 DEF PlacesInv, Live, OnHook, HookRecords
    <3>2. Live(hook[h].main)' /\ hook'[h].main \notin ToSet(hook'[h].list)
      BY <1>1, <1>2, <1>3, <1>5, <1>7, <1>9 DEF PlacesInv, Live, OnHook, HookRecords
    <3>3. QED BY <3>1, <3>2
  <2>3. \A x \in Traps, g1, g2 \in Hooks: OnHook(x, g1)' /\ OnHook(x, g2)' => g1 = g2
    BY <1>5, <1>8 DEF PlacesInv
  <2>4. \A x \in Traps: trap'[x].status = "new" => trap'[x].block_count = 0 /\ \A g \in Hooks: ~OnHook(x, g)'
    BY <1>8, <1>9 DEF PlacesInv
  <2>5. QED BY <2>1, <2>2, <2>3, <2>4 DEF PlacesInv
<1>11. StackInv' /\ Calls' = Calls /\ IdleRuns' = IdleRuns
  <2>1. \A x \in Traps: Held(x) => x # r
    BY <1>1 DEF Held, Live
  <2>2. \A x \in Traps: trap[x].status = "ended" => trap'[x] = trap[x]
    BY <1>1, <1>9
  <2>3. \A x \in Traps, g \in Hooks: Held(x) /\ hook[g].is_notifying =>
           /\ x = hook[g].main => x = hook'[g].main
           /\ x \in ToSet(hook[g].list) => x \in ToSet(hook'[g].list)
           /\ OnHook(x, g) /\ Live(x) => trap'[x].status = "live" /\ trap'[x].is_notifying
    <3> SUFFICES ASSUME NEW x \in Traps, NEW g \in Hooks, Held(x)
                 PROVE  /\ x = hook[g].main => x = hook'[g].main
                        /\ x \in ToSet(hook[g].list) => x \in ToSet(hook'[g].list)
                        /\ Live(x) => trap'[x].status = "live" /\ trap'[x].is_notifying
      OBVIOUS
    <3>1. x = hook[g].main => x = hook'[g].main
      BY <1>6, <1>7, NullAssumption
    <3>2. x \in ToSet(hook[g].list) => x \in ToSet(hook'[g].list)
      BY <1>3, <1>6, <1>7
    <3>3. Live(x) => trap'[x].status = "live" /\ trap'[x].is_notifying
      BY <1>1, <1>9, <2>1 DEF Held, Live
    <3>4. QED BY <3>1, <3>2, <3>3
  <2>4. \A x \in Traps, g \in Hooks: trap[x].status = "ended" /\ OnHook(x, g)' => OnHook(x, g)
    BY <1>1, <1>8
  <2>5. QED BY <1>1, <1>6, <2>2, <2>3, <2>4, CallKeepsStack
<1>12. CountsKept'
  <2>1. r \notin Counted(h)
    BY <1>1, <1>5, CountedIs, DropsIs
  <2>2. \A g \in Hooks: \A x: x \in Counted(g)' <=> x \in Counted(g) \/ (x = r /\ g = h)
    BY <1>1, <1>4, <1>5, <1>8, <1>9, CountedIs, CountedLater DEF Live
  <2>3. Counted(h)' = Counted(h) \cup {r} /\ \A g \in Hooks \ {h}: Counted(g)' = Counted(g)
    BY <2>2
  <2>4. hook[h].is_idle_notify \in BOOLEAN
    BY <1>2 DEF HookRecords
  <2>5. QED BY <1>1, <1>6, <1>11, <2>1, <2>3, <2>4, CountsUp
<1>13. DestroyedOnce'
  BY <1>1, <1>9 DEF DestroyedOnce
<1>14. QED BY <1>4, <1>10, <1>11, <1>12, <1>13, InvPartsNext

(* dsk_hook_trap_block keeps the invariant. *)
LEMMA TrapBlockKeeps ==
  ASSUME HookInv, NEW h \in Hooks, NEW r \in Traps, TrapBlock(h, r)
  PROVE  HookInv'
<1> OtherTypes /\ PlacesInv /\ StackInv /\ CountsKept /\ DestroyedOnce
  BY InvParts
<1> DEFINE n == trap[r].block_count
           m == n + 1
<1>1. /\ CanCall /\ Called /\ OnHook(r, h) /\ Live(r) /\ n < MaxBlocks
      /\ hook' = hook /\ stack' = stack /\ destroyed' = destroyed
      /\ trap' = [trap EXCEPT ![r].block_count = m]
      /\ IF n = 0 THEN DecrTrapCount(h) ELSE UNCHANGED countVars
  BY DEF TrapBlock, Usable
<1>2. /\ trap \in [Traps -> TrapRecords] /\ n \in 0..MaxBlocks
      /\ hook[h] \in HookRecords /\ MaxBlocks \in Nat
  BY BoundsAssumption DEF OtherTypes, TrapRecords
<1>3. m \in 0..MaxBlocks /\ m = n + 1
  BY <1>1, <1>2
<1> HIDE DEF n, m
<1>4. OtherTypes'
  <2>1. trap' \in [Traps -> TrapRecords]
    BY <1>1, <1>2, <1>3 DEF TrapRecords
  <2>2. calls' \in 0..MaxCalls
    BY <1>1, BoundsAssumption DEF OtherTypes, CanCall, Called
  <2>3. QED BY <1>1, <2>1, <2>2 DEF OtherTypes
<1>5. /\ \A x \in Traps: x # r => trap'[x] = trap[x]
      /\ \A x \in Traps: trap'[x].status = trap[x].status
      /\ \A x \in Traps: trap'[x].is_notifying = trap[x].is_notifying
      /\ trap'[r].block_count = m /\ trap[r].status = "live"
  BY <1>1, <1>2 DEF Live
<1>6. \A x, g: OnHook(x, g)' <=> OnHook(x, g)
  BY <1>1 DEF OnHook
<1>7. PlacesInv'
  BY <1>1, <1>5, <1>6 DEF PlacesInv, Live
<1>8. StackInv' /\ Calls' = Calls /\ IdleRuns' = IdleRuns
  <2>1. \A x \in Traps: trap[x].status = "ended" => trap'[x] = trap[x]
    BY <1>5
  <2>2. \A x \in Traps: Held(x) /\ Live(x) => trap'[x].status = "live" /\ trap'[x].is_notifying
    BY <1>5 DEF Held, Live
  <2>3. QED BY <1>1, <1>6, <2>1, <2>2, CallKeepsStack
<1>9. CountsKept'
  <2>1. \A g \in Hooks: \A x: x \in Counted(g)' <=>
          IF x = r THEN g = h /\ m = 0 ELSE x \in Counted(g)
    <3>1. \A g \in Hooks: \A x: x # r => (x \in Counted(g)' <=> x \in Counted(g))
      BY <1>1, <1>4, <1>5, <1>6, CountedIs, CountedLater DEF Live
    <3>2. \A g \in Hooks: r \in Counted(g)' <=> g = h /\ m = 0
      BY <1>1, <1>4, <1>5, <1>6, DropsIs, CountedLater DEF PlacesInv, Live
    <3>3. QED BY <3>1, <3>2
  <2>2. \A g \in Hooks: r \in Counted(g) <=> g = h /\ n = 0
    BY <1>1, CountedIs, DropsIs DEF PlacesInv, n
  <2>3. CASE n = 0
    <3>1. r \in Counted(h) /\ Counted(h)' = Counted(h) \ {r} /\ \A g \in Hooks \ {h}: Counted(g)' = Counted(g)
      <4>1. n = 0 /\ m # 0
        BY <1>2, <1>3, <2>3
      <4>2. r \in Counted(h) /\ \A x: x \in Counted(h)' <=> x \in Counted(h) /\ x # r
        BY <2>1, <2>2, <4>1
      <4>3. \A g \in Hooks \ {h}: \A x: x \in Counted(g)' <=> x \in Counted(g)
        BY <2>1, <2>2
      <4>4. Counted(h)' = Counted(h) \ {r}
        BY ONLY <4>2
      <4>5. \A g \in Hooks \ {h}: Counted(g)' = Counted(g)
        BY ONLY <4>3
      <4>6. QED BY <4>2, <4>4, <4>5
    <3>2. hook[h].is_idle_notify \in BOOLEAN
      BY <1>2 DEF HookRecords
    <3>3. DecrTrapCount(h)
      BY <1>1, <2>3
    <3>4. QED BY <1>1, <1>8, <3>1, <3>2, <3>3, CountsDown
  <2>4. CASE ~(n = 0)
    <3>1. \A g \in Hooks: Counted(g)' = Counted(g)
      <4>1. n # 0 /\ m # 0
        BY <1>2, <1>3, <2>4
      <4>2. \A g \in Hooks: \A x: x \in Counted(g)' <=> x \in Counted(g)
        BY <2>1, <2>2, <4>1
      <4>3. QED BY ONLY <4>2
    <3>2. UNCHANGED countVars
      BY <1>1, <2>4
    <3>3. QED BY <1>1, <1>8, <3>1, <3>2, CountsSame
  <2>5. QED BY <2>3, <2>4
<1>10. DestroyedOnce'
  BY <1>1, <1>5 DEF DestroyedOnce
<1>11. QED BY <1>4, <1>7, <1>8, <1>9, <1>10, InvPartsNext

(* dsk_hook_trap_unblock keeps the invariant. *)
LEMMA TrapUnblockKeeps ==
  ASSUME HookInv, NEW h \in Hooks, NEW r \in Traps, TrapUnblock(h, r)
  PROVE  HookInv'
<1> OtherTypes /\ PlacesInv /\ StackInv /\ CountsKept /\ DestroyedOnce
  BY InvParts
<1> DEFINE n == trap[r].block_count
           m == n - 1
<1>1. /\ CanCall /\ Called /\ OnHook(r, h) /\ Live(r) /\ n > 0
      /\ hook' = hook /\ stack' = stack /\ destroyed' = destroyed
      /\ trap' = [trap EXCEPT ![r].block_count = m]
      /\ IF n = 1 THEN IncrTrapCount(h) ELSE UNCHANGED countVars
  BY DEF TrapUnblock, Usable
<1>2. /\ trap \in [Traps -> TrapRecords] /\ n \in 0..MaxBlocks
      /\ hook[h] \in HookRecords /\ MaxBlocks \in Nat
  BY BoundsAssumption DEF OtherTypes, TrapRecords
<1>3. m \in 0..MaxBlocks /\ m = n - 1
  BY <1>1, <1>2
<1> HIDE DEF n, m
<1>4. OtherTypes'
  <2>1. trap' \in [Traps -> TrapRecords]
    BY <1>1, <1>2, <1>3 DEF TrapRecords
  <2>2. calls' \in 0..MaxCalls
    BY <1>1, BoundsAssumption DEF OtherTypes, CanCall, Called
  <2>3. QED BY <1>1, <2>1, <2>2 DEF OtherTypes
<1>5. /\ \A x \in Traps: x # r => trap'[x] = trap[x]
      /\ \A x \in Traps: trap'[x].status = trap[x].status
      /\ \A x \in Traps: trap'[x].is_notifying = trap[x].is_notifying
      /\ trap'[r].block_count = m /\ trap[r].status = "live"
  BY <1>1, <1>2 DEF Live
<1>6. \A x, g: OnHook(x, g)' <=> OnHook(x, g)
  BY <1>1 DEF OnHook
<1>7. PlacesInv'
  BY <1>1, <1>5, <1>6 DEF PlacesInv, Live
<1>8. StackInv' /\ Calls' = Calls /\ IdleRuns' = IdleRuns
  <2>1. \A x \in Traps: trap[x].status = "ended" => trap'[x] = trap[x]
    BY <1>5
  <2>2. \A x \in Traps: Held(x) /\ Live(x) => trap'[x].status = "live" /\ trap'[x].is_notifying
    BY <1>5 DEF Held, Live
  <2>3. QED BY <1>1, <1>6, <2>1, <2>2, CallKeepsStack
<1>9. CountsKept'
  <2>1. \A g \in Hooks: \A x: x \in Counted(g)' <=>
          IF x = r THEN g = h /\ m = 0 ELSE x \in Counted(g)
    <3>1. \A g \in Hooks: \A x: x # r => (x \in Counted(g)' <=> x \in Counted(g))
      BY <1>1, <1>4, <1>5, <1>6, CountedIs, CountedLater DEF Live
    <3>2. \A g \in Hooks: r \in Counted(g)' <=> g = h /\ m = 0
      BY <1>1, <1>4, <1>5, <1>6, DropsIs, CountedLater DEF PlacesInv, Live
    <3>3. QED BY <3>1, <3>2
  <2>2. \A g \in Hooks: r \in Counted(g) <=> g = h /\ n = 0
    BY <1>1, CountedIs, DropsIs DEF PlacesInv, n
  <2>3. CASE n = 1
    <3>1. r \notin Counted(h) /\ Counted(h)' = Counted(h) \cup {r} /\ \A g \in Hooks \ {h}: Counted(g)' = Counted(g)
      <4>1. n # 0 /\ m = 0
        BY <1>2, <1>3, <2>3
      <4>2. r \notin Counted(h) /\ \A x: x \in Counted(h)' <=> x \in Counted(h) \/ x = r
        BY <2>1, <2>2, <4>1
      <4>3. \A g \in Hooks \ {h}: \A x: x \in Counted(g)' <=> x \in Counted(g)
        BY <2>1, <2>2
      <4>4. Counted(h)' = Counted(h) \cup {r}
        BY ONLY <4>2
      <4>5. \A g \in Hooks \ {h}: Counted(g)' = Counted(g)
        BY ONLY <4>3
      <4>6. QED BY <4>2, <4>4, <4>5
    <3>2. hook[h].is_idle_notify \in BOOLEAN
      BY <1>2 DEF HookRecords
    <3>3. IncrTrapCount(h)
      BY <1>1, <2>3
    <3>4. QED BY <1>1, <1>8, <3>1, <3>2, <3>3, CountsUp
  <2>4. CASE ~(n = 1)
    <3>1. \A g \in Hooks: Counted(g)' = Counted(g)
      <4>1. n # 0 /\ m # 0
        BY <1>1, <1>2, <1>3, <2>4
      <4>2. \A g \in Hooks: \A x: x \in Counted(g)' <=> x \in Counted(g)
        BY <2>1, <2>2, <4>1
      <4>3. QED BY ONLY <4>2
    <3>2. UNCHANGED countVars
      BY <1>1, <2>4
    <3>3. QED BY <1>1, <1>8, <3>1, <3>2, CountsSame
  <2>5. QED BY <2>3, <2>4
<1>10. DestroyedOnce'
  BY <1>1, <1>5 DEF DestroyedOnce
<1>11. QED BY <1>4, <1>7, <1>8, <1>9, <1>10, InvPartsNext

(* Destroying a trap whose callback runs puts it off and keeps the invariant. *)
LEMMA PutOffKeeps ==
  ASSUME HookInv, NEW r \in Traps, CanCall, Called, Live(r),
         trap' = [trap EXCEPT ![r].destroy_in_notify = TRUE],
         UNCHANGED <<hook, countVars, stack, destroyed>>
  PROVE  HookInv'
<1> OtherTypes /\ PlacesInv /\ StackInv /\ CountsKept /\ DestroyedOnce
  BY InvParts
<1>1. OtherTypes'
  <2>1. trap' \in [Traps -> TrapRecords]
    BY DEF OtherTypes, TrapRecords
  <2>2. calls' \in 0..MaxCalls
    BY BoundsAssumption DEF OtherTypes, CanCall, Called
  <2>3. QED BY <2>1, <2>2 DEF OtherTypes
<1>2. /\ \A x \in Traps: x # r => trap'[x] = trap[x]
      /\ \A x \in Traps: trap'[x].status = trap[x].status
      /\ \A x \in Traps: trap'[x].is_notifying = trap[x].is_notifying
      /\ \A x \in Traps: trap'[x].block_count = trap[x].block_count
      /\ trap[r].status = "live"
  BY DEF OtherTypes, TrapRecords, Live
<1>3. \A x, g: OnHook(x, g)' <=> OnHook(x, g)
  BY DEF OnHook
<1>4. PlacesInv'
  BY <1>2, <1>3 DEF PlacesInv, Live
<1>5. StackInv' /\ Calls' = Calls /\ IdleRuns' = IdleRuns
  <2>1. \A x \in Traps: trap[x].status = "ended" => trap'[x] = trap[x]
    BY <1>2
  <2>2. \A x \in Traps: Held(x) /\ Live(x) => trap'[x].status = "live" /\ trap'[x].is_notifying
    BY <1>2 DEF Held, Live
  <2>3. QED BY <1>3, <2>1, <2>2, CallKeepsStack
<1>6. CountsKept'
  <2>1. \A g \in Hooks: \A x: x \in Counted(g)' <=> x \in Counted(g)
    BY <1>1, <1>2, <1>3, CountedIs, CountedLater DEF Live
  <2>2. \A g \in Hooks: Counted(g)' = Counted(g)
    BY ONLY <2>1
  <2>3. QED BY <1>5, <2>2, CountsSame
<1>7. DestroyedOnce'
  BY <1>2 DEF DestroyedOnce
<1>8. QED BY <1>1, <1>4, <1>5, <1>6, <1>7, InvPartsNext

(* The data of the traps that end goes with them. *)
LEMMA DestroyedIs ==
  ASSUME OtherTypes, DestroyedOnce, NEW R \in SUBSET Traps, \A x \in R: trap[x].status # "ended",
         destroyed' = Destroyed(R),
         \A x \in Traps: trap'[x].status = "ended" <=> x \in R \/ trap[x].status = "ended"
  PROVE  destroyed' \in [Traps -> Nat] /\ DestroyedOnce'
<1>1. /\ destroyed \in [Traps -> Nat]
      /\ \A x \in Traps: destroyed[x] = IF x \in Owns /\ trap[x].status = "ended" THEN 1 ELSE 0
  BY DEF OtherTypes, DestroyedOnce
<1>2. destroyed' = [x \in Traps |-> destroyed[x] + IF x \in R \cap Owns THEN 1 ELSE 0]
  BY DEF Destroyed
<1>3. \A x \in Traps: destroyed'[x] = IF x \in Owns /\ (x \in R \/ trap[x].status = "ended") THEN 1 ELSE 0
  BY <1>1, <1>2
<1>4. destroyed' \in [Traps -> Nat]
  BY <1>1, <1>2
<1>5. QED BY <1>3, <1>4 DEF DestroyedOnce

(* dsk_hook_trap_destroy keeps the invariant. *)
LEMMA TrapDestroyKeeps ==
  ASSUME HookInv, NEW h \in Hooks, NEW r \in Traps, TrapDestroy(h, r)
  PROVE  HookInv'
<1> OtherTypes /\ PlacesInv /\ StackInv /\ CountsKept /\ DestroyedOnce
  BY InvParts
<1>1. CanCall /\ Called /\ OnHook(r, h) /\ Live(r) /\ stack' = stack
  BY DEF TrapDestroy, Usable
<1>2. CASE trap[r].is_notifying
  <2>1. trap' = [trap EXCEPT ![r].destroy_in_notify = TRUE] /\ UNCHANGED <<hook, countVars, destroyed>>
    BY <1>2 DEF TrapDestroy
  <2>2. QED BY <1>1, <2>1, PutOffKeeps
<1>3. CASE ~trap[r].is_notifying
  <2>1. /\ IF trap[r].block_count = 0 THEN DecrTrapCount(h) ELSE UNCHANGED countVars
        /\ trap' = [trap EXCEPT ![r].status = "ended"]
        /\ hook' = IF hook[h].main = r THEN [hook EXCEPT ![h].main = NULL]
                   ELSE [hook EXCEPT ![h].list = Without(@, r)]
        /\ destroyed' = Destroyed({r})
    BY <1>3 DEF TrapDestroy
  <2>2. /\ hook \in [Hooks -> HookRecords] /\ trap \in [Traps -> TrapRecords]
        /\ hook[h].list \in Seq(Traps) /\ Injective(hook[h].list)
    BY DEF OtherTypes, HookRecords, PlacesInv
  <2>3. /\ Without(hook[h].list, r) \in Seq(Traps)
        /\ ToSet(Without(hook[h].list, r)) = ToSet(hook[h].list) \ {r}
        /\ Injective(Without(hook[h].list, r))
    BY <2>2, WithoutIs
  <2>4. /\ \A x \in Traps: x # r => trap'[x] = trap[x]
        /\ trap'[r].status = "ended" /\ trap[r].status = "live"
    BY <1>1, <2>1, <2>2 DEF Live
  <2>40. \A x \in Traps: trap'[x].block_count = trap[x].block_count
    BY <2>1, <2>2 DEF TrapRecords
  <2>5. \A g \in Hooks:
          /\ g # h => hook'[g] = hook[g]
          /\ hook'[g].is_notifying = hook[g].is_notifying
          /\ hook'[g].is_idle_notify = hook[g].is_idle_notify
    BY <2>1, <2>2
  <2>6. \/ /\ hook[h].main = r /\ hook'[h].main = NULL
           /\ hook'[h].list = hook[h].list /\ r \notin ToSet(hook[h].list)
        \/ /\ hook[h].main # r /\ hook'[h].main = hook[h].main
           /\ hook'[h].list = Without(hook[h].list, r)
    BY <2>1, <2>2, NullAssumption DEF PlacesInv
  <2>7. \A g \in Hooks: OnHook(r, g) => g = h
    BY <1>1 DEF PlacesInv
  <2>8. \A x \in Traps, g \in Hooks: OnHook(x, g)' <=> OnHook(x, g) /\ x # r
    <3>1. \A x \in Traps, g \in Hooks: g # h => (OnHook(x, g)' <=> OnHook(x, g) /\ x # r)
      BY <2>5, <2>7 DEF OnHook
    <3>2. \A x \in Traps: OnHook(x, h)' <=> OnHook(x, h) /\ x # r
      <4>1. CASE hook[h].main = r /\ hook'[h].main = NULL
                   /\ hook'[h].list = hook[h].list /\ r \notin ToSet(hook[h].list)
        BY <4>1, NullAssumption DEF OnHook
      <4>2. CASE hook[h].main # r /\ hook'[h].main = hook[h].main
                   /\ hook'[h].list = Without(hook[h].list, r)
        <5>1. ToSet(hook'[h].list) = ToSet(hook[h].list) \ {r}
          BY <2>3, <4>2
        <5>2. QED BY <4>2, <5>1 DEF OnHook
      <4>3. QED BY <2>6, <4>1, <4>2
    <3>3. QED BY <3>1, <3>2
  <2>9. OtherTypes'
    <3>1. trap' \in [Traps -> TrapRecords]
      BY <2>1, <2>2 DEF TrapRecords
    <3>2. hook' \in [Hooks -> HookRecords]
      BY ZenonT(60), <2>1, <2>2, <2>3 DEF HookRecords
    <3>3. calls' \in 0..MaxCalls
      BY <1>1, BoundsAssumption DEF OtherTypes, CanCall, Called
    <3>4. \A x \in Traps: trap'[x].status = "ended" <=> x \in {r} \/ trap[x].status = "ended"
      BY <2>4
    <3>5. destroyed' \in [Traps -> Nat]
      BY <2>1, <2>4, <3>4, DestroyedIs
    <3>6. QED BY <1>1, <3>1, <3>2, <3>3, <3>5 DEF OtherTypes
  <2>10. DestroyedOnce'
    <3>1. \A x \in Traps: trap'[x].status = "ended" <=> x \in {r} \/ trap[x].status = "ended"
      BY <2>4
    <3>2. QED BY <2>1, <2>4, <3>1, DestroyedIs
  <2>11. PlacesInv'
    <3>1. \A g \in Hooks: Injective(hook'[g].list)
      <4>1. \A g \in Hooks: g # h => Injective(hook'[g].list)
        BY <2>5 DEF PlacesInv
      <4>2. Injective(hook'[h].list)
        BY <2>2, <2>3, <2>6
      <4>3. QED BY <4>1, <4>2
    <3>2. \A g \in Hooks: hook'[g].main # NULL => Live(hook[g].main)' /\ hook'[g].main \notin ToSet(hook'[g].list)
      <4> SUFFICES ASSUME NEW g \in Hooks, NEW x, x = hook'[g].main, x # NULL
                   PROVE  trap'[x].status = "live" /\ x \notin ToSet(hook'[g].list)
        BY DEF Live
      <4>1. x = hook[g].main
        BY <2>5, <2>6
      <4>2. x \in Traps /\ trap[x].status = "live" /\ x \notin ToSet(hook[g].list)
        BY <2>2, <4>1 DEF PlacesInv, Live, HookRecords
      <4>3. x # r
        BY <2>7, <2>6, <4>1, <4>2 DEF OnHook
      <4>4. \/ hook'[g].list = hook[g].list
            \/ ToSet(hook'[g].list) = ToSet(hook[g].list) \ {r}
        BY <2>3, <2>5, <2>6
      <4>5. QED BY <2>4, <4>2, <4>3, <4>4
    <3>3. \A x \in Traps, g1, g2 \in Hooks: OnHook(x, g1)' /\ OnHook(x, g2)' => g1 = g2
      BY <2>8 DEF PlacesInv
    <3>4. \A x \in Traps: trap'[x].status = "new" => trap'[x].block_count = 0 /\ \A g \in Hooks: ~OnHook(x, g)'
      BY <2>4, <2>8 DEF PlacesInv
    <3>5. QED BY <3>1, <3>2, <3>3, <3>4 DEF PlacesInv
  <2>12. StackInv' /\ Calls' = Calls /\ IdleRuns' = IdleRuns
    <3>1. \A x \in Traps: Held(x) => x # r
      BY <1>3, <2>4 DEF Held, Live
    <3>2. \A x \in Traps: trap[x].status = "ended" => trap'[x] = trap[x]
      BY <2>4
    <3>3. \A x \in Traps, g \in Hooks: Held(x) /\ hook[g].is_notifying =>
             /\ x = hook[g].main => x = hook'[g].main
             /\ x \in ToSet(hook[g].list) => x \in ToSet(hook'[g].list)
             /\ OnHook(x, g) /\ Live(x) => trap'[x].status = "live" /\ trap'[x].is_notifying
      <4> SUFFICES ASSUME NEW x \in Traps, NEW g \in Hooks, Held(x)
                   PROVE  /\ x = hook[g].main => x = hook'[g].main
                          /\ x \in ToSet(hook[g].list) => x \in ToSet(hook'[g].list)
                          /\ Live(x) => trap'[x].status = "live" /\ trap'[x].is_notifying
        OBVIOUS
      <4>1. x = hook[g].main => x = hook'[g].main
        BY <2>5, <2>6, <3>1
      <4>2. x \in ToSet(hook[g].list) => x \in ToSet(hook'[g].list)
        BY <2>3, <2>5, <2>6, <3>1
      <4>3. Live(x) => trap'[x].status = "live" /\ trap'[x].is_notifying
        BY <2>4, <3>1 DEF Held, Live
      <4>4. QED BY <4>1, <4>2, <4>3
    <3>4. \A x \in Traps, g \in Hooks: trap[x].status = "ended" /\ OnHook(x, g)' => OnHook(x, g)
      BY <2>8
    <3>5. QED BY <1>1, <2>5, <3>2, <3>3, <3>4, CallKeepsStack
  <2>13. CountsKept'
    <3>1. \A g \in Hooks: \A x: x \in Counted(g)' <=> x \in Counted(g) /\ x # r
      BY <1>1, <2>4, <2>40, <2>8, <2>9, CountedIs, CountedLater, DropsIs DEF Live
    <3>2. \A g \in Hooks: r \in Counted(g) <=> g = h /\ trap[r].block_count = 0
      BY <1>1, <2>4, <2>7, CountedIs, DropsIs
    <3>3. CASE trap[r].block_count = 0
      <4>1. r \in Counted(h) /\ DecrTrapCount(h)
        BY <2>1, <3>2, <3>3
      <4>2. Counted(h)' = Counted(h) \ {r}
        BY <3>1
      <4>3. \A g \in Hooks \ {h}: Counted(g)' = Counted(g)
        BY <3>1, <3>2
      <4>4. hook[h].is_idle_notify \in BOOLEAN
        BY <2>2 DEF HookRecords
      <4>5. QED BY <2>5, <2>12, <4>1, <4>2, <4>3, <4>4, CountsDown
    <3>4. CASE trap[r].block_count # 0
      <4>1. \A g \in Hooks: Counted(g)' = Counted(g)
        BY <3>1, <3>2, <3>4
      <4>2. UNCHANGED countVars
        BY <2>1, <3>4
      <4>3. QED BY <2>5, <2>12, <4>1, <4>2, CountsSame
    <3>5. QED BY <3>3, <3>4
  <2>14. QED BY <2>9, <2>10, <2>11, <2>12, <2>13, InvPartsNext
<1>4. QED BY <1>2, <1>3

(* dsk_hook_set_idle_notify keeps the invariant. *)
LEMMA SetIdleNotifyKeeps ==
  ASSUME HookInv, NEW h \in Hooks, SetIdleNotify(h)
  PROVE  HookInv'
<1> OtherTypes /\ PlacesInv /\ StackInv /\ CountsKept /\ DestroyedOnce
  BY InvParts
<1> DEFINE idle == hook[h].is_idle_notify
<1>1. /\ CanCall /\ Called /\ UNCHANGED <<trap, trap_count, polled, stack, destroyed>>
      /\ hook' = [hook EXCEPT ![h].is_idle_notify = ~idle]
      /\ IF trap_count[h] = 0 THEN UNCHANGED <<idle_list, idle_handler>>
         ELSE IF idle THEN LeaveIdleList(h) ELSE JoinIdleList(h)
  BY DEF SetIdleNotify
<1>2. hook \in [Hooks -> HookRecords] /\ idle \in BOOLEAN
  BY DEF OtherTypes, HookRecords
<1>3. OtherTypes'
  <2>1. hook' \in [Hooks -> HookRecords]
    BY <1>1, <1>2 DEF HookRecords
  <2>2. calls' \in 0..MaxCalls
    BY <1>1, BoundsAssumption DEF OtherTypes, CanCall, Called
  <2>3. QED BY <1>1, <2>1, <2>2 DEF OtherTypes
<1>4. /\ \A g \in Hooks: hook'[g].main = hook[g].main /\ hook'[g].list = hook[g].list
      /\ \A g \in Hooks: hook'[g].is_notifying = hook[g].is_notifying
      /\ \A g \in Hooks \ {h}: hook'[g].is_idle_notify = hook[g].is_idle_notify
      /\ hook'[h].is_idle_notify = ~idle
  BY <1>1, <1>2
<1>5. \A x \in Traps, g \in Hooks: OnHook(x, g)' <=> OnHook(x, g)
  BY <1>4 DEF OnHook
<1>6. PlacesInv'
  BY <1>1, <1>4, <1>5 DEF PlacesInv, Live
<1>7. StackInv' /\ Calls' = Calls /\ IdleRuns' = IdleRuns
  BY <1>1, <1>4, <1>5, CallKeepsStack DEF Held, Live
<1>8. \A g \in Hooks: Counted(g)' = Counted(g)
  <2>1. \A g \in Hooks: \A x: x \in Counted(g)' <=> x \in Counted(g)
    BY <1>1, <1>3, <1>5, CountedIs, CountedLater DEF Live
  <2>2. QED BY ONLY <2>1
<1>9. trap_count[h] = 0 <=> Counted(h) = {}
  BY FS_EmptySet DEF CountsKept, CountInv
<1>10. /\ idle_list' \in Seq(Hooks \cup {Guard}) /\ idle_handler' \in BOOLEAN
       /\ IdleInv'
  <2>1. CASE Counted(h) = {}
    <3>1. UNCHANGED <<idle_list, idle_handler>>
      BY <1>1, <1>9, <2>1
    <3>2. \A g \in Hooks: g \in ToSet(idle_list) <=> hook'[g].is_idle_notify /\ Counted(g) # {}
      BY <1>4, <2>1 DEF CountsKept, IdleInv
    <3>3. QED BY <1>7, <1>8, <3>1, <3>2 DEF CountsKept, CountTypes, IdleInv, Injective, ToSet
  <2>2. CASE Counted(h) # {} /\ idle
    <3>1. LeaveIdleList(h)
      BY <1>1, <1>9, <2>2
    <3>2. /\ idle_list' \in Seq(Hooks \cup {Guard}) /\ idle_handler' = idle_handler
          /\ Injective(idle_list)' /\ ToSet(idle_list)' = ToSet(idle_list) \ {h}
          /\ idle_list' # <<>> => idle_list # <<>>
      BY <3>1, Leaves
    <3>3. \A g \in Hooks: g \in ToSet(idle_list)' <=> hook'[g].is_idle_notify /\ Counted(g) # {}
      BY <1>4, <2>2, <3>2 DEF CountsKept, IdleInv
    <3>4. QED BY <1>7, <1>8, <3>2, <3>3, NullAssumption DEF CountsKept, CountTypes, IdleInv
  <2>3. CASE Counted(h) # {} /\ ~idle
    <3>1. JoinIdleList(h) /\ h \notin ToSet(idle_list)
      BY <1>1, <1>9, <2>3 DEF CountsKept, IdleInv
    <3>2. /\ idle_list' \in Seq(Hooks \cup {Guard}) /\ idle_handler' = TRUE
          /\ Injective(idle_list)' /\ ToSet(idle_list)' = ToSet(idle_list) \cup {h}
      BY <3>1, Joins
    <3>3. \A g \in Hooks: g \in ToSet(idle_list)' <=> hook'[g].is_idle_notify /\ Counted(g) # {}
      BY <1>4, <2>3, <3>2 DEF CountsKept, IdleInv
    <3>4. QED BY <1>7, <1>8, <3>2, <3>3, NullAssumption DEF CountsKept, CountTypes, IdleInv
  <2>4. QED BY <1>2, <2>1, <2>2, <2>3
<1>11. CountsKept'
  BY <1>1, <1>8, <1>10 DEF CountsKept, CountTypes, CountInv
<1>12. DestroyedOnce'
  BY <1>1 DEF DestroyedOnce
<1>13. QED BY <1>3, <1>6, <1>7, <1>11, <1>12, InvPartsNext

(* A hook and its traps after dsk_hook_clear; c are the hooks it is given. *)
LEMMA ClearedIs ==
  ASSUME OtherTypes, PlacesInv, DestroyedOnce, NEW h \in Hooks, NEW c \in [Hooks -> HookRecords],
         \A g \in Hooks \ {h}: c[g] = hook[g],
         c[h].is_idle_notify = hook[h].is_idle_notify,
         ClearNow(h, c)
  PROVE  /\ hook' \in [Hooks -> HookRecords] /\ trap' \in [Traps -> TrapRecords]
         /\ destroyed' \in [Traps -> Nat]
         /\ PlacesInv' /\ DestroyedOnce'
         /\ \A g \in Hooks \ {h}: hook'[g] = hook[g]
         /\ \A g \in Hooks: hook'[g].is_idle_notify = hook[g].is_idle_notify
         /\ hook'[h].is_notifying = c[h].is_notifying
         /\ \A x \in Traps, g \in Hooks: OnHook(x, g)' <=> g # h /\ OnHook(x, g)
         /\ \A x \in Traps: ~OnHook(x, h) => trap'[x] = trap[x]
         /\ \A x \in Traps: trap[x].status = "ended" => trap'[x] = trap[x]
         /\ \A x \in Traps: trap'[x].block_count = trap[x].block_count
         /\ trap_count' = [trap_count EXCEPT ![h] = 0]
         /\ IF trap_count[h] > 0 THEN TrapCountZero(h)
            ELSE UNCHANGED <<polled, idle_list, idle_handler>>
<1> DEFINE own == {r \in Traps: Live(r) /\ OnHook(r, h)}
<1>1. /\ hook' = [c EXCEPT ![h].is_cleared = TRUE, ![h].main = NULL, ![h].list = <<>>]
      /\ trap' = [r \in Traps |-> IF r \in own THEN [trap[r] EXCEPT !.status = "ended"] ELSE trap[r]]
      /\ destroyed' = Destroyed(own)
      /\ trap_count' = [trap_count EXCEPT ![h] = 0]
      /\ IF trap_count[h] > 0 THEN TrapCountZero(h)
         ELSE UNCHANGED <<polled, idle_list, idle_handler>>
  BY DEF ClearNow
<1>2. hook \in [Hooks -> HookRecords] /\ trap \in [Traps -> TrapRecords]
  BY DEF OtherTypes
<1>3. \A r \in Traps: r \in own <=> Live(r) /\ OnHook(r, h)
  OBVIOUS
<1>4. own \in SUBSET Traps
  OBVIOUS
<1> HIDE DEF own
<1>5. hook' \in [Hooks -> HookRecords]
  <2> DEFINE k == [c[h] EXCEPT !.is_cleared = TRUE, !.main = NULL, !.list = <<>>]
  <2>1. k \in HookRecords
    <3>1. <<>> \in Seq(Traps) /\ c[h] \in HookRecords
      OBVIOUS
    <3>2. QED BY <3>1 DEF HookRecords
  <2>2. hook' = [c EXCEPT ![h] = k]
    BY <1>1
  <2> HIDE DEF k
  <2>3. QED BY <2>1, <2>2
<1>6. trap' \in [Traps -> TrapRecords]
  BY <1>1, <1>2 DEF TrapRecords
<1>7. /\ \A x \in Traps: x \notin own => trap'[x] = trap[x]
      /\ \A x \in own: trap'[x].status = "ended"
      /\ \A x \in own: trap'[x].block_count = trap[x].block_count
  BY <1>1, <1>2, <1>4 DEF TrapRecords
<1>8. \A x \in Traps: trap'[x].block_count = trap[x].block_count
  BY <1>7
<1>9. \A x \in Traps: (~OnHook(x, h) => trap'[x] = trap[x]) /\ (trap[x].status = "ended" => trap'[x] = trap[x])
  BY <1>3, <1>7 DEF Live
<1>10. /\ \A g \in Hooks \ {h}: hook'[g] = hook[g]
       /\ hook'[h].main = NULL /\ hook'[h].list = <<>>
       /\ hook'[h].is_idle_notify = hook[h].is_idle_notify
       /\ hook'[h].is_notifying = c[h].is_notifying
  BY <1>1
<1>11. \A x \in Traps, g \in Hooks: OnHook(x, g)' <=> g # h /\ OnHook(x, g)
  <2>1. \A x \in Traps: ~OnHook(x, h)'
    BY <1>10, NullAssumption DEF OnHook, ToSet
  <2>2. \A x \in Traps, g \in Hooks \ {h}: OnHook(x, g)' <=> OnHook(x, g)
    BY <1>10 DEF OnHook
  <2>3. QED BY <2>1, <2>2
<1>12. /\ \A x \in own: trap[x].status # "ended"
       /\ \A x \in Traps: trap'[x].status = "ended" <=> x \in own \/ trap[x].status = "ended"
  BY <1>3, <1>4, <1>7 DEF Live
<1>13. destroyed' \in [Traps -> Nat] /\ DestroyedOnce'
  BY <1>1, <1>4, <1>12, DestroyedIs
<1>14. PlacesInv'
  <2>1. \A g \in Hooks: Injective(hook'[g].list)
    BY <1>10 DEF PlacesInv, Injective
  <2>2. \A g \in Hooks: hook'[g].main # NULL => Live(hook[g].main)' /\ hook'[g].main \notin ToSet(hook'[g].list)
    <3> SUFFICES ASSUME NEW g \in Hooks, NEW x, x = hook'[g].main, x # NULL
                 PROVE  trap'[x].status = "live" /\ x \notin ToSet(hook'[g].list)
      BY DEF Live
    <3>1. g # h /\ hook'[g] = hook[g]
      BY <1>10
    <3>2. x \in Traps /\ trap[x].status = "live" /\ x \notin ToSet(hook[g].list)
      BY <1>2, <3>1 DEF PlacesInv, Live, HookRecords
    <3>3. ~OnHook(x, h)
      BY <3>1, <3>2 DEF PlacesInv, OnHook
    <3>4. QED BY <1>9, <3>1, <3>2, <3>3
  <2>3. \A x \in Traps, g1, g2 \in Hooks: OnHook(x, g1)' /\ OnHook(x, g2)' => g1 = g2
    BY <1>11 DEF PlacesInv
  <2>4. \A x \in Traps: trap'[x].status = "new" => trap'[x].block_count = 0 /\ \A g \in Hooks: ~OnHook(x, g)'
    BY <1>7, <1>8, <1>11, <1>12 DEF PlacesInv
  <2>5. QED BY <2>1, <2>2, <2>3, <2>4 DEF PlacesInv
<1>15. \A g \in Hooks: hook'[g].is_idle_notify = hook[g].is_idle_notify
  BY <1>10
<1>16. /\ \A x \in Traps: ~OnHook(x, h) => trap'[x] = trap[x]
       /\ \A x \in Traps: trap[x].status = "ended" => trap'[x] = trap[x]
  BY <1>9
<1>17. QED BY ONLY <1>1, <1>5, <1>6, <1>8, <1>10, <1>11, <1>13, <1>14, <1>15, <1>16

(* dsk_hook_clear keeps the invariant. *)
LEMMA ClearKeeps ==
  ASSUME HookInv, NEW h \in Hooks, Clear(h)
  PROVE  HookInv'
<1> OtherTypes /\ PlacesInv /\ StackInv /\ CountsKept /\ DestroyedOnce
  BY InvParts
<1>1. CanCall /\ Called /\ stack' = stack /\ calls' \in 0..MaxCalls
  BY BoundsAssumption DEF Clear, OtherTypes, CanCall, Called
<1>2. hook \in [Hooks -> HookRecords] /\ hook[h].is_idle_notify \in BOOLEAN
  BY DEF OtherTypes, HookRecords
<1>3. CASE hook[h].is_notifying
  <2>1. /\ hook' = [hook EXCEPT ![h].clear_in_notify = TRUE]
        /\ UNCHANGED <<trap, countVars, destroyed>>
    BY <1>3 DEF Clear
  <2>2. OtherTypes'
    <3>1. hook' \in [Hooks -> HookRecords]
      BY <1>2, <2>1 DEF HookRecords
    <3>2. QED BY <1>1, <2>1, <3>1 DEF OtherTypes
  <2>3. \A g \in Hooks: /\ hook'[g].main = hook[g].main /\ hook'[g].list = hook[g].list
                        /\ hook'[g].is_notifying = hook[g].is_notifying
                        /\ hook'[g].is_idle_notify = hook[g].is_idle_notify
    BY <1>2, <2>1
  <2>4. \A x \in Traps, g \in Hooks: OnHook(x, g)' <=> OnHook(x, g)
    BY <2>3 DEF OnHook
  <2>5. PlacesInv'
    BY <2>1, <2>3, <2>4 DEF PlacesInv, Live
  <2>6. StackInv' /\ Calls' = Calls /\ IdleRuns' = IdleRuns
    BY <1>1, <2>1, <2>3, <2>4, CallKeepsStack DEF Held, Live
  <2>7. \A g \in Hooks: Counted(g)' = Counted(g)
    <3>1. \A g \in Hooks: \A x: x \in Counted(g)' <=> x \in Counted(g)
      BY <1>1, <2>1, <2>2, <2>4, CountedIs, CountedLater DEF Live
    <3>2. QED BY ONLY <3>1
  <2>8. CountsKept'
    BY <2>1, <2>3, <2>6, <2>7, CountsSame
  <2>9. DestroyedOnce'
    BY <2>1 DEF DestroyedOnce
  <2>10. QED BY <2>2, <2>5, <2>6, <2>8, <2>9, InvPartsNext
<1>4. CASE ~hook[h].is_notifying
  <2>1. ClearNow(h, hook)
    BY <1>4 DEF Clear
  <2>2. /\ hook' \in [Hooks -> HookRecords] /\ trap' \in [Traps -> TrapRecords]
        /\ destroyed' \in [Traps -> Nat]
        /\ PlacesInv' /\ DestroyedOnce'
        /\ \A g \in Hooks \ {h}: hook'[g] = hook[g]
        /\ \A g \in Hooks: hook'[g].is_idle_notify = hook[g].is_idle_notify
        /\ hook'[h].is_notifying = hook[h].is_notifying
        /\ \A x \in Traps, g \in Hooks: OnHook(x, g)' <=> g # h /\ OnHook(x, g)
        /\ \A x \in Traps: ~OnHook(x, h) => trap'[x] = trap[x]
        /\ \A x \in Traps: trap[x].status = "ended" => trap'[x] = trap[x]
        /\ \A x \in Traps: trap'[x].block_count = trap[x].block_count
        /\ trap_count' = [trap_count EXCEPT ![h] = 0]
        /\ IF trap_count[h] > 0 THEN TrapCountZero(h)
           ELSE UNCHANGED <<polled, idle_list, idle_handler>>
    BY <1>2, <2>1, ClearedIs
  <2>3. OtherTypes'
    BY <1>1, <2>2 DEF OtherTypes
  <2>4. \A g \in Hooks: hook'[g].is_notifying = hook[g].is_notifying
    BY <2>2
  <2>5. \A x \in Traps, g \in Hooks: g # h /\ OnHook(x, g) => trap'[x] = trap[x]
    BY <2>2 DEF PlacesInv
  <2>6. StackInv' /\ Calls' = Calls /\ IdleRuns' = IdleRuns
    <3>1. \A x \in Traps, g \in Hooks: Held(x) /\ hook[g].is_notifying =>
             /\ x = hook[g].main => x = hook'[g].main
             /\ x \in ToSet(hook[g].list) => x \in ToSet(hook'[g].list)
             /\ OnHook(x, g) /\ Live(x) => trap'[x].status = "live" /\ trap'[x].is_notifying
      <4> SUFFICES ASSUME NEW x \in Traps, NEW g \in Hooks, Held(x), hook[g].is_notifying
                   PROVE  /\ x = hook[g].main => x = hook'[g].main
                          /\ x \in ToSet(hook[g].list) => x \in ToSet(hook'[g].list)
                          /\ OnHook(x, g) /\ Live(x) => trap'[x].status = "live" /\ trap'[x].is_notifying
        OBVIOUS
      <4>1. g # h /\ hook'[g] = hook[g]
        BY <1>4, <2>2
      <4>2. OnHook(x, g) /\ Live(x) => trap'[x].status = "live" /\ trap'[x].is_notifying
        BY <2>5, <4>1 DEF Held, Live
      <4>3. QED BY <4>1, <4>2
    <3>2. \A x \in Traps, g \in Hooks: trap[x].status = "ended" /\ OnHook(x, g)' => OnHook(x, g)
      BY <2>2
    <3>3. \A x \in Traps: trap[x].status = "ended" => trap'[x] = trap[x]
      BY <2>2
    <3>4. QED BY <1>1, <2>4, <3>1, <3>2, <3>3, CallKeepsStack
  <2>7. \A i \in Calls: \A x: ~Drops(i, h, x)
    BY <1>4 DEF StackInv, Drops
  <2>8. \A x: x \notin Counted(h)'
    BY <1>1, <2>2, <2>3, <2>7, CountedLater
  <2>9. \A g \in Hooks \ {h}: \A x: x \in Counted(g)' <=> x \in Counted(g)
    BY <1>1, <2>2, <2>3, <2>5, CountedIs, CountedLater DEF Live
  <2>10. Counted(h)' = {} /\ \A g \in Hooks \ {h}: Counted(g)' = Counted(g)
    BY ONLY <2>8, <2>9
  <2>11. CountsKept'
    BY <1>2, <2>2, <2>6, <2>10, CountsNone
  <2>12. QED BY <2>2, <2>3, <2>6, <2>11, InvPartsNext
<1>5. QED BY <1>3, <1>4

(* A hook begins to notify. *)
LEMMA StartKeeps ==
  ASSUME OtherTypes, PlacesInv, StackInv, NEW h \in Hooks, ~hook[h].is_notifying,
         StartNotify(h), UNCHANGED <<trap, destroyed>>, calls' \in 0..MaxCalls,
         \A i \in Calls: stack[i].stage \in Calling
  PROVE  /\ OtherTypes' /\ PlacesInv' /\ StackInv' /\ IdleRuns' = IdleRuns
         /\ \A g \in Hooks: hook'[g].is_idle_notify = hook[g].is_idle_notify
         /\ \A g \in Hooks: Counted(g)' = Counted(g)
<1> DEFINE f == [stage |-> "main", hook |-> h, at |-> NULL]
<1>0. PICK n \in Nat: n = Len(stack)
  BY FrameIs
<1>1. /\ hook' = [hook EXCEPT ![h].is_notifying = TRUE] /\ stack' = Append(stack, f)
      /\ UNCHANGED <<trap, destroyed>>
  BY DEF StartNotify
<1>2. hook \in [Hooks -> HookRecords] /\ stack \in Seq(Frames)
  BY DEF OtherTypes
<1>3. f \in Frames /\ f.stage = "main" /\ f.hook = h /\ f.at = NULL
  BY DEF Frames, Stages
<1> HIDE DEF f
<1>4. /\ stack' \in Seq(Frames) /\ Len(stack') = n + 1 /\ stack'[n + 1] = f
      /\ \A i \in 1..n: stack'[i] = stack[i]
  BY <1>0, <1>1, <1>2, <1>3, AppendIs
<1>5. n \in Nat /\ DOMAIN stack = 1..n /\ DOMAIN stack' = 1..(n + 1)
  BY <1>0, <1>2, <1>4
<1>6. Calls' = Calls \cup {n + 1} /\ \A i \in Calls: i \in 1..n
  <2>1. \A i \in 1..n: stack'[i].stage # "idle" <=> stack[i].stage # "idle"
    BY <1>4
  <2>2. stack'[n + 1].stage # "idle"
    BY <1>3, <1>4
  <2>3. QED BY <1>5, <2>1, <2>2 DEF Calls
<1>7. IdleRuns' = IdleRuns
  <2>1. CASE n = 0
    <3>1. stack = <<>> /\ stack'[1].stage = "main"
      BY <1>2, <1>3, <1>4, <2>1, <1>0
    <3>2. QED BY <3>1 DEF IdleRuns
  <2>2. CASE n # 0
    <3>1. stack # <<>> /\ stack' # <<>> /\ stack'[1] = stack[1]
      BY <1>2, <1>4, <1>5, <2>2, <1>0
    <3>2. QED BY <3>1 DEF IdleRuns
  <2>3. QED BY <2>1, <2>2
<1>8. OtherTypes'
  <2>1. hook' \in [Hooks -> HookRecords]
    BY <1>1, <1>2 DEF HookRecords
  <2>2. QED BY <1>1, <1>4, <2>1 DEF OtherTypes
<1>9. /\ \A g \in Hooks: hook'[g].main = hook[g].main /\ hook'[g].list = hook[g].list
      /\ \A g \in Hooks: hook'[g].is_idle_notify = hook[g].is_idle_notify
      /\ \A g \in Hooks \ {h}: hook'[g].is_notifying = hook[g].is_notifying
  BY <1>1, <1>2
<1>10. hook'[h].is_notifying
  BY <1>1, <1>2
<1>11. \A x \in Traps, g \in Hooks: OnHook(x, g)' <=> OnHook(x, g)
  BY <1>9 DEF OnHook
<1>12. PlacesInv'
  BY <1>1, <1>9, <1>11 DEF PlacesInv, Live
<1>13. StackInv'
  <2>0. \A i \in Calls: i # n + 1 /\ i < n + 1
    BY <1>5, <1>6
  <2>1. \A i \in Calls: stack'[i] = stack[i] /\ i # n + 1
    BY <1>4, <1>6, <2>0
  <2>2. \A i \in Calls': i < Len(stack') => stack'[i].stage \in Calling
    BY <1>4, <1>6, <2>0, <2>1
  <2>3. \A i \in DOMAIN stack': i \notin Calls' => i = 1
    BY <1>5, <1>6 DEF StackInv
  <2>4. ASSUME NEW i \in Calls PROVE FrameKept(stack[i])'
    <3> PICK k: k = stack[i]
      OBVIOUS
    <3>1. FrameKept(k) /\ stack'[i] = k /\ k.hook \in Hooks /\ k.at \in Traps \cup {NULL}
      BY <2>1, FrameIs DEF StackInv
    <3>2. FrameKept(k)'
      BY <1>1, <1>9, <1>11, <3>1 DEF FrameKept, Live, Calling
    <3>3. QED BY <3>1, <3>2 DEF FrameKept
  <2>5. FrameKept(stack[n + 1])'
    <3> PICK k: k = stack'[n + 1]
      OBVIOUS
    <3>1. k.stage = "main" /\ k.at = NULL
      BY <1>3, <1>4
    <3>2. FrameKept(k)'
      BY <3>1 DEF FrameKept, Calling
    <3>3. QED BY <3>2 DEF FrameKept
  <2>6. \A i \in Calls': FrameKept(stack[i])' /\ hook'[stack'[i].hook].is_notifying
    <3>1. \A i \in Calls: hook'[stack'[i].hook].is_notifying
      BY <1>9, <1>10, <2>1, FrameIs DEF StackInv
    <3>2. hook'[stack'[n + 1].hook].is_notifying
      BY <1>3, <1>4, <1>10
    <3>3. QED BY <1>6, <2>4, <2>5, <3>1, <3>2
  <2>7. \A i, j \in Calls': i # j => stack'[i].hook # stack'[j].hook
    <3>1. \A i \in Calls: stack'[i].hook # h
      BY <2>1 DEF StackInv
    <3>2. \A i, j \in Calls: i # j => stack'[i].hook # stack'[j].hook
      BY <2>1 DEF StackInv
    <3>3. QED BY <1>3, <1>4, <1>6, <3>1, <3>2
  <2>12. \A i, j \in Calls': i # j /\ stack'[i].at # NULL => stack'[i].at # stack'[j].at
    <3>1. \A i, j \in Calls: i # j /\ stack'[i].at # NULL => stack'[i].at # stack'[j].at
      BY <2>1 DEF StackInv
    <3>2. stack'[n + 1].at = NULL
      BY <1>3, <1>4
    <3>3. QED BY <1>6, <3>1, <3>2
  <2>8. \A g \in Hooks: hook'[g].is_notifying => \E i \in Calls': stack'[i].hook = g
    <3> SUFFICES ASSUME NEW g \in Hooks, hook'[g].is_notifying
                 PROVE  \E i \in Calls': stack'[i].hook = g
      OBVIOUS
    <3>1. CASE g = h
      BY <1>3, <1>4, <1>6, <3>1
    <3>2. CASE g # h
      BY <1>6, <1>9, <2>1, <3>2 DEF StackInv
    <3>3. QED BY <3>1, <3>2
  <2>9. \A i \in Calls': FrameKept(stack[i])'
    BY <2>6
  <2>10. \A i \in Calls': hook'[stack'[i].hook].is_notifying
    BY <2>6
  <2>13. QED BY ONLY <2>2, <2>3, <2>7, <2>8, <2>9, <2>10, <2>12, StackPartsNext
<1>14. \A g \in Hooks: Counted(g)' = Counted(g)
  <2>1. \A i \in Calls: \A g, x: Drops(i, g, x)' <=> Drops(i, g, x)
    <3>1. \A i \in Calls: stack'[i] = stack[i]
      BY <1>4, <1>6
    <3>2. QED BY <3>1 DEF Drops
  <2>2. \A g, x: ~Drops(n + 1, g, x)'
    BY <1>3, <1>4 DEF Drops
  <2>3. \A g, x: (\E i \in Calls': Drops(i, g, x)') <=> \E i \in Calls: Drops(i, g, x)
    BY <1>6, <2>1, <2>2
  <2>4. \A g \in Hooks: \A x: x \in Counted(g)' <=> x \in Counted(g)
    BY <1>1, <1>8, <1>11, <2>3, CountedIs, CountedIsNext DEF Live
  <2>5. QED BY ONLY <2>4
<1>15. \A g \in Hooks: hook'[g].is_idle_notify = hook[g].is_idle_notify
  BY <1>9
<1>16. QED BY <1>7, <1>8, <1>12, <1>13, <1>14, <1>15

(* dsk_hook_notify from the program keeps the invariant. *)
LEMMA NotifyKeeps ==
  ASSUME HookInv, NEW h \in Hooks, Notify(h)
  PROVE  HookInv'
<1> OtherTypes /\ PlacesInv /\ StackInv /\ CountsKept /\ DestroyedOnce
  BY InvParts
<1>1. /\ CanCall /\ Called /\ ~hook[h].is_notifying /\ StartNotify(h)
      /\ UNCHANGED <<trap, countVars, destroyed>>
  BY DEF Notify
<1>2. calls' \in 0..MaxCalls
  BY <1>1, BoundsAssumption DEF OtherTypes, CanCall, Called
<1>3. \A i \in Calls: stack[i].stage \in Calling
  BY <1>1, CalledBack
<1>4. /\ OtherTypes' /\ PlacesInv' /\ StackInv' /\ IdleRuns' = IdleRuns
      /\ \A g \in Hooks: hook'[g].is_idle_notify = hook[g].is_idle_notify
      /\ \A g \in Hooks: Counted(g)' = Counted(g)
  BY <1>1, <1>2, <1>3, StartKeeps
<1>5. CountsKept'
  BY <1>1, <1>4, CountsSame
<1>6. DestroyedOnce'
  BY <1>1 DEF DestroyedOnce
<1>7. QED BY <1>4, <1>5, <1>6, InvPartsNext

-----------------------------------------------------------------------------
(* The steps of dsk_hook_notify: the innermost call goes on. *)

(* The topmost frame, while no idle pass is at hand. *)
LEMMA TopFrame ==
  ASSUME OtherTypes, StackInv, NEW s, At(s), s # "idle"
  PROVE  /\ Len(stack) \in Calls /\ Top = stack[Len(stack)] /\ Top.stage = s
         /\ Top \in Frames /\ Top.hook \in Hooks /\ Top.at \in Traps \cup {NULL}
         /\ Top = [stage |-> s, hook |-> Top.hook, at |-> Top.at]
         /\ FrameKept(Top) /\ hook[Top.hook].is_notifying
<1> DEFINE n == Len(stack)
<1>1. stack # <<>> /\ Top.stage = s
  BY DEF At
<1>2. n \in Nat /\ DOMAIN stack = 1..n /\ stack \in Seq(Frames)
  BY FrameIs DEF OtherTypes
<1>3. n \in DOMAIN stack /\ Top = stack[n]
  <2>1. n >= 1 /\ Last(stack) = stack[n]
    BY <1>1, <1>2, FrontIs
  <2>2. QED BY <1>2, <2>1 DEF Top
<1>4. n \in Calls
  BY <1>1, <1>3 DEF Calls
<1>5. QED BY <1>1, <1>3, <1>4, FrameIs DEF StackInv

(* The calls below the innermost one. *)
LEMMA OtherFrames ==
  ASSUME OtherTypes, PlacesInv, StackInv, NEW s, At(s), s # "idle", NEW i \in Calls \ {Len(stack)}
  PROVE  /\ stack[i].stage \in Calling /\ FrameKept(stack[i])
         /\ stack[i].hook \in Hooks /\ stack[i].at \in Traps
         /\ stack[i].hook # Top.hook /\ stack[i].at # Top.at
         /\ \A x \in Traps: OnHook(x, Top.hook) => stack[i].at # x
<1>1. Len(stack) \in Calls /\ Top = stack[Len(stack)] /\ Top.hook \in Hooks
  BY TopFrame
<1>2. /\ i \in Calls /\ i # Len(stack) /\ i < Len(stack)
      /\ stack[i].hook \in Hooks /\ stack[i].at \in Traps \cup {NULL}
  <2>1. Len(stack) \in Nat /\ i \in 1..Len(stack) /\ i # Len(stack)
    BY FrameIs
  <2>2. i < Len(stack)
    BY <2>1
  <2>3. QED BY <2>2, FrameIs
<1>3. stack[i].stage \in Calling /\ FrameKept(stack[i])
  BY <1>2 DEF StackInv
<1>4. stack[i].hook # Top.hook
  BY <1>1, <1>2 DEF StackInv
<1>5. stack[i].at # NULL
  BY <1>3 DEF FrameKept
<1>6. stack[i].at # Top.at
  BY <1>1, <1>2, <1>5 DEF StackInv
<1>7. ASSUME NEW x \in Traps, OnHook(x, Top.hook), stack[i].at = x PROVE FALSE
  <2> PICK f: f = stack[i]
    OBVIOUS
  <2>1. f.stage \in Calling /\ FrameKept(f) /\ f.hook \in Hooks /\ f.at = x
    BY <1>2, <1>3, <1>7
  <2>2. OnHook(x, f.hook) \/ \A g \in Hooks: ~OnHook(x, g)
    BY <2>1 DEF FrameKept, Calling, OnHook
  <2>3. QED BY <1>1, <1>4, <1>7, <2>1, <2>2 DEF PlacesInv
<1>8. QED BY <1>2, <1>3, <1>4, <1>5, <1>6, <1>7

(* A frame below the topmost one is not disturbed by a step on another trap. *)
LEMMA OtherFrameKept ==
  ASSUME NEW f, FrameKept(f), f.stage \in Calling, f.hook \in Hooks, f.at \in Traps,
         hook'[f.hook].main = hook[f.hook].main, hook'[f.hook].list = hook[f.hook].list,
         trap'[f.at] = trap[f.at], \A g \in Hooks: OnHook(f.at, g)' => OnHook(f.at, g)
  PROVE  FrameKept(f)'
BY DEF FrameKept, Live, Calling

(* The innermost call goes on, and changes no more than its own hook and *)
(* the traps of it. *)
LEMMA StepKeepsStack ==
  ASSUME OtherTypes, PlacesInv, StackInv, OtherTypes', NEW s, At(s), s # "idle",
         NEW f \in Frames, SetTop(f), f.stage # "idle", f.hook = Top.hook, FrameKept(f)',
         f.at = NULL \/ f.at = Top.at \/ (f.at \in Traps /\ OnHook(f.at, Top.hook)),
         \A g \in Hooks: hook'[g].is_notifying = hook[g].is_notifying,
         \A g \in Hooks \ {Top.hook}: hook'[g].main = hook[g].main /\ hook'[g].list = hook[g].list,
         \A x \in Traps: trap'[x] = trap[x] \/ x = Top.at \/ OnHook(x, Top.hook),
         \A x \in Traps, g \in Hooks: OnHook(x, g)' => OnHook(x, g)
  PROVE  /\ StackInv' /\ IdleRuns' = IdleRuns
         /\ \A g, x: x \in Counted(g) <=>
              /\ x \in Traps /\ trap[x].block_count = 0
              /\ \/ OnHook(x, g) /\ Live(x)
                 \/ Top.stage = "drop_main" /\ g = Top.hook /\ x = Top.at
                 \/ \E i \in Calls \ {Len(stack)}: Drops(i, g, x)
         /\ \A g, x: x \in Counted(g)' <=>
              /\ x \in Traps /\ trap'[x].block_count = 0
              /\ \/ OnHook(x, g)' /\ Live(x)'
                 \/ f.stage = "drop_main" /\ g = f.hook /\ x = f.at
                 \/ \E i \in Calls \ {Len(stack)}: Drops(i, g, x)
         /\ \A g, x: (\E i \in Calls \ {Len(stack)}: Drops(i, g, x)) =>
              trap'[x] = trap[x] /\ x # Top.at
<1> PICK n: n = Len(stack)
  OBVIOUS
<1>1. /\ Len(stack) \in Calls /\ Top = stack[Len(stack)] /\ Top.stage = s
      /\ Top \in Frames /\ Top.hook \in Hooks /\ Top.at \in Traps \cup {NULL}
  BY TopFrame
<1>2. /\ stack' \in Seq(Frames) /\ Calls' = Calls /\ IdleRuns' = IdleRuns
      /\ stack'[n] = f
      /\ \A i \in Calls \ {n}: stack'[i] = stack[i]
  BY <1>1, TopMoves
<1>3. ASSUME NEW i \in Calls \ {n} PROVE FrameKept(stack[i])' /\ trap'[stack[i].at] = trap[stack[i].at]
  <2> PICK k: k = stack[i]
    OBVIOUS
  <2>1. /\ k.stage \in Calling /\ FrameKept(k) /\ k.hook \in Hooks /\ k.at \in Traps
        /\ k.hook # Top.hook /\ k.at # Top.at /\ ~OnHook(k.at, Top.hook)
    BY OtherFrames
  <2>2. /\ hook'[k.hook].main = hook[k.hook].main /\ hook'[k.hook].list = hook[k.hook].list
        /\ trap'[k.at] = trap[k.at] /\ \A g \in Hooks: OnHook(k.at, g)' => OnHook(k.at, g)
    BY <2>1
  <2>3. FrameKept(k)'
    BY <2>1, <2>2, OtherFrameKept
  <2>4. stack'[i] = k
    BY <1>2
  <2>5. FrameKept(stack[i])'
    BY <2>3, <2>4 DEF FrameKept
  <2>6. QED BY <2>2, <2>5
<1>4. f.at # NULL => \A i \in Calls \ {n}: stack[i].at # f.at
  BY OtherFrames
<1>5. StackInv'
  BY <1>1, <1>3, <1>4, TopMovesKept
<1>6. /\ \A i \in Calls \ {n}: \A g, x: Drops(i, g, x)' <=> Drops(i, g, x)
      /\ \A g, x: Drops(n, g, x)' <=> f.stage = "drop_main" /\ f.hook = g /\ f.at = x
      /\ \A g, x: Drops(n, g, x) <=> Top.stage = "drop_main" /\ Top.hook = g /\ Top.at = x
  BY <1>1, <1>2 DEF Drops
<1>7. /\ \A g, x: (\E i \in Calls': Drops(i, g, x)') <=>
           \/ f.stage = "drop_main" /\ g = f.hook /\ x = f.at
           \/ \E i \in Calls \ {n}: Drops(i, g, x)
      /\ \A g, x: (\E i \in Calls: Drops(i, g, x)) <=>
           \/ Top.stage = "drop_main" /\ g = Top.hook /\ x = Top.at
           \/ \E i \in Calls \ {n}: Drops(i, g, x)
  BY <1>1, <1>2, <1>6
<1>8. \A i \in Calls \ {n}: \A g, x: Drops(i, g, x) => trap'[x] = trap[x] /\ x # Top.at
  BY <1>3, OtherFrames DEF Drops
<1>9. \A g, x: x \in Counted(g) <=>
        /\ x \in Traps /\ trap[x].block_count = 0
        /\ \/ OnHook(x, g) /\ Live(x)
           \/ Top.stage = "drop_main" /\ g = Top.hook /\ x = Top.at
           \/ \E i \in Calls \ {Len(stack)}: Drops(i, g, x)
  BY <1>7, CountedIs
<1>10. \A g, x: x \in Counted(g)' <=>
        /\ x \in Traps /\ trap'[x].block_count = 0
        /\ \/ OnHook(x, g)' /\ Live(x)'
           \/ f.stage = "drop_main" /\ g = f.hook /\ x = f.at
           \/ \E i \in Calls \ {Len(stack)}: Drops(i, g, x)
  BY <1>7, CountedIsNext
<1>11. \A g, x: (\E i \in Calls \ {Len(stack)}: Drops(i, g, x)) =>
         trap'[x] = trap[x] /\ x # Top.at
  BY <1>8
<1>12. QED BY <1>2, <1>5, <1>9, <1>10, <1>11

(* The hooks stay, and what ends is no main trap. *)
LEMMA PlacesStay ==
  ASSUME OtherTypes, PlacesInv, UNCHANGED hook,
         \A x \in Traps: trap'[x].block_count = trap[x].block_count,
         \A x \in Traps: \/ trap'[x].status = trap[x].status
                         \/ trap'[x].status = "ended" /\ \A g \in Hooks: hook[g].main # x
  PROVE  PlacesInv'
<1>1. \A g \in Hooks: hook[g].main \in Traps \cup {NULL}
  BY DEF OtherTypes, HookRecords
<1>2. \A x, g: OnHook(x, g)' <=> OnHook(x, g)
  BY DEF OnHook
<1>3. \A g \in Hooks: /\ Injective(hook'[g].list)
                      /\ hook'[g].main # NULL => hook'[g].main \notin ToSet(hook'[g].list)
  BY DEF PlacesInv
<1>4. \A g \in Hooks: hook'[g].main # NULL => Live(hook[g].main)'
  <2> SUFFICES ASSUME NEW g \in Hooks, hook[g].main # NULL
               PROVE  trap'[hook[g].main].status = "live"
    BY DEF Live
  <2>1. hook[g].main \in Traps /\ trap[hook[g].main].status = "live"
    BY <1>1 DEF PlacesInv, Live
  <2>2. QED BY <2>1
<1>5. \A x \in Traps, h1, h2 \in Hooks: OnHook(x, h1)' /\ OnHook(x, h2)' => h1 = h2
  BY <1>2 DEF PlacesInv
<1>6. \A x \in Traps: trap'[x].status = "new" => trap'[x].block_count = 0 /\ \A h \in Hooks: ~OnHook(x, h)'
  BY <1>2 DEF PlacesInv
<1>7. QED BY <1>3, <1>4, <1>5, <1>6 DEF PlacesInv

(* A callback begins. *)
LEMMA NowNotifying ==
  ASSUME trap \in [Traps -> TrapRecords], NEW r \in Traps,
         trap' = [trap EXCEPT ![r].is_notifying = TRUE]
  PROVE  /\ trap' \in [Traps -> TrapRecords]
         /\ \A x \in Traps: x # r => trap'[x] = trap[x]
         /\ \A x \in Traps: trap'[x].status = trap[x].status
         /\ \A x \in Traps: trap'[x].block_count = trap[x].block_count
         /\ trap'[r].is_notifying
<1> DEFINE t == [trap[r] EXCEPT !.is_notifying = TRUE]
<1>1. /\ t \in TrapRecords /\ t.status = trap[r].status /\ t.block_count = trap[r].block_count
      /\ trap' = [trap EXCEPT ![r] = t]
  BY DEF TrapRecords
<1>2. t.is_notifying
  BY DEF TrapRecords
<1> HIDE DEF t
<1>3. QED BY <1>1, <1>2

(* The step of dsk_hook_notify that calls the main trap keeps
   the invariant. *)
LEMMA CallMainKeeps ==
  ASSUME HookInv, CallMain
  PROVE  HookInv'
<1> OtherTypes /\ PlacesInv /\ StackInv /\ CountsKept /\ DestroyedOnce
  BY InvParts
<1>1. At("main") /\ UNCHANGED <<hook, countVars, destroyed, calls>>
  BY DEF CallMain
<1>2. /\ Len(stack) \in Calls /\ Top.hook \in Hooks /\ Top.at = NULL /\ Top.stage = "main"
      /\ Top = [stage |-> "main", hook |-> Top.hook, at |-> Top.at]
  BY <1>1, TopFrame DEF FrameKept
<1> PICK h \in Hooks: h = Top.hook
  BY <1>2
<1> PICK r: r = hook[h].main
  OBVIOUS
<1>3. /\ hook \in [Hooks -> HookRecords] /\ trap \in [Traps -> TrapRecords]
      /\ r \in Traps \cup {NULL} /\ (r # NULL => Live(r) /\ OnHook(r, h))
  BY DEF OtherTypes, HookRecords, PlacesInv, OnHook
<1>4. \A x, g: OnHook(x, g)' <=> OnHook(x, g)
  BY <1>1 DEF OnHook
<1>5. CASE r # NULL /\ trap[r].block_count = 0
  <2> DEFINE f == [stage |-> "in_main", hook |-> h, at |-> r]
  <2>1. trap' = [trap EXCEPT ![r].is_notifying = TRUE] /\ SetTop(f)
    BY <1>5 DEF CallMain
  <2>2. f \in Frames /\ f.stage = "in_main" /\ f.hook = h /\ f.at = r
    BY <1>3, <1>5 DEF Frames, Stages
  <2> HIDE DEF f
  <2>3. /\ trap' \in [Traps -> TrapRecords]
        /\ \A x \in Traps: x # r => trap'[x] = trap[x]
        /\ \A x \in Traps: trap'[x].status = trap[x].status
        /\ \A x \in Traps: trap'[x].block_count = trap[x].block_count
        /\ trap'[r].is_notifying
    BY <1>3, <1>5, <2>1, NowNotifying
  <2>4. OtherTypes'
    <3>1. stack' \in Seq(Frames)
      BY <1>2, <2>1, <2>2, TopMoves
    <3>2. QED BY <1>1, <2>3, <3>1 DEF OtherTypes
  <2>5. FrameKept(f)'
    BY <1>1, <1>3, <1>5, <2>2, <2>3 DEF FrameKept, Calling, Live
  <2>6. PlacesInv'
    BY <1>1, <2>3, PlacesStay
  <2>7. StackInv' /\ IdleRuns' = IdleRuns /\ \A g \in Hooks: \A x: x \in Counted(g)' <=> x \in Counted(g)
    BY <1>1, <1>2, <1>3, <1>4, <1>5, <2>1, <2>2, <2>3, <2>4, <2>5, StepKeepsStack DEF Live
  <2>8. \A g \in Hooks: Counted(g)' = Counted(g)
    BY ONLY <2>7
  <2>9. CountsKept'
    BY <1>1, <2>7, <2>8, CountsSame
  <2>10. DestroyedOnce'
    BY <1>1, <2>3 DEF DestroyedOnce
  <2>11. QED BY <2>4, <2>6, <2>7, <2>9, <2>10, InvPartsNext
<1>6. CASE ~(r # NULL /\ trap[r].block_count = 0)
  <2> DEFINE f == [stage |-> "list", hook |-> h, at |-> NULL]
  <2>1. trap' = trap /\ SetTop([Top EXCEPT !.stage = "list"])
    BY <1>6 DEF CallMain
  <2>2. f = [Top EXCEPT !.stage = "list"]
    BY <1>2
  <2>3. SetTop(f) /\ f \in Frames /\ f.stage = "list" /\ f.hook = h /\ f.at = NULL
    BY <2>1, <2>2 DEF Frames, Stages
  <2> HIDE DEF f
  <2>4. OtherTypes'
    <3>1. stack' \in Seq(Frames)
      BY <1>2, <2>3, TopMoves
    <3>2. QED BY <1>1, <2>1, <3>1 DEF OtherTypes
  <2>5. FrameKept(f)'
    BY <2>3 DEF FrameKept, Calling
  <2>6. PlacesInv'
    BY <1>1, <1>4, <2>1 DEF PlacesInv, Live
  <2>7. StackInv' /\ IdleRuns' = IdleRuns /\ \A g \in Hooks: \A x: x \in Counted(g)' <=> x \in Counted(g)
    BY <1>1, <1>2, <1>4, <2>1, <2>3, <2>4, <2>5, StepKeepsStack DEF Live
  <2>8. \A g \in Hooks: Counted(g)' = Counted(g)
    BY ONLY <2>7
  <2>9. CountsKept'
    BY <1>1, <2>7, <2>8, CountsSame
  <2>10. DestroyedOnce'
    BY <1>1, <2>1 DEF DestroyedOnce
  <2>11. QED BY <2>4, <2>6, <2>7, <2>9, <2>10, InvPartsNext
<1>7. QED BY <1>5, <1>6

(* The return from the callback of the main trap keeps
   the invariant. *)
LEMMA MainReturnsKeeps ==
  ASSUME HookInv, Careful, NEW again, MainReturns(again)
  PROVE  HookInv'
<1> OtherTypes /\ PlacesInv /\ StackInv /\ CountsKept /\ DestroyedOnce
  BY InvParts
<1>1. At("in_main") /\ UNCHANGED <<countVars, calls>>
  BY DEF MainReturns
<1>2. /\ Len(stack) \in Calls /\ Top.hook \in Hooks /\ Top.at \in Traps /\ Top.stage = "in_main"
      /\ Top = [stage |-> "in_main", hook |-> Top.hook, at |-> Top.at]
      /\ Top.at = hook[Top.hook].main /\ Live(Top.at)
  BY <1>1, TopFrame DEF FrameKept, Calling
<1> PICK h \in Hooks, r \in Traps: h = Top.hook /\ r = Top.at
  BY <1>2
<1>3. /\ hook \in [Hooks -> HookRecords] /\ trap \in [Traps -> TrapRecords]
      /\ r = hook[h].main /\ r \in Traps /\ Live(r) /\ OnHook(r, h) /\ r # NULL
      /\ \A g \in Hooks: OnHook(r, g) => g = h
      /\ r \notin ToSet(hook[h].list)
  BY <1>2, NullAssumption DEF OtherTypes, PlacesInv, OnHook
<1>4. CASE Ends(r, again)
  <2> DEFINE f == [stage |-> "drop_main", hook |-> h, at |-> r]
  <2>1. /\ MayEnd(h, r) /\ trap' = [trap EXCEPT ![r].status = "ended"]
        /\ hook' = [hook EXCEPT ![h].main = NULL] /\ destroyed' = Destroyed({r})
        /\ SetTop([Top EXCEPT !.stage = "drop_main"])
    BY <1>4 DEF MainReturns
  <2>2. f = [Top EXCEPT !.stage = "drop_main"]
    BY <1>2
  <2>3. SetTop(f) /\ f \in Frames /\ f.stage = "drop_main" /\ f.hook = h /\ f.at = r
    BY <2>1, <2>2 DEF Frames, Stages
  <2> HIDE DEF f
  <2>4. trap[r].block_count = 0
    BY <2>1 DEF MayEnd
  <2>5. /\ trap' \in [Traps -> TrapRecords]
        /\ \A x \in Traps: x # r => trap'[x] = trap[x]
        /\ \A x \in Traps: trap'[x].block_count = trap[x].block_count
        /\ trap'[r].status = "ended" /\ trap[r].status = "live"
    BY <1>3, <2>1 DEF TrapRecords, Live
  <2>6. /\ hook' \in [Hooks -> HookRecords]
        /\ \A g \in Hooks \ {h}: hook'[g] = hook[g]
        /\ \A g \in Hooks: /\ hook'[g].is_notifying = hook[g].is_notifying
                           /\ hook'[g].is_idle_notify = hook[g].is_idle_notify
                           /\ hook'[g].list = hook[g].list
        /\ hook'[h].main = NULL
    BY ZenonT(60), <1>3, <2>1 DEF HookRecords
  <2>7. \A x \in Traps, g \in Hooks: OnHook(x, g)' <=> OnHook(x, g) /\ x # r
    BY <1>3, <2>6, NullAssumption DEF OnHook
  <2>8. destroyed' \in [Traps -> Nat] /\ DestroyedOnce'
    <3>1. \A x \in Traps: trap'[x].status = "ended" <=> x \in {r} \/ trap[x].status = "ended"
      BY <2>5
    <3>2. QED BY ZenonT(60), <2>1, <2>5, <3>1, DestroyedIs
  <2>9. OtherTypes'
    <3>1. stack' \in Seq(Frames)
      BY <1>2, <2>3, TopMoves
    <3>2. QED BY <1>1, <2>5, <2>6, <2>8, <3>1 DEF OtherTypes
  <2>10. FrameKept(f)'
    BY <1>3, <2>3, <2>4, <2>5, <2>7 DEF FrameKept, Calling
  <2>11. PlacesInv'
    <3>1. \A g \in Hooks: /\ hook'[g].list = hook[g].list
                          /\ hook'[g].main = hook[g].main \/ hook'[g].main = NULL
                          /\ hook'[g].main # r
      <4>1. \A g \in Hooks: hook[g].main = r => g = h
        BY <1>3 DEF OnHook
      <4>2. QED BY <1>3, <2>6, <4>1
    <3>2. \A g \in Hooks: hook[g].main \in Traps \cup {NULL}
      BY <1>3 DEF HookRecords
    <3>3. \A g \in Hooks: /\ Injective(hook'[g].list)
                          /\ hook'[g].main # NULL => hook'[g].main \notin ToSet(hook'[g].list)
      BY <3>1 DEF PlacesInv
    <3>4. \A g \in Hooks: hook'[g].main # NULL => trap'[hook'[g].main].status = "live"
      <4> SUFFICES ASSUME NEW g \in Hooks, hook'[g].main # NULL
                   PROVE  trap'[hook'[g].main].status = "live"
        OBVIOUS
      <4>1. hook'[g].main = hook[g].main /\ hook[g].main \in Traps /\ hook[g].main # r
        BY <3>1, <3>2
      <4>2. trap[hook[g].main].status = "live"
        BY <4>1 DEF PlacesInv, Live
      <4>3. QED BY <2>5, <4>1, <4>2
    <3>5. \A x \in Traps, h1, h2 \in Hooks: OnHook(x, h1)' /\ OnHook(x, h2)' => h1 = h2
      BY <2>7 DEF PlacesInv
    <3>6. \A x \in Traps: trap'[x].status = "new" => trap'[x].block_count = 0 /\ \A g \in Hooks: ~OnHook(x, g)'
      BY <2>5, <2>7 DEF PlacesInv
    <3>7. QED BY <3>3, <3>4, <3>5, <3>6 DEF PlacesInv, Live
  <2>12. /\ StackInv' /\ IdleRuns' = IdleRuns
         /\ \A g \in Hooks: \A x: x \in Counted(g)' <=> x \in Counted(g)
    <3>1. /\ StackInv' /\ IdleRuns' = IdleRuns
          /\ \A g, x: x \in Counted(g) <=>
              /\ x \in Traps /\ trap[x].block_count = 0
              /\ \/ OnHook(x, g) /\ Live(x)
                 \/ Top.stage = "drop_main" /\ g = Top.hook /\ x = Top.at
                 \/ \E i \in Calls \ {Len(stack)}: Drops(i, g, x)
          /\ \A g, x: x \in Counted(g)' <=>
              /\ x \in Traps /\ trap'[x].block_count = 0
              /\ \/ OnHook(x, g)' /\ Live(x)'
                 \/ f.stage = "drop_main" /\ g = f.hook /\ x = f.at
                 \/ \E i \in Calls \ {Len(stack)}: Drops(i, g, x)
          /\ \A g, x: (\E i \in Calls \ {Len(stack)}: Drops(i, g, x)) =>
                trap'[x] = trap[x] /\ x # Top.at
      BY <1>1, <1>2, <1>3, <2>3, <2>5, <2>6, <2>7, <2>9, <2>10, StepKeepsStack
    <3>2. QED BY <1>2, <1>3, <2>3, <2>4, <2>5, <2>7, <3>1 DEF Live
  <2>13. \A g \in Hooks: Counted(g)' = Counted(g)
    BY ONLY <2>12
  <2>14. CountsKept'
    BY <1>1, <2>6, <2>12, <2>13, CountsSame
  <2>15. QED BY <2>8, <2>9, <2>11, <2>12, <2>14, InvPartsNext
<1>5. CASE ~Ends(r, again)
  <2> DEFINE f == [stage |-> "list", hook |-> h, at |-> NULL]
  <2>1. /\ trap' = [trap EXCEPT ![r].is_notifying = FALSE]
        /\ SetTop([Top EXCEPT !.stage = "list", !.at = NULL]) /\ UNCHANGED <<hook, destroyed>>
    BY <1>5 DEF MainReturns
  <2>2. f = [Top EXCEPT !.stage = "list", !.at = NULL]
    <3>1. Top = [stage |-> "in_main", hook |-> h, at |-> r]
      BY <1>2
    <3> DEFINE u == [Top EXCEPT !.stage = "list"]
    <3>2. u = [stage |-> "list", hook |-> h, at |-> r]
      BY ONLY <3>1
    <3>3. [Top EXCEPT !.stage = "list", !.at = NULL] = [u EXCEPT !.at = NULL]
      BY ONLY TRUE DEF u
    <3> HIDE DEF u
    <3>4. [u EXCEPT !.at = NULL] = [stage |-> "list", hook |-> h, at |-> NULL]
      BY ONLY <3>2
    <3>5. QED BY ONLY <3>3, <3>4 DEF f
  <2>3. SetTop(f) /\ f \in Frames /\ f.stage = "list" /\ f.hook = h /\ f.at = NULL
    BY <2>1, <2>2 DEF Frames, Stages
  <2> HIDE DEF f
  <2>4. /\ trap' \in [Traps -> TrapRecords]
        /\ \A x \in Traps: x # r => trap'[x] = trap[x]
        /\ \A x \in Traps: trap'[x].status = trap[x].status
        /\ \A x \in Traps: trap'[x].block_count = trap[x].block_count
    BY <1>3, <2>1 DEF TrapRecords
  <2>5. OtherTypes'
    <3>1. stack' \in Seq(Frames)
      BY <1>2, <2>3, TopMoves
    <3>2. QED BY <1>1, <2>1, <2>4, <3>1 DEF OtherTypes
  <2>6. \A x, g: OnHook(x, g)' <=> OnHook(x, g)
    BY <2>1 DEF OnHook
  <2>7. FrameKept(f)'
    BY <2>3 DEF FrameKept, Calling
  <2>8. PlacesInv'
    BY <2>1, <2>4, <2>6 DEF PlacesInv, Live
  <2>9. StackInv' /\ IdleRuns' = IdleRuns /\ \A g \in Hooks: \A x: x \in Counted(g)' <=> x \in Counted(g)
    BY <1>1, <1>2, <2>1, <2>3, <2>4, <2>5, <2>6, <2>7, StepKeepsStack DEF Live
  <2>10. \A g \in Hooks: Counted(g)' = Counted(g)
    BY ONLY <2>9
  <2>11. CountsKept'
    BY <1>1, <2>1, <2>9, <2>10, CountsSame
  <2>12. DestroyedOnce'
    BY <2>1, <2>4 DEF DestroyedOnce
  <2>13. QED BY <2>5, <2>8, <2>9, <2>11, <2>12, InvPartsNext
<1>6. QED BY <1>4, <1>5

(* The end of the main trap dropped after its callback keeps
   the invariant. *)
LEMMA MainDroppedKeeps ==
  ASSUME HookInv, MainDropped
  PROVE  HookInv'
<1> OtherTypes /\ PlacesInv /\ StackInv /\ CountsKept /\ DestroyedOnce
  BY InvParts
<1>1. At("drop_main") /\ UNCHANGED <<hook, destroyed, calls>>
  BY DEF MainDropped
<1>2. /\ Len(stack) \in Calls /\ Top.hook \in Hooks /\ Top.at \in Traps /\ Top.stage = "drop_main"
      /\ Top = [stage |-> "drop_main", hook |-> Top.hook, at |-> Top.at]
      /\ trap[Top.at].status = "ended" /\ trap[Top.at].block_count = 0
      /\ \A g \in Hooks: ~OnHook(Top.at, g)
  BY <1>1, TopFrame DEF FrameKept, Calling
<1> PICK h \in Hooks, r \in Traps: h = Top.hook /\ r = Top.at
  BY <1>2
<1> DEFINE f == [stage |-> "list", hook |-> h, at |-> NULL]
<1>3. /\ trap' = [trap EXCEPT ![r].is_notifying = FALSE, ![r].destroy_in_notify = FALSE]
      /\ SetTop([Top EXCEPT !.stage = "list", !.at = NULL]) /\ DecrTrapCount(h)
  BY DEF MainDropped
<1>4. f = [Top EXCEPT !.stage = "list", !.at = NULL]
  <2>1. Top = [stage |-> "drop_main", hook |-> h, at |-> r]
    BY <1>2
  <2> DEFINE u == [Top EXCEPT !.stage = "list"]
  <2>2. u = [stage |-> "list", hook |-> h, at |-> r]
    BY ONLY <2>1
  <2>3. [Top EXCEPT !.stage = "list", !.at = NULL] = [u EXCEPT !.at = NULL]
    BY ONLY TRUE DEF u
  <2> HIDE DEF u
  <2>4. [u EXCEPT !.at = NULL] = [stage |-> "list", hook |-> h, at |-> NULL]
    BY ONLY <2>2
  <2>5. QED BY ONLY <2>3, <2>4 DEF f
<1>5. SetTop(f) /\ f \in Frames /\ f.stage = "list" /\ f.hook = h /\ f.at = NULL
  BY <1>3, <1>4 DEF Frames, Stages
<1> HIDE DEF f
<1>6. hook \in [Hooks -> HookRecords] /\ trap \in [Traps -> TrapRecords]
  BY DEF OtherTypes
<1>7. /\ trap' \in [Traps -> TrapRecords]
      /\ \A x \in Traps: x # r => trap'[x] = trap[x]
      /\ \A x \in Traps: trap'[x].status = trap[x].status
      /\ \A x \in Traps: trap'[x].block_count = trap[x].block_count
  <2> DEFINE t == [trap[r] EXCEPT !.is_notifying = FALSE, !.destroy_in_notify = FALSE]
  <2>1. /\ t \in TrapRecords /\ t.status = trap[r].status /\ t.block_count = trap[r].block_count
        /\ trap' = [trap EXCEPT ![r] = t]
    BY <1>3, <1>6 DEF TrapRecords
  <2> HIDE DEF t
  <2>2. QED BY <1>6, <2>1
<1>8. OtherTypes'
  <2>1. stack' \in Seq(Frames)
    BY <1>2, <1>5, TopMoves
  <2>2. QED BY <1>1, <1>7, <2>1 DEF OtherTypes
<1>9. \A x, g: OnHook(x, g)' <=> OnHook(x, g)
  BY <1>1 DEF OnHook
<1>10. FrameKept(f)'
  BY <1>5 DEF FrameKept, Calling
<1>11. PlacesInv'
  BY <1>1, <1>7, PlacesStay
<1>12. /\ StackInv' /\ IdleRuns' = IdleRuns
       /\ \A g \in Hooks: \A x: x \in Counted(g)' <=> x \in Counted(g) /\ ~(g = h /\ x = r)
       /\ r \in Counted(h)
  <2>1. /\ StackInv' /\ IdleRuns' = IdleRuns
        /\ \A g, x: x \in Counted(g) <=>
            /\ x \in Traps /\ trap[x].block_count = 0
            /\ \/ OnHook(x, g) /\ Live(x)
               \/ Top.stage = "drop_main" /\ g = Top.hook /\ x = Top.at
               \/ \E i \in Calls \ {Len(stack)}: Drops(i, g, x)
        /\ \A g, x: x \in Counted(g)' <=>
            /\ x \in Traps /\ trap'[x].block_count = 0
            /\ \/ OnHook(x, g)' /\ Live(x)'
               \/ f.stage = "drop_main" /\ g = f.hook /\ x = f.at
               \/ \E i \in Calls \ {Len(stack)}: Drops(i, g, x)
        /\ \A g, x: (\E i \in Calls \ {Len(stack)}: Drops(i, g, x)) =>
              trap'[x] = trap[x] /\ x # Top.at
    BY <1>1, <1>2, <1>5, <1>7, <1>8, <1>9, <1>10, StepKeepsStack
  <2>2. QED BY <1>2, <1>5, <1>7, <1>9, <2>1 DEF Live
<1>13. Counted(h)' = Counted(h) \ {r} /\ \A g \in Hooks \ {h}: Counted(g)' = Counted(g)
  <2>1. \A x: x \in Counted(h)' <=> x \in Counted(h) \ {r}
    BY <1>12
  <2>2. \A g \in Hooks \ {h}: \A x: x \in Counted(g)' <=> x \in Counted(g)
    BY <1>12
  <2>3. QED BY ONLY <2>1, <2>2
<1>14. hook[h].is_idle_notify \in BOOLEAN
  BY <1>6 DEF HookRecords
<1>15. CountsKept'
  BY <1>1, <1>3, <1>12, <1>13, <1>14, CountsDown
<1>16. DestroyedOnce'
  BY <1>1, <1>7 DEF DestroyedOnce
<1>17. QED BY <1>8, <1>11, <1>12, <1>15, <1>16, InvPartsNext

(* The traps of a list that ended are not behind the one at hand. *)
Before(list, a, b) == \E j, k \in DOMAIN list: j <= k /\ list[j] = a /\ list[k] = b

(* An ended trap is still on a list only while a notification of that hook goes
   through it, and never behind the trap at hand: that one is live. *)
EndedInv ==
  \A h \in Hooks: \A x \in ToSet(hook[h].list):
    ~Live(x) => \E i \in Calls: stack[i].hook = h /\ Before(hook[h].list, x, stack[i].at)

(* The first trap behind the one at hand comes after it, and after all before it. *)
LEMMA BehindOnes ==
  ASSUME NEW list \in Seq(Traps), Injective(list), NEW r \in Traps \cup {NULL},
         r = NULL \/ r \in ToSet(list), Behind(list, r) # <<>>
  PROVE  /\ Head(Behind(list, r)) \in ToSet(list)
         /\ Before(list, Head(Behind(list, r)), Head(Behind(list, r)))
         /\ r # NULL => ~Before(list, Head(Behind(list, r)), r)
         /\ \A x: Before(list, x, r) /\ r # NULL => Before(list, x, Head(Behind(list, r)))
<1>1. CASE r = NULL
  <2>1. Behind(list, r) = list /\ Head(list) = list[1] /\ 1 \in DOMAIN list
    BY <1>1 DEF Behind
  <2>2. QED BY <1>1, <2>1 DEF Before, ToSet
<1>2. CASE r # NULL
  <2> DEFINE k == Index(list, r)
             behind == Behind(list, r)
  <2>1. k \in 1..Len(list) /\ list[k] = r
    BY <1>2 DEF ToSet, Index
  <2>2. behind = SubSeq(list, k + 1, Len(list))
    BY <1>2 DEF Behind
  <2> HIDE DEF k, behind
  <2>3. /\ behind \in Seq(Traps) /\ Len(behind) = Len(list) - k
        /\ \A i \in 1..(Len(list) - k): behind[i] = list[i + k]
    BY <2>1, <2>2
  <2>4. behind # <<>>
    BY DEF behind
  <2>5. Head(behind) = behind[1] /\ 1 \in 1..(Len(list) - k)
    BY <2>1, <2>3, <2>4
  <2>6. /\ Head(behind) = list[k + 1] /\ k + 1 \in DOMAIN list /\ k \in DOMAIN list
        /\ k \in Nat /\ DOMAIN list = 1..Len(list) /\ Len(list) \in Nat
    BY <2>1, <2>3, <2>5
  <2>7. \A i, j \in DOMAIN list: list[i] = list[j] => i = j
    BY DEF Injective
  <2>8. Head(behind) \in ToSet(list) /\ Before(list, Head(behind), Head(behind))
    BY <2>6 DEF Before, ToSet
  <2>9. ~Before(list, Head(behind), r)
    BY <2>1, <2>6, <2>7 DEF Before
  <2>10. ASSUME NEW x, Before(list, x, r) PROVE Before(list, x, Head(behind))
    <3>1. PICK i, j \in DOMAIN list: i <= j /\ list[i] = x /\ list[j] = r
      BY <2>10 DEF Before
    <3>2. j = k
      BY <2>1, <2>6, <2>7, <3>1
    <3>3. i <= k + 1
      BY <2>6, <3>1, <3>2
    <3>4. QED BY <2>6, <3>1, <3>3 DEF Before
  <2>11. QED BY <2>8, <2>9, <2>10 DEF behind
<1>3. QED BY <1>1, <1>2

(* The step of dsk_hook_notify that calls the next trap of the list keeps
   the invariant. *)
LEMMA CallNextKeeps ==
  ASSUME HookInv, EndedInv, CallNext
  PROVE  /\ HookInv'
         /\ EndedInv'
<1> OtherTypes /\ PlacesInv /\ StackInv /\ CountsKept /\ DestroyedOnce
  BY InvParts
<1>1. At("list") /\ UNCHANGED <<hook, countVars, destroyed, calls>>
  BY DEF CallNext
<1>2. /\ Len(stack) \in Calls /\ Top.hook \in Hooks /\ Top.at \in Traps \cup {NULL}
      /\ Top.stage = "list" /\ Top = stack[Len(stack)]
      /\ Top = [stage |-> "list", hook |-> Top.hook, at |-> Top.at]
      /\ Top.at = NULL \/ Top.at \in ToSet(hook[Top.hook].list)
  BY <1>1, TopFrame DEF FrameKept, Calling
<1> PICK h \in Hooks: h = Top.hook
  BY <1>2
<1> PICK a \in Traps \cup {NULL}: a = Top.at
  BY <1>2
<1> PICK list: list = hook[h].list
  OBVIOUS
<1>3. /\ hook \in [Hooks -> HookRecords] /\ trap \in [Traps -> TrapRecords]
      /\ list \in Seq(Traps) /\ Injective(list)
      /\ a = NULL \/ a \in ToSet(list)
  BY <1>2 DEF OtherTypes, HookRecords, PlacesInv
<1> PICK r: r = Head(Behind(list, a))
  OBVIOUS
<1>4. /\ Behind(list, a) # <<>>
      /\ trap' = [trap EXCEPT ![r].is_notifying = TRUE]
      /\ SetTop([Top EXCEPT !.stage = "in_list", !.at = r])
  BY DEF CallNext
<1>5. /\ r \in ToSet(list) /\ Before(list, r, r)
      /\ a # NULL => ~Before(list, r, a)
      /\ \A x: Before(list, x, a) /\ a # NULL => Before(list, x, r)
  BY <1>3, <1>4, BehindOnes
<1>6. r \in Traps /\ OnHook(r, h) /\ r # NULL
  BY <1>3, <1>5, NullAssumption DEF OnHook, ToSet
<1>7. ASSUME NEW x \in ToSet(list), ~Live(x) PROVE a # NULL /\ Before(list, x, a)
  <2>1. PICK i \in Calls: stack[i].hook = h /\ Before(list, x, stack[i].at)
    BY <1>7 DEF EndedInv
  <2>2. i = Len(stack)
    BY <1>2, <2>1 DEF StackInv
  <2>3. Before(list, x, a)
    BY <1>2, <2>1, <2>2
  <2>4. a # NULL
    BY <1>3, <2>3, NullAssumption DEF Before
  <2>5. QED BY <2>3, <2>4
<1>8. Live(r)
  BY <1>5, <1>7
<1> DEFINE f == [stage |-> "in_list", hook |-> h, at |-> r]
<1>9. f = [Top EXCEPT !.stage = "in_list", !.at = r]
  <2>1. Top = [stage |-> "list", hook |-> h, at |-> a]
    BY <1>2
  <2> DEFINE u == [Top EXCEPT !.stage = "in_list"]
  <2>2. u = [stage |-> "in_list", hook |-> h, at |-> a]
    BY ONLY <2>1
  <2>3. [Top EXCEPT !.stage = "in_list", !.at = r] = [u EXCEPT !.at = r]
    BY ONLY TRUE DEF u
  <2> HIDE DEF u
  <2>4. [u EXCEPT !.at = r] = [stage |-> "in_list", hook |-> h, at |-> r]
    BY ONLY <2>2
  <2>5. QED BY ONLY <2>3, <2>4 DEF f
<1>10. SetTop(f) /\ f \in Frames /\ f.stage = "in_list" /\ f.hook = h /\ f.at = r
  BY <1>4, <1>6, <1>9 DEF Frames, Stages
<1> HIDE DEF f
<1>11. /\ trap' \in [Traps -> TrapRecords]
       /\ \A x \in Traps: x # r => trap'[x] = trap[x]
       /\ \A x \in Traps: trap'[x].status = trap[x].status
       /\ \A x \in Traps: trap'[x].block_count = trap[x].block_count
       /\ trap'[r].is_notifying
  BY <1>3, <1>4, <1>6, NowNotifying
<1>12. /\ stack' \in Seq(Frames) /\ Calls' = Calls
       /\ stack'[Len(stack)] = f /\ \A i \in Calls \ {Len(stack)}: stack'[i] = stack[i]
  BY <1>2, <1>10, TopMoves
<1>13. OtherTypes'
  BY <1>1, <1>11, <1>12 DEF OtherTypes
<1>14. \A x, g: OnHook(x, g)' <=> OnHook(x, g)
  BY <1>1 DEF OnHook
<1>15. FrameKept(f)'
  BY <1>1, <1>5, <1>6, <1>8, <1>10, <1>11 DEF FrameKept, Calling, Live
<1>16. PlacesInv'
  BY <1>1, <1>11, PlacesStay
<1>17. StackInv' /\ IdleRuns' = IdleRuns /\ \A g \in Hooks: \A x: x \in Counted(g)' <=> x \in Counted(g)
  <2>1. /\ StackInv' /\ IdleRuns' = IdleRuns
        /\ \A g, x: x \in Counted(g) <=>
             /\ x \in Traps /\ trap[x].block_count = 0
             /\ \/ OnHook(x, g) /\ Live(x)
                \/ Top.stage = "drop_main" /\ g = Top.hook /\ x = Top.at
                \/ \E i \in Calls \ {Len(stack)}: Drops(i, g, x)
        /\ \A g, x: x \in Counted(g)' <=>
             /\ x \in Traps /\ trap'[x].block_count = 0
             /\ \/ OnHook(x, g)' /\ Live(x)'
                \/ f.stage = "drop_main" /\ g = f.hook /\ x = f.at
                \/ \E i \in Calls \ {Len(stack)}: Drops(i, g, x)
    <3>1. /\ At("list") /\ "list" # "idle" /\ f \in Frames /\ SetTop(f) /\ f.stage # "idle"
          /\ f.hook = Top.hook
      BY <1>1, <1>10
    <3>2. f.at \in Traps /\ OnHook(f.at, Top.hook)
      BY <1>6, <1>10
    <3>3. /\ \A g \in Hooks: hook'[g].is_notifying = hook[g].is_notifying
          /\ \A g \in Hooks \ {Top.hook}: hook'[g].main = hook[g].main /\ hook'[g].list = hook[g].list
      BY <1>1
    <3>4. \A x \in Traps: trap'[x] = trap[x] \/ x = Top.at \/ OnHook(x, Top.hook)
      BY <1>6, <1>11
    <3>5. \A x \in Traps, g \in Hooks: OnHook(x, g)' => OnHook(x, g)
      BY <1>14
    <3> HIDE DEF f
    <3>6. OtherTypes /\ PlacesInv /\ StackInv
      OBVIOUS
    <3>7. QED BY ONLY <1>13, <1>15, <3>1, <3>2, <3>3, <3>4, <3>5, <3>6, StepKeepsStack
  <2>2. QED BY <1>2, <1>10, <1>11, <1>14, <2>1 DEF Live
<1>18. \A g \in Hooks: Counted(g)' = Counted(g)
  BY ONLY <1>17
<1>19. CountsKept'
  BY <1>1, <1>17, <1>18, CountsSame
<1>20. DestroyedOnce'
  BY <1>1, <1>11 DEF DestroyedOnce
<1>21. HookInv'
  BY <1>13, <1>16, <1>17, <1>19, <1>20, InvPartsNext
<1>22. EndedInv'
  <2> SUFFICES ASSUME NEW g \in Hooks, NEW x \in ToSet(hook[g].list), trap'[x].status # "live"
               PROVE  \E i \in Calls: stack'[i].hook = g /\ Before(hook[g].list, x, stack'[i].at)
    BY <1>1, <1>12 DEF EndedInv, Live
  <2>1. x \in Traps
    BY <1>3 DEF ToSet, HookRecords
  <2>2. ~Live(x)
    BY <1>11, <2>1 DEF Live
  <2>3. CASE g = h
    <3>1. Before(list, x, r)
      BY <1>5, <1>7, <2>2, <2>3
    <3>2. QED BY <1>2, <1>10, <1>12, <2>3, <3>1
  <2>4. CASE g # h
    <3>1. PICK i \in Calls: stack[i].hook = g /\ Before(hook[g].list, x, stack[i].at)
      BY <2>2 DEF EndedInv
    <3>2. i # Len(stack)
      BY <1>2, <2>4, <3>1
    <3>3. QED BY <1>12, <3>1, <3>2
  <2>5. QED BY <2>3, <2>4
<1>23. QED BY <1>21, <1>22

(* The return from the callback of a trap of the list keeps
   the invariant. *)
LEMMA ListReturnsKeeps ==
  ASSUME HookInv, Careful, NEW again, ListReturns(again)
  PROVE  HookInv'
<1> OtherTypes /\ PlacesInv /\ StackInv /\ CountsKept /\ DestroyedOnce
  BY InvParts
<1>1. At("in_list") /\ UNCHANGED <<hook, calls>>
  BY DEF ListReturns
<1>2. /\ Len(stack) \in Calls /\ Top.hook \in Hooks /\ Top.at \in Traps /\ Top.stage = "in_list"
      /\ Top = [stage |-> "in_list", hook |-> Top.hook, at |-> Top.at]
      /\ Top.at \in ToSet(hook[Top.hook].list) /\ Live(Top.at)
  BY <1>1, TopFrame DEF FrameKept, Calling
<1> PICK h \in Hooks, r \in Traps: h = Top.hook /\ r = Top.at
  BY <1>2
<1>3. /\ hook \in [Hooks -> HookRecords] /\ trap \in [Traps -> TrapRecords]
      /\ r \in ToSet(hook[h].list) /\ r \in Traps /\ Live(r) /\ OnHook(r, h) /\ r # NULL
      /\ \A g \in Hooks: OnHook(r, g) => g = h
      /\ \A g \in Hooks: hook[g].main # r
  BY <1>2, NullAssumption DEF OtherTypes, PlacesInv, OnHook
<1>4. \A x, g: OnHook(x, g)' <=> OnHook(x, g)
  BY <1>1 DEF OnHook
<1>5. CASE Ends(r, again)
  <2> DEFINE f == [stage |-> "drop_list", hook |-> h, at |-> r]
  <2>1. /\ MayEnd(h, r) /\ trap' = [trap EXCEPT ![r].status = "ended"]
        /\ IF trap[r].block_count = 0 THEN DecrTrapCount(h) ELSE UNCHANGED countVars
        /\ r \notin Owns => destroyed' = destroyed
        /\ SetTop([Top EXCEPT !.stage = "drop_list"])
    BY <1>5 DEF ListReturns
  <2>2. f = [Top EXCEPT !.stage = "drop_list"]
    BY <1>2
  <2>3. SetTop(f) /\ f \in Frames /\ f.stage = "drop_list" /\ f.hook = h /\ f.at = r
    BY <2>1, <2>2 DEF Frames, Stages
  <2> HIDE DEF f
  <2>4. trap[r].block_count = 0 /\ DecrTrapCount(h) /\ r \notin Owns /\ destroyed' = destroyed
    BY <1>3, <2>1 DEF MayEnd
  <2>5. /\ trap' \in [Traps -> TrapRecords]
        /\ \A x \in Traps: x # r => trap'[x] = trap[x]
        /\ \A x \in Traps: trap'[x].block_count = trap[x].block_count
        /\ trap'[r].status = "ended" /\ trap[r].status = "live"
    BY <1>3, <2>1 DEF TrapRecords, Live
  <2>6. OtherTypes'
    <3>1. stack' \in Seq(Frames)
      BY <1>2, <2>3, TopMoves
    <3>2. QED BY <1>1, <2>4, <2>5, <3>1 DEF OtherTypes
  <2>7. FrameKept(f)'
    BY <1>1, <1>3, <2>3, <2>5 DEF FrameKept, Calling
  <2>8. PlacesInv'
    BY <1>1, <1>3, <2>5, PlacesStay
  <2>9. /\ StackInv' /\ IdleRuns' = IdleRuns
        /\ \A g \in Hooks: \A x: x \in Counted(g)' <=> x \in Counted(g) /\ ~(g = h /\ x = r)
        /\ r \in Counted(h)
    <3>1. /\ StackInv' /\ IdleRuns' = IdleRuns
          /\ \A g, x: x \in Counted(g) <=>
              /\ x \in Traps /\ trap[x].block_count = 0
              /\ \/ OnHook(x, g) /\ Live(x)
                 \/ Top.stage = "drop_main" /\ g = Top.hook /\ x = Top.at
                 \/ \E i \in Calls \ {Len(stack)}: Drops(i, g, x)
          /\ \A g, x: x \in Counted(g)' <=>
              /\ x \in Traps /\ trap'[x].block_count = 0
              /\ \/ OnHook(x, g)' /\ Live(x)'
                 \/ f.stage = "drop_main" /\ g = f.hook /\ x = f.at
                 \/ \E i \in Calls \ {Len(stack)}: Drops(i, g, x)
          /\ \A g, x: (\E i \in Calls \ {Len(stack)}: Drops(i, g, x)) =>
                trap'[x] = trap[x] /\ x # Top.at
      BY <1>1, <1>2, <1>4, <2>3, <2>5, <2>6, <2>7, StepKeepsStack
    <3>2. QED BY <1>2, <1>3, <1>4, <2>3, <2>4, <2>5, <3>1 DEF Live
  <2>10. Counted(h)' = Counted(h) \ {r} /\ \A g \in Hooks \ {h}: Counted(g)' = Counted(g)
    <3>1. \A x: x \in Counted(h)' <=> x \in Counted(h) \ {r}
      BY <2>9
    <3>2. \A g \in Hooks \ {h}: \A x: x \in Counted(g)' <=> x \in Counted(g)
      BY <2>9
    <3>3. QED BY ONLY <3>1, <3>2
  <2>11. hook[h].is_idle_notify \in BOOLEAN
    BY <1>3 DEF HookRecords
  <2>12. CountsKept'
    BY <1>1, <2>4, <2>9, <2>10, <2>11, CountsDown
  <2>13. DestroyedOnce'
    BY <2>4, <2>5 DEF DestroyedOnce
  <2>14. QED BY <2>6, <2>8, <2>9, <2>12, <2>13, InvPartsNext
<1>6. CASE ~Ends(r, again)
  <2> DEFINE f == [stage |-> "list", hook |-> h, at |-> r]
  <2>1. /\ trap' = [trap EXCEPT ![r].is_notifying = FALSE]
        /\ SetTop([Top EXCEPT !.stage = "list"]) /\ UNCHANGED <<countVars, destroyed>>
    BY <1>6 DEF ListReturns
  <2>2. f = [Top EXCEPT !.stage = "list"]
    BY <1>2
  <2>3. SetTop(f) /\ f \in Frames /\ f.stage = "list" /\ f.hook = h /\ f.at = r
    BY <2>1, <2>2 DEF Frames, Stages
  <2> HIDE DEF f
  <2>4. /\ trap' \in [Traps -> TrapRecords]
        /\ \A x \in Traps: x # r => trap'[x] = trap[x]
        /\ \A x \in Traps: trap'[x].status = trap[x].status
        /\ \A x \in Traps: trap'[x].block_count = trap[x].block_count
    BY ZenonT(60), <1>3, <2>1 DEF TrapRecords
  <2>5. OtherTypes'
    <3>1. stack' \in Seq(Frames)
      BY <1>2, <2>3, TopMoves
    <3>2. QED BY <1>1, <2>1, <2>4, <3>1 DEF OtherTypes
  <2>7. FrameKept(f)'
    BY <1>1, <1>3, <2>3 DEF FrameKept, Calling
  <2>8. PlacesInv'
    BY <1>1, <2>4, PlacesStay
  <2>9. StackInv' /\ IdleRuns' = IdleRuns /\ \A g \in Hooks: \A x: x \in Counted(g)' <=> x \in Counted(g)
    BY <1>1, <1>2, <1>4, <2>1, <2>3, <2>4, <2>5, <2>7, StepKeepsStack DEF Live
  <2>10. \A g \in Hooks: Counted(g)' = Counted(g)
    BY ONLY <2>9
  <2>11. CountsKept'
    BY <1>1, <2>1, <2>9, <2>10, CountsSame
  <2>12. DestroyedOnce'
    BY <2>1, <2>4 DEF DestroyedOnce
  <2>13. QED BY <2>5, <2>8, <2>9, <2>11, <2>12, InvPartsNext
<1>7. QED BY <1>5, <1>6

(* The end of a trap of the list dropped after its callback keeps
   the invariant. *)
LEMMA ListDroppedKeeps ==
  ASSUME HookInv, ListDropped
  PROVE  HookInv'
<1> OtherTypes /\ PlacesInv /\ StackInv /\ CountsKept /\ DestroyedOnce
  BY InvParts
<1>1. At("drop_list") /\ UNCHANGED <<hook, countVars, destroyed, calls>>
  BY DEF ListDropped
<1>2. /\ Len(stack) \in Calls /\ Top.hook \in Hooks /\ Top.at \in Traps /\ Top.stage = "drop_list"
      /\ Top = [stage |-> "drop_list", hook |-> Top.hook, at |-> Top.at]
      /\ Top.at \in ToSet(hook[Top.hook].list)
  BY <1>1, TopFrame DEF FrameKept, Calling
<1> PICK h \in Hooks, r \in Traps: h = Top.hook /\ r = Top.at
  BY <1>2
<1> DEFINE f == [stage |-> "list", hook |-> h, at |-> r]
<1>3. trap' = [trap EXCEPT ![r].is_notifying = FALSE] /\ SetTop([Top EXCEPT !.stage = "list"])
  BY DEF ListDropped
<1>4. f = [Top EXCEPT !.stage = "list"]
  BY <1>2
<1>5. SetTop(f) /\ f \in Frames /\ f.stage = "list" /\ f.hook = h /\ f.at = r
  BY <1>3, <1>4 DEF Frames, Stages
<1> HIDE DEF f
<1>6. /\ trap' \in [Traps -> TrapRecords]
      /\ \A x \in Traps: x # r => trap'[x] = trap[x]
      /\ \A x \in Traps: trap'[x].status = trap[x].status
      /\ \A x \in Traps: trap'[x].block_count = trap[x].block_count
  BY ZenonT(60), <1>3 DEF TrapRecords, OtherTypes
<1>7. OtherTypes'
  <2>1. stack' \in Seq(Frames)
    BY <1>2, <1>5, TopMoves
  <2>2. QED BY <1>1, <1>6, <2>1 DEF OtherTypes
<1>8. \A x, g: OnHook(x, g)' <=> OnHook(x, g)
  BY <1>1 DEF OnHook
<1>9. FrameKept(f)'
  BY <1>1, <1>2, <1>5 DEF FrameKept, Calling
<1>10. PlacesInv'
  BY <1>1, <1>6, PlacesStay
<1>11. StackInv' /\ IdleRuns' = IdleRuns /\ \A g \in Hooks: \A x: x \in Counted(g)' <=> x \in Counted(g)
  BY <1>1, <1>2, <1>5, <1>6, <1>7, <1>8, <1>9, StepKeepsStack DEF Live
<1>12. \A g \in Hooks: Counted(g)' = Counted(g)
  BY ONLY <1>11
<1>13. CountsKept'
  BY <1>1, <1>11, <1>12, CountsSame
<1>14. DestroyedOnce'
  BY <1>1, <1>6 DEF DestroyedOnce
<1>15. QED BY <1>7, <1>10, <1>11, <1>13, <1>14, InvPartsNext

(* The innermost call is over. *)
LEMMA PopKeepsStack ==
  ASSUME OtherTypes, PlacesInv, StackInv, OtherTypes', At("list"), stack' = Front(stack),
         \A g \in Hooks \ {Top.hook}:
           /\ hook'[g].main = hook[g].main /\ hook'[g].list = hook[g].list
           /\ hook'[g].is_notifying = hook[g].is_notifying,
         ~hook'[Top.hook].is_notifying,
         \A x \in Traps: trap'[x] = trap[x] \/ OnHook(x, Top.hook),
         \A x \in Traps, g \in Hooks: OnHook(x, g)' => OnHook(x, g)
  PROVE  /\ StackInv' /\ IdleRuns' = IdleRuns
         /\ \A i \in Calls: i # Len(stack) => i \in Calls' /\ stack'[i] = stack[i]
         /\ \A g, x: x \in Counted(g) <=>
              /\ x \in Traps /\ trap[x].block_count = 0
              /\ \/ OnHook(x, g) /\ Live(x)
                 \/ \E i \in Calls \ {Len(stack)}: Drops(i, g, x)
         /\ \A g, x: x \in Counted(g)' <=>
              /\ x \in Traps /\ trap'[x].block_count = 0
              /\ \/ OnHook(x, g)' /\ Live(x)'
                 \/ \E i \in Calls \ {Len(stack)}: Drops(i, g, x)
         /\ \A g, x: (\E i \in Calls \ {Len(stack)}: Drops(i, g, x)) =>
              trap'[x] = trap[x] /\ g # Top.hook
<1> PICK n: n = Len(stack)
  OBVIOUS
<1>1. /\ n \in Calls /\ Top = stack[n] /\ Top.stage = "list" /\ Top.hook \in Hooks
  BY TopFrame
<1>2. /\ n \in Nat /\ n >= 1 /\ DOMAIN stack = 1..n /\ stack # <<>>
      /\ Len(stack') = n - 1 /\ DOMAIN stack' = 1..(n - 1)
      /\ \A i \in 1..(n - 1): stack'[i] = stack[i]
  <2>1. stack \in Seq(Frames) /\ stack # <<>> /\ n \in Nat /\ DOMAIN stack = 1..n
    BY FrameIs DEF OtherTypes, At
  <2>2. /\ n >= 1 /\ Front(stack) \in Seq(Frames) /\ Len(Front(stack)) = n - 1
        /\ \A i \in 1..(n - 1): Front(stack)[i] = stack[i]
    BY <2>1, FrontIs
  <2>3. QED BY <2>1, <2>2, FrameIsNext
<1>3. Calls' = Calls \ {n} /\ \A i \in Calls \ {n}: stack'[i] = stack[i] /\ i \in 1..(n - 1)
  <2>1. \A i: i \in Calls' <=> i \in Calls \ {n}
    BY <1>2 DEF Calls
  <2>2. \A i \in Calls \ {n}: i \in 1..(n - 1)
    BY <1>2 DEF Calls
  <2>3. QED BY <1>2, <2>1, <2>2
<1>4. IdleRuns' = IdleRuns
  <2>1. CASE n = 1
    <3>1. stack' = <<>> /\ stack[1].stage = "list"
      <4>1. stack' \in Seq(Frames) /\ Len(stack') = 0
        BY <1>2, <2>1 DEF OtherTypes
      <4>2. QED BY <1>1, <2>1, <4>1
    <3>2. QED BY <1>2, <3>1 DEF IdleRuns
  <2>2. CASE n # 1
    <3>1. stack' # <<>> /\ stack'[1] = stack[1]
      BY <1>2, <2>2
    <3>2. QED BY <1>2, <3>1 DEF IdleRuns
  <2>3. QED BY <2>1, <2>2
<1>5. ASSUME NEW i \in Calls \ {n}
      PROVE  /\ FrameKept(stack[i])' /\ trap'[stack[i].at] = trap[stack[i].at]
             /\ stack[i].stage \in Calling /\ hook'[stack[i].hook].is_notifying
             /\ stack[i].hook # Top.hook
  <2> PICK k: k = stack[i]
    OBVIOUS
  <2>1. /\ k.stage \in Calling /\ FrameKept(k) /\ k.hook \in Hooks /\ k.at \in Traps
        /\ k.hook # Top.hook /\ ~OnHook(k.at, Top.hook)
    BY OtherFrames
  <2>2. /\ hook'[k.hook].main = hook[k.hook].main /\ hook'[k.hook].list = hook[k.hook].list
        /\ trap'[k.at] = trap[k.at] /\ \A g \in Hooks: OnHook(k.at, g)' => OnHook(k.at, g)
        /\ hook'[k.hook].is_notifying = hook[k.hook].is_notifying
    BY <2>1
  <2>3. FrameKept(k)'
    BY <2>1, <2>2, OtherFrameKept
  <2>4. stack'[i] = k /\ hook[k.hook].is_notifying
    BY <1>3 DEF StackInv
  <2>5. FrameKept(stack[i])'
    BY <2>3, <2>4 DEF FrameKept
  <2>6. QED BY <2>1, <2>2, <2>4, <2>5
<1>6. StackInv'
  <2>1. \A i \in Calls': i < Len(stack') => stack'[i].stage \in Calling
    BY <1>3, <1>5
  <2>2. \A i \in DOMAIN stack': i \notin Calls' => i = 1
    BY <1>2, <1>3 DEF StackInv
  <2>3. \A i \in Calls': FrameKept(stack[i])'
    BY <1>3, <1>5
  <2>4. \A i \in Calls': hook'[stack'[i].hook].is_notifying
    BY <1>3, <1>5
  <2>5. \A i, j \in Calls': i # j => stack'[i].hook # stack'[j].hook
    BY <1>3 DEF StackInv
  <2>6. \A i, j \in Calls': i # j /\ stack'[i].at # NULL => stack'[i].at # stack'[j].at
    BY <1>3 DEF StackInv
  <2>7. \A g \in Hooks: hook'[g].is_notifying => \E i \in Calls': stack'[i].hook = g
    <3> SUFFICES ASSUME NEW g \in Hooks, hook'[g].is_notifying
                 PROVE  \E i \in Calls': stack'[i].hook = g
      OBVIOUS
    <3>1. g # Top.hook /\ hook[g].is_notifying
      OBVIOUS
    <3>2. PICK i \in Calls: stack[i].hook = g
      BY <3>1 DEF StackInv
    <3>3. QED BY <1>1, <1>3, <3>1, <3>2
  <2>8. QED BY ONLY <2>1, <2>2, <2>3, <2>4, <2>5, <2>6, <2>7, StackPartsNext
<1>7. /\ \A i \in Calls \ {n}: \A g, x: Drops(i, g, x)' <=> Drops(i, g, x)
      /\ \A g, x: ~Drops(n, g, x)
  BY <1>1, <1>3 DEF Drops
<1>8. /\ \A g, x: (\E i \in Calls': Drops(i, g, x)') <=> \E i \in Calls \ {n}: Drops(i, g, x)
      /\ \A g, x: (\E i \in Calls: Drops(i, g, x)) <=> \E i \in Calls \ {n}: Drops(i, g, x)
  BY <1>1, <1>3, <1>7
<1>9. \A i \in Calls \ {n}: \A g, x: Drops(i, g, x) => trap'[x] = trap[x] /\ g # Top.hook
  BY <1>5 DEF Drops
<1>10. QED BY <1>3, <1>4, <1>6, <1>8, <1>9, CountedIs, CountedIsNext

(* The end of dsk_hook_notify, with its sweep, keeps
   the invariant. *)
LEMMA NotifyDoneKeeps ==
  ASSUME HookInv, NotifyDone
  PROVE  HookInv'
<1> OtherTypes /\ PlacesInv /\ StackInv /\ CountsKept /\ DestroyedOnce
  BY InvParts
<1>1. At("list") /\ stack' = Front(stack) /\ calls' = calls
  BY DEF NotifyDone
<1>2. Len(stack) \in Calls /\ Top.hook \in Hooks
  BY <1>1, TopFrame
<1> PICK h \in Hooks: h = Top.hook
  BY <1>2
<1>3. /\ hook \in [Hooks -> HookRecords] /\ hook[h].list \in Seq(Traps)
      /\ Injective(hook[h].list) /\ hook[h].is_idle_notify \in BOOLEAN
  BY DEF OtherTypes, HookRecords, PlacesInv
<1>4. /\ Pruned(hook[h].list) \in Seq(Traps)
      /\ ToSet(Pruned(hook[h].list)) = {r \in ToSet(hook[h].list): Live(r)}
      /\ Injective(Pruned(hook[h].list))
  BY <1>3, PrunedIs
<1> DEFINE p == [hook EXCEPT ![h].list = Pruned(@), ![h].is_notifying = FALSE]
<1>5. /\ p \in [Hooks -> HookRecords]
      /\ \A g \in Hooks \ {h}: p[g] = hook[g]
      /\ p[h].is_idle_notify = hook[h].is_idle_notify /\ p[h].main = hook[h].main
      /\ p[h].list = Pruned(hook[h].list) /\ p[h].is_notifying = FALSE
  <2> DEFINE k == [hook[h] EXCEPT !.list = Pruned(hook[h].list), !.is_notifying = FALSE]
  <2>1. /\ k \in HookRecords /\ k.is_idle_notify = hook[h].is_idle_notify /\ k.main = hook[h].main
        /\ k.list = Pruned(hook[h].list) /\ k.is_notifying = FALSE
        /\ p = [hook EXCEPT ![h] = k]
    BY <1>3, <1>4 DEF HookRecords
  <2> HIDE DEF k, p
  <2>2. QED BY <1>3, <2>1
<1>6. IF hook[h].clear_in_notify
      THEN ClearNow(h, p)
      ELSE hook' = p /\ UNCHANGED <<trap, countVars, destroyed>>
  BY DEF NotifyDone
<1> HIDE DEF p
<1>7. stack' \in Seq(Frames)
  <2>1. stack \in Seq(Frames) /\ stack # <<>>
    BY <1>1 DEF OtherTypes, At
  <2>2. QED BY <1>1, <2>1, FrontIs
<1>8. CASE hook[h].clear_in_notify
  <2>1. ClearNow(h, p)
    BY <1>6, <1>8
  <2>2. /\ hook' \in [Hooks -> HookRecords] /\ trap' \in [Traps -> TrapRecords]
        /\ destroyed' \in [Traps -> Nat]
        /\ PlacesInv' /\ DestroyedOnce'
        /\ \A g \in Hooks \ {h}: hook'[g] = hook[g]
        /\ \A g \in Hooks: hook'[g].is_idle_notify = hook[g].is_idle_notify
        /\ hook'[h].is_notifying = p[h].is_notifying
        /\ \A x \in Traps, g \in Hooks: OnHook(x, g)' <=> g # h /\ OnHook(x, g)
        /\ \A x \in Traps: ~OnHook(x, h) => trap'[x] = trap[x]
        /\ \A x \in Traps: trap[x].status = "ended" => trap'[x] = trap[x]
        /\ \A x \in Traps: trap'[x].block_count = trap[x].block_count
        /\ trap_count' = [trap_count EXCEPT ![h] = 0]
        /\ IF trap_count[h] > 0 THEN TrapCountZero(h)
           ELSE UNCHANGED <<polled, idle_list, idle_handler>>
    BY <1>5, <2>1, ClearedIs
  <2>3. OtherTypes'
    BY <1>1, <1>7, <2>2 DEF OtherTypes
  <2>4. /\ StackInv' /\ IdleRuns' = IdleRuns
        /\ \A g, x: x \in Counted(g) <=>
             /\ x \in Traps /\ trap[x].block_count = 0
             /\ \/ OnHook(x, g) /\ Live(x)
                \/ \E i \in Calls \ {Len(stack)}: Drops(i, g, x)
        /\ \A g, x: x \in Counted(g)' <=>
             /\ x \in Traps /\ trap'[x].block_count = 0
             /\ \/ OnHook(x, g)' /\ Live(x)'
                \/ \E i \in Calls \ {Len(stack)}: Drops(i, g, x)
        /\ \A g, x: (\E i \in Calls \ {Len(stack)}: Drops(i, g, x)) =>
             trap'[x] = trap[x] /\ g # Top.hook
    BY <1>1, <1>5, <2>2, <2>3, PopKeepsStack
  <2>5. \A x \in Traps, g \in Hooks: g # h /\ OnHook(x, g) => trap'[x] = trap[x]
    BY <2>2 DEF PlacesInv
  <2>6. \A x: x \notin Counted(h)'
    BY <2>2, <2>4
  <2>7. \A g \in Hooks \ {h}: \A x: x \in Counted(g)' <=> x \in Counted(g)
    BY <2>2, <2>4, <2>5 DEF Live
  <2>8. Counted(h)' = {} /\ \A g \in Hooks \ {h}: Counted(g)' = Counted(g)
    BY ONLY <2>6, <2>7
  <2>9. CountsKept'
    BY <1>3, <2>2, <2>4, <2>8, CountsNone
  <2>10. QED BY <2>2, <2>3, <2>4, <2>9, InvPartsNext
<1>9. CASE ~hook[h].clear_in_notify
  <2>1. hook' = p /\ trap' = trap /\ UNCHANGED countVars /\ destroyed' = destroyed
    BY <1>6, <1>9
  <2>2. OtherTypes'
    BY <1>1, <1>5, <1>7, <2>1 DEF OtherTypes
  <2>3. /\ \A x \in Traps, g \in Hooks: OnHook(x, g)' => OnHook(x, g)
        /\ \A x \in Traps, g \in Hooks: Live(x) /\ OnHook(x, g) => OnHook(x, g)'
    <3>1. \A x, g: g \in Hooks /\ g # h => (OnHook(x, g)' <=> OnHook(x, g))
      BY <1>5, <2>1 DEF OnHook
    <3>2. \A x: x \in ToSet(hook'[h].list) <=> x \in ToSet(hook[h].list) /\ Live(x)
      BY <1>4, <1>5, <2>1
    <3>3. hook'[h].main = hook[h].main
      BY <1>5, <2>1
    <3>4. \A x: (OnHook(x, h)' => OnHook(x, h)) /\ (Live(x) /\ OnHook(x, h) => OnHook(x, h)')
      BY <3>2, <3>3 DEF OnHook
    <3>5. QED BY <3>1, <3>4
  <2>4. PlacesInv'
    <3>1. \A g \in Hooks: Injective(hook'[g].list)
      BY <1>4, <1>5, <2>1 DEF PlacesInv
    <3>2. \A g \in Hooks: hook'[g].main = hook[g].main
      BY <1>5, <2>1
    <3>3. \A g \in Hooks: \A x: x \in ToSet(hook'[g].list) => x \in ToSet(hook[g].list)
      BY <1>4, <1>5, <2>1
    <3>4. QED BY <2>1, <2>3, <3>1, <3>2, <3>3 DEF PlacesInv, Live
  <2>5. \A g \in Hooks: hook'[g].is_idle_notify = hook[g].is_idle_notify
    BY <1>5, <2>1
  <2>6. /\ StackInv' /\ IdleRuns' = IdleRuns
        /\ \A g, x: x \in Counted(g) <=>
             /\ x \in Traps /\ trap[x].block_count = 0
             /\ \/ OnHook(x, g) /\ Live(x)
                \/ \E i \in Calls \ {Len(stack)}: Drops(i, g, x)
        /\ \A g, x: x \in Counted(g)' <=>
             /\ x \in Traps /\ trap'[x].block_count = 0
             /\ \/ OnHook(x, g)' /\ Live(x)'
                \/ \E i \in Calls \ {Len(stack)}: Drops(i, g, x)
    BY <1>1, <1>5, <2>1, <2>2, <2>3, PopKeepsStack
  <2>7. \A g \in Hooks: \A x: x \in Counted(g)' <=> x \in Counted(g)
    BY <2>1, <2>3, <2>6 DEF Live
  <2>8. \A g \in Hooks: Counted(g)' = Counted(g)
    BY ONLY <2>7
  <2>9. CountsKept'
    BY <2>1, <2>5, <2>6, <2>8, CountsSame
  <2>10. DestroyedOnce'
    BY <2>1 DEF DestroyedOnce
  <2>11. QED BY <2>2, <2>4, <2>6, <2>9, <2>10, InvPartsNext
<1>10. QED BY <1>8, <1>9

-----------------------------------------------------------------------------
(* The steps of run_idle_notifications. *)

(* Without calls in progress. *)
LEMMA CountedAlone ==
  ASSUME OtherTypes, Calls = {}
  PROVE  \A g, x: x \in Counted(g) <=>
           x \in Traps /\ trap[x].block_count = 0 /\ OnHook(x, g) /\ Live(x)
BY CountedIs

(* The same after a step. *)
LEMMA CountedAloneNext ==
  ASSUME OtherTypes', Calls' = {}
  PROVE  \A g, x: x \in Counted(g)' <=>
           x \in Traps /\ trap'[x].block_count = 0 /\ OnHook(x, g)' /\ Live(x)'
BY CountedIsNext

(* The hooks and the traps stay, and no call is in progress before or after. *)
LEMMA IdleStep ==
  ASSUME OtherTypes, PlacesInv, StackInv, CountsKept, DestroyedOnce,
         UNCHANGED <<hook, trap, trap_count, polled, destroyed, calls>>,
         stack' \in Seq(Frames), Calls = {}, Calls' = {}, \A i \in DOMAIN stack': i = 1,
         idle_list' \in Seq(Hooks \cup {Guard}), idle_handler' \in BOOLEAN, Injective(idle_list)',
         \A g \in Hooks: g \in ToSet(idle_list)' <=> g \in ToSet(idle_list),
         Guard \in ToSet(idle_list)' <=> IdleRuns',
         idle_list' # <<>> => idle_handler' \/ Guard \in ToSet(idle_list)'
  PROVE  HookInv'
<1>1. OtherTypes' /\ DestroyedOnce'
  BY DEF OtherTypes, DestroyedOnce
<1>2. \A x, g: OnHook(x, g)' <=> OnHook(x, g)
  BY DEF OnHook
<1>3. PlacesInv'
  BY <1>2 DEF PlacesInv, Live
<1>4. StackInv'
  BY DEF StackInv
<1>5. \A g \in Hooks: \A x: x \in Counted(g)' <=> x \in Counted(g)
  BY <1>1, <1>2, CountedAlone, CountedAloneNext DEF Live
<1>6. \A g \in Hooks: Counted(g)' = Counted(g)
  BY ONLY <1>5
<1>7. CountTypes' /\ CountInv'
  BY <1>6 DEF CountsKept, CountTypes, CountInv
<1>8. IdleInv'
  <2>1. \A g \in Hooks: g \in ToSet(idle_list)' <=> hook'[g].is_idle_notify /\ Counted(g)' # {}
    BY <1>6 DEF CountsKept, IdleInv
  <2>2. QED BY <2>1 DEF IdleInv
<1>9. QED BY <1>1, <1>3, <1>4, <1>7, <1>8, InvPartsNext DEF CountsKept

(* The start of run_idle_notifications keeps
   the invariant. *)
LEMMA RunIdleKeeps ==
  ASSUME HookInv, RunIdle
  PROVE  HookInv'
<1> OtherTypes /\ PlacesInv /\ StackInv /\ CountsKept /\ DestroyedOnce
  BY InvParts
<1>1. /\ stack = <<>> /\ idle_handler' = FALSE
      /\ UNCHANGED <<hook, trap, trap_count, polled, destroyed, calls>>
  BY DEF RunIdle
<1>2. Calls = {} /\ ~IdleRuns
  BY <1>1 DEF Calls, IdleRuns
<1>3. idle_list \in Seq(Hooks \cup {Guard}) /\ Injective(idle_list) /\ Guard \notin ToSet(idle_list)
  BY <1>2 DEF CountsKept, CountTypes, IdleInv
<1>4. CASE idle_list = <<>>
  <2>1. idle_list' = idle_list /\ stack' = stack
    BY <1>4 DEF RunIdle
  <2>2. /\ stack' \in Seq(Frames) /\ Calls' = {} /\ ~IdleRuns' /\ \A i \in DOMAIN stack': i = 1
    BY <1>1, <2>1 DEF Calls, IdleRuns
  <2>3. Injective(idle_list)' /\ ToSet(idle_list)' = ToSet(idle_list) /\ Guard \notin ToSet(idle_list)'
    BY <1>3, <2>1 DEF Injective, ToSet
  <2>4. QED BY <1>1, <1>2, <1>3, <1>4, <2>1, <2>2, <2>3, IdleStep
<1>5. CASE idle_list # <<>>
  <2>1. idle_list' = Append(idle_list, Guard) /\ stack' = <<[stage |-> "idle"]>>
    BY <1>5 DEF RunIdle
  <2>2. [stage |-> "idle"] \in Frames
    BY DEF Frames
  <2>3. /\ stack' \in Seq(Frames) /\ DOMAIN stack' = {1} /\ stack'[1].stage = "idle" /\ stack' # <<>>
    BY <2>1, <2>2
  <2>4. Calls' = {} /\ IdleRuns'
    BY <2>3 DEF Calls, IdleRuns
  <2>5. /\ idle_list' \in Seq(Hooks \cup {Guard}) /\ Injective(idle_list')
        /\ ToSet(idle_list') = ToSet(idle_list) \cup {Guard}
    <3>1. Guard \in Hooks \cup {Guard}
      OBVIOUS
    <3>2. QED BY <1>3, <2>1, <3>1, AppendIs
  <2>6. Injective(idle_list)' /\ ToSet(idle_list)' = ToSet(idle_list')
    BY <2>5 DEF Injective, ToSet
  <2>7. /\ \A g \in Hooks: g \in ToSet(idle_list)' <=> g \in ToSet(idle_list)
        /\ Guard \in ToSet(idle_list)'
    BY <2>5, <2>6, NullAssumption
  <2>8. idle_handler' \in BOOLEAN /\ \A i \in DOMAIN stack': i = 1
    BY <1>1, <2>3
  <2>9. QED BY <1>1, <1>2, <2>3, <2>4, <2>5, <2>6, <2>7, <2>8, IdleStep
<1>6. QED BY <1>4, <1>5

(* While run_idle_notifications is at its list, nothing else is in *)
(* progress. *)
LEMMA IdleFrame ==
  ASSUME OtherTypes, StackInv, At("idle")
  PROVE  Calls = {} /\ IdleRuns /\ Len(stack) = 1
<1>1. stack \in Seq(Frames) /\ stack # <<>> /\ Top.stage = "idle"
  BY DEF At, OtherTypes
<1>2. /\ Len(stack) \in Nat /\ Len(stack) >= 1 /\ Top = stack[Len(stack)] /\ DOMAIN stack = 1..Len(stack)
  <2>1. Len(stack) \in Nat /\ Len(stack) >= 1 /\ Last(stack) = stack[Len(stack)]
    BY <1>1, FrontIs
  <2>2. QED BY <1>1, <2>1 DEF Top
<1>3. Len(stack) \in DOMAIN stack /\ Len(stack) \notin Calls
  BY <1>1, <1>2 DEF Calls
<1>4. Len(stack) = 1
  BY <1>3 DEF StackInv
<1>5. QED BY <1>1, <1>2, <1>3, <1>4 DEF Calls, IdleRuns

(* A hook that is not on the list goes to its end. *)
LEMMA MovesToEnd ==
  ASSUME NEW S, NEW list \in Seq(S), NEW h \in S, h \notin ToSet(list), Injective(list)
  PROVE  /\ Append(list, h) \in Seq(S)
         /\ ToSet(Append(list, h)) = ToSet(list) \cup {h}
         /\ Injective(Append(list, h))
BY AppendIs

(* run_idle_notifications notifying the next hook keeps
   the invariant. *)
LEMMA IdleNextKeeps ==
  ASSUME HookInv, IdleNext
  PROVE  HookInv'
<1> OtherTypes /\ PlacesInv /\ StackInv /\ CountsKept /\ DestroyedOnce
  BY InvParts
<1> PICK h: h = Head(idle_list)
  OBVIOUS
<1>1. /\ At("idle") /\ h # Guard /\ StartNotify(h)
      /\ idle_list' = Append(Tail(idle_list), h)
      /\ UNCHANGED <<trap, trap_count, polled, idle_handler, destroyed, calls>>
  BY DEF IdleNext
<1>2. Calls = {} /\ IdleRuns
  BY <1>1, IdleFrame
<1>3. /\ idle_list \in Seq(Hooks \cup {Guard}) /\ Injective(idle_list) /\ Guard \in ToSet(idle_list)
      /\ idle_list # <<>>
  BY <1>2 DEF CountsKept, CountTypes, IdleInv, ToSet
<1>4. /\ h \in ToSet(idle_list) /\ h \in Hooks /\ Tail(idle_list) \in Seq(Hooks \cup {Guard})
      /\ ToSet(Tail(idle_list)) = ToSet(idle_list) \ {h} /\ Injective(Tail(idle_list))
  BY <1>1, <1>3, TailIs
<1>5. /\ idle_list' \in Seq(Hooks \cup {Guard}) /\ Injective(idle_list')
      /\ ToSet(idle_list') = ToSet(idle_list)
  <2> PICK rest: rest = Tail(idle_list)
    OBVIOUS
  <2> PICK S: S = Hooks \cup {Guard}
    OBVIOUS
  <2>1. h \in S /\ rest \in Seq(S) /\ h \notin ToSet(rest) /\ Injective(rest)
    BY <1>4
  <2>2. /\ Append(rest, h) \in Seq(S)
        /\ ToSet(Append(rest, h)) = ToSet(rest) \cup {h}
        /\ Injective(Append(rest, h))
    BY ONLY <2>1, MovesToEnd
  <2>3. QED BY <1>1, <1>4, <2>2
<1>6. Injective(idle_list)' /\ ToSet(idle_list)' = ToSet(idle_list)
  BY <1>5 DEF Injective, ToSet
<1>7. ~hook[h].is_notifying /\ \A i \in Calls: stack[i].stage \in Calling
  BY <1>2, <1>4 DEF StackInv
<1>8. calls' \in 0..MaxCalls
  BY <1>1 DEF OtherTypes
<1>9. /\ OtherTypes' /\ PlacesInv' /\ StackInv' /\ IdleRuns' = IdleRuns
      /\ \A g \in Hooks: hook'[g].is_idle_notify = hook[g].is_idle_notify
      /\ \A g \in Hooks: Counted(g)' = Counted(g)
  BY <1>1, <1>4, <1>7, <1>8, StartKeeps
<1>10. CountTypes' /\ CountInv'
  BY <1>1, <1>5, <1>9 DEF CountsKept, CountTypes, CountInv
<1>11. IdleInv'
  BY <1>1, <1>2, <1>3, <1>6, <1>9 DEF CountsKept, IdleInv
<1>12. DestroyedOnce'
  BY <1>1 DEF DestroyedOnce
<1>13. QED BY <1>9, <1>10, <1>11, <1>12, InvPartsNext DEF CountsKept

(* The end of run_idle_notifications keeps
   the invariant. *)
LEMMA IdleDoneKeeps ==
  ASSUME HookInv, IdleDone
  PROVE  HookInv'
<1> OtherTypes /\ PlacesInv /\ StackInv /\ CountsKept /\ DestroyedOnce
  BY InvParts
<1>1. /\ At("idle") /\ Head(idle_list) = Guard /\ idle_list' = Tail(idle_list) /\ stack' = <<>>
      /\ idle_handler' = (idle_handler \/ idle_list' # <<>>)
      /\ UNCHANGED <<hook, trap, trap_count, polled, destroyed, calls>>
  BY DEF IdleDone
<1>2. Calls = {} /\ IdleRuns
  BY <1>1, IdleFrame
<1>3. /\ idle_list \in Seq(Hooks \cup {Guard}) /\ Injective(idle_list) /\ idle_list # <<>>
  BY <1>2 DEF CountsKept, CountTypes, IdleInv, ToSet
<1>4. /\ idle_list' \in Seq(Hooks \cup {Guard}) /\ Injective(idle_list')
      /\ ToSet(idle_list') = ToSet(idle_list) \ {Guard}
  BY <1>1, <1>3, TailIs
<1>5. Injective(idle_list)' /\ ToSet(idle_list)' = ToSet(idle_list) \ {Guard}
  BY <1>4 DEF Injective, ToSet
<1>6. stack' \in Seq(Frames) /\ Calls' = {} /\ ~IdleRuns' /\ \A i \in DOMAIN stack': i = 1
  BY <1>1 DEF Calls, IdleRuns
<1>7. idle_handler' \in BOOLEAN /\ (idle_list' # <<>> => idle_handler')
  BY <1>1 DEF CountsKept, CountTypes
<1>8. \A g \in Hooks: g \in ToSet(idle_list)' <=> g \in ToSet(idle_list)
  BY <1>5, NullAssumption
<1>9. Guard \in ToSet(idle_list)' <=> IdleRuns'
  BY <1>5, <1>6
<1>10. QED BY <1>1, <1>2, <1>4, <1>5, <1>6, <1>7, <1>8, <1>9, IdleStep

(* The initial states satisfy the invariant. *)
LEMMA InitKeeps ==
  ASSUME Init
  PROVE  HookInv /\ EndedInv
<1>1. TypeOK
  <2>1. hook \in [Hooks -> HookRecords]
    <3> DEFINE k == [is_idle_notify |-> FALSE, is_cleared |-> FALSE, is_notifying |-> FALSE,
                     clear_in_notify |-> FALSE, main |-> NULL, list |-> <<>>]
    <3>1. k \in HookRecords
      BY DEF HookRecords
    <3>2. hook = [h \in Hooks |-> k]
      BY DEF Init
    <3> HIDE DEF k
    <3>3. QED BY <3>1, <3>2
  <2>2. trap \in [Traps -> TrapRecords]
    <3> DEFINE k == [status |-> "new", block_count |-> 0, is_notifying |-> FALSE,
                     destroy_in_notify |-> FALSE]
    <3>1. k \in TrapRecords
      BY BoundsAssumption DEF TrapRecords
    <3>2. trap = [r \in Traps |-> k]
      BY DEF Init
    <3> HIDE DEF k
    <3>3. QED BY <3>1, <3>2
  <2>3. /\ trap_count \in [Hooks -> 0..(CountMod - 1)] /\ polled \in [Hooks -> BOOLEAN]
        /\ destroyed \in [Traps -> Nat] /\ calls \in 0..MaxCalls
    BY BoundsAssumption DEF Init
  <2>4. idle_list \in Seq(Hooks \cup {Guard}) /\ idle_handler \in BOOLEAN /\ stack \in Seq(Frames)
    <3>1. idle_list = <<>> /\ stack = <<>>
      BY DEF Init
    <3>2. idle_handler \in BOOLEAN
      BY DEF Init
    <3>3. idle_list \in Seq(Hooks \cup {Guard}) /\ stack \in Seq(Frames)
      BY <3>1
    <3>4. QED BY <3>2, <3>3
  <2>5. QED BY <2>1, <2>2, <2>3, <2>4 DEF TypeOK, HookRecords, TrapRecords
<1>2. \A r \in Traps, h \in Hooks: ~OnHook(r, h)
  BY NullAssumption DEF Init, OnHook, ToSet
<1>3. PlacesInv
  BY <1>2 DEF Init, PlacesInv, Injective
<1>4. StackInv
  BY DEF Init, StackInv, Calls
<1>5. \A h \in Hooks: \A x: x \notin Counted(h)
  BY <1>2 DEF Init, Counted, ToSet
<1>6. \A h \in Hooks: Counted(h) = {}
  BY ONLY <1>5
<1>7. CountInv
  BY <1>6, FS_EmptySet DEF Init, CountInv
<1>8. IdleInv
  BY <1>6 DEF Init, IdleInv, Injective, ToSet, IdleRuns
<1>9. DestroyedOnce
  BY DEF Init, DestroyedOnce
<1>10. EndedInv
  BY DEF Init, EndedInv, ToSet
<1>11. QED BY <1>1, <1>3, <1>4, <1>7, <1>8, <1>9, <1>10 DEF HookInv

-----------------------------------------------------------------------------
(* The traps of a list that ended stay at or before the one at hand. *)

(* A trap put at the end of a list leaves the order of the others. *)
LEMMA AppendOrder ==
  ASSUME NEW list \in Seq(Traps), NEW r \in Traps, NEW a, NEW b, Before(list, a, b)
  PROVE  Before(Append(list, r), a, b)
<1> DEFINE longer == Append(list, r)
<1>1. /\ \A i \in 1..Len(list): longer[i] = list[i]
      /\ Len(longer) = Len(list) + 1 /\ longer \in Seq(Traps)
  BY AppendIs
<1> HIDE DEF longer
<1>2. DOMAIN list = 1..Len(list) /\ DOMAIN longer = 1..(Len(list) + 1) /\ Len(list) \in Nat
  BY <1>1
<1>3. PICK j, k \in DOMAIN list: j <= k /\ list[j] = a /\ list[k] = b
  BY DEF Before
<1>4. j \in DOMAIN longer /\ k \in DOMAIN longer /\ longer[j] = a /\ longer[k] = b
  BY <1>1, <1>2, <1>3
<1>5. QED BY <1>3, <1>4 DEF Before, longer

(* A trap taken from a list leaves the order of the others. *)
LEMMA WithoutOrder ==
  ASSUME NEW list \in Seq(Traps), NEW r, NEW a, NEW b, Before(list, a, b), a # r, b # r
  PROVE  Before(Without(list, r), a, b)
<1>1. CASE r \notin ToSet(list)
  BY <1>1 DEF Without
<1>2. CASE r \in ToSet(list)
  <2> DEFINE n == Index(list, r)
             shorter == Without(list, r)
             m == Len(list)
  <2>1. n \in 1..m /\ list[n] = r /\ m \in Nat
    BY <1>2 DEF ToSet, Index
  <2>2. shorter = SubSeq(list, 1, n - 1) \o SubSeq(list, n + 1, m)
    BY <1>2 DEF Without, RemoveAt
  <2> DEFINE p == SubSeq(list, 1, n - 1)
             q == SubSeq(list, n + 1, m)
  <2> HIDE DEF n, shorter
  <2>20. shorter = p \o q
    BY <2>2
  <2>3. /\ p \in Seq(Traps) /\ Len(p) = n - 1 /\ \A i \in 1..(n - 1): p[i] = list[i]
        /\ q \in Seq(Traps) /\ Len(q) = m - n /\ \A i \in 1..(m - n): q[i] = list[i + n]
        /\ DOMAIN list = 1..m
    BY <2>1
  <2> HIDE DEF p, q, m
  <2>21. Len(p) = n - 1 /\ Len(q) = m - n /\ n \in Nat /\ m \in Nat /\ n >= 1 /\ m >= n
    BY <2>1, <2>3
  <2>23. p \in Seq(Traps) /\ q \in Seq(Traps)
    BY <2>3
  <2>22. /\ Len(p \o q) = Len(p) + Len(q) /\ DOMAIN (p \o q) = 1..(Len(p) + Len(q))
         /\ \A i \in 1..Len(p): (p \o q)[i] = p[i]
         /\ \A i \in 1..Len(q): (p \o q)[Len(p) + i] = q[i]
    BY ONLY <2>23
  <2>4. /\ DOMAIN shorter = 1..(m - 1)
        /\ \A i \in 1..(n - 1): shorter[i] = p[i]
        /\ \A i \in 1..(m - n): shorter[n - 1 + i] = q[i]
    BY ONLY <2>20, <2>21, <2>22
  <2> DEFINE To(i) == IF i < n THEN i ELSE i - 1
  <2>5. ASSUME NEW i \in 1..m, i # n PROVE To(i) \in 1..(m - 1) /\ shorter[To(i)] = list[i]
    <3>1. CASE i < n
      BY <2>1, <2>3, <2>4, <3>1
    <3>2. CASE ~(i < n)
      <4>1. i - n \in 1..(m - n) /\ n - 1 + (i - n) = i - 1 /\ (i - n) + n = i
        BY <2>1, <2>5, <3>2
      <4>2. shorter[i - 1] = q[i - n] /\ q[i - n] = list[i]
        BY <2>3, <2>4, <4>1
      <4>3. i - 1 \in 1..(m - 1)
        BY <2>1, <2>5, <3>2
      <4>4. QED BY <3>2, <4>2, <4>3
    <3>3. QED BY <3>1, <3>2
  <2>6. PICK j, k \in 1..m: j <= k /\ list[j] = a /\ list[k] = b
    BY <2>3 DEF Before
  <2>7. j # n /\ k # n /\ To(j) <= To(k)
    BY <2>1, <2>6
  <2> HIDE DEF To
  <2>8. QED BY <2>4, <2>5, <2>6, <2>7 DEF Before, shorter
<1>3. QED BY <1>1, <1>2

(* A call of the program from a callback or from outside. *)
LEMMA CallKeepsEnded ==
  ASSUME OtherTypes, StackInv, EndedInv, CanCall, UNCHANGED stack,
         \A g \in Hooks: \A x \in ToSet(hook'[g].list):
           trap'[x].status # "live" => x \in ToSet(hook[g].list) /\ trap[x].status # "live",
         \A x, b \in Traps, g \in Hooks:
           Before(hook[g].list, x, b) /\ Held(b) /\ hook[g].is_notifying /\ x \in ToSet(hook'[g].list)
             => Before(hook'[g].list, x, b)
  PROVE  EndedInv'
<1>1. Calls' = Calls
  BY DEF Calls
<1> SUFFICES ASSUME NEW g \in Hooks, NEW x \in ToSet(hook'[g].list), trap'[x].status # "live"
             PROVE  \E i \in Calls: stack[i].hook = g /\ Before(hook'[g].list, x, stack[i].at)
  BY <1>1 DEF EndedInv, Live
<1>2. x \in ToSet(hook[g].list) /\ ~Live(x)
  BY DEF Live
<1>3. x \in Traps
  BY <1>2 DEF OtherTypes, HookRecords, ToSet
<1>4. PICK i \in Calls: stack[i].hook = g /\ Before(hook[g].list, x, stack[i].at)
  BY <1>2 DEF EndedInv
<1> PICK f: f = stack[i]
  OBVIOUS
<1>5. /\ f.stage \in Calling /\ FrameKept(f) /\ hook[g].is_notifying /\ f.at \in Traps \cup {NULL}
  BY <1>4, CalledBack, FrameIs DEF StackInv
<1>6. Held(f.at) /\ f.at \in Traps
  BY <1>5 DEF Held, FrameKept, Calling
<1>7. QED BY <1>3, <1>4, <1>5, <1>6

(* dsk_hook_trap keeps the ended traps where they are. *)
LEMMA TrapEnded ==
  ASSUME HookInv, EndedInv, NEW h \in Hooks, NEW r \in Traps, Trap(h, r)
  PROVE  EndedInv'
<1> OtherTypes /\ PlacesInv /\ StackInv
  BY InvParts
<1>1. /\ CanCall /\ stack' = stack /\ hook \in [Hooks -> HookRecords] /\ trap \in [Traps -> TrapRecords]
      /\ hook[h].list \in Seq(Traps)
      /\ trap' = [trap EXCEPT ![r].status = "live"]
      /\ hook' = IF hook[h].main = NULL THEN [hook EXCEPT ![h].main = r]
                 ELSE [hook EXCEPT ![h].list = Append(@, r)]
  BY DEF Trap, OtherTypes, HookRecords
<1>2. \A g \in Hooks: hook'[g].list = hook[g].list \/ (g = h /\ hook'[g].list = Append(hook[h].list, r))
  BY <1>1
<1>3. /\ ToSet(Append(hook[h].list, r)) = ToSet(hook[h].list) \cup {r}
      /\ \A a, b: Before(hook[h].list, a, b) => Before(Append(hook[h].list, r), a, b)
  BY <1>1, AppendIs, AppendOrder
<1>4. trap'[r].status = "live" /\ \A x \in Traps: x # r => trap'[x] = trap[x]
  BY <1>1
<1>5. \A g \in Hooks: \A x \in ToSet(hook[g].list): x \in Traps
  BY <1>1 DEF HookRecords, ToSet
<1>6. \A g \in Hooks: \A x \in ToSet(hook'[g].list):
        trap'[x].status # "live" => x \in ToSet(hook[g].list) /\ trap[x].status # "live"
  <2> SUFFICES ASSUME NEW g \in Hooks, NEW x \in ToSet(hook'[g].list), trap'[x].status # "live"
               PROVE  x \in ToSet(hook[g].list) /\ trap[x].status # "live"
    OBVIOUS
  <2>1. x # r
    BY <1>4
  <2>2. x \in ToSet(hook[g].list)
    BY <1>2, <1>3, <2>1
  <2>3. QED BY <1>4, <1>5, <2>1, <2>2
<1>7. \A x, b \in Traps, g \in Hooks: Before(hook[g].list, x, b) => Before(hook'[g].list, x, b)
  BY <1>2, <1>3
<1>8. QED BY <1>1, <1>6, <1>7, CallKeepsEnded

(* dsk_hook_trap_destroy leaves an ended trap on a list only in its callback. *)
LEMMA TrapDestroyEnded ==
  ASSUME HookInv, EndedInv, NEW h \in Hooks, NEW r \in Traps, TrapDestroy(h, r)
  PROVE  EndedInv'
<1> OtherTypes /\ PlacesInv /\ StackInv
  BY InvParts
<1>1. /\ CanCall /\ OnHook(r, h) /\ Live(r) /\ stack' = stack
      /\ hook \in [Hooks -> HookRecords] /\ trap \in [Traps -> TrapRecords]
      /\ hook[h].list \in Seq(Traps) /\ Injective(hook[h].list)
  BY DEF TrapDestroy, Usable, OtherTypes, HookRecords, PlacesInv
<1>2. \A g \in Hooks: \A x \in ToSet(hook[g].list): x \in Traps
  BY <1>1 DEF HookRecords, ToSet
<1>3. CASE trap[r].is_notifying
  <2>1. trap' = [trap EXCEPT ![r].destroy_in_notify = TRUE] /\ hook' = hook
    BY <1>3 DEF TrapDestroy
  <2>2. \A x \in Traps: trap'[x].status = trap[x].status
    BY <1>1, <2>1 DEF TrapRecords
  <2>3. QED BY <1>1, <1>2, <2>1, <2>2, CallKeepsEnded
<1>4. CASE ~trap[r].is_notifying
  <2>1. /\ trap' = [trap EXCEPT ![r].status = "ended"]
        /\ hook' = IF hook[h].main = r THEN [hook EXCEPT ![h].main = NULL]
                   ELSE [hook EXCEPT ![h].list = Without(@, r)]
    BY <1>4 DEF TrapDestroy
  <2>2. \A x \in Traps: x # r => trap'[x] = trap[x]
    BY <1>1, <2>1
  <2>3. \A g \in Hooks: \/ hook'[g].list = hook[g].list
                        \/ g = h /\ hook'[g].list = Without(hook[h].list, r)
    BY <1>1, <2>1
  <2>4. ToSet(Without(hook[h].list, r)) = ToSet(hook[h].list) \ {r}
    BY <1>1, WithoutIs
  <2>5. \A g \in Hooks: r \notin ToSet(hook'[g].list)
    <3> SUFFICES ASSUME NEW g \in Hooks, r \in ToSet(hook'[g].list) PROVE FALSE
      OBVIOUS
    <3>1. OnHook(r, g)
      BY <2>3, <2>4 DEF OnHook
    <3>2. g = h
      BY <1>1, <3>1 DEF PlacesInv
    <3>3. hook[h].main = r => r \notin ToSet(hook[h].list) /\ hook'[h].list = hook[h].list
      BY <1>1, <2>1, NullAssumption DEF PlacesInv
    <3>4. hook[h].main # r => hook'[h].list = Without(hook[h].list, r)
      BY <1>1, <2>1
    <3>5. QED BY <2>4, <3>2, <3>3, <3>4
  <2>6. \A g \in Hooks: \A x \in ToSet(hook'[g].list):
          trap'[x].status # "live" => x \in ToSet(hook[g].list) /\ trap[x].status # "live"
    <3> SUFFICES ASSUME NEW g \in Hooks, NEW x \in ToSet(hook'[g].list), trap'[x].status # "live"
                 PROVE  x \in ToSet(hook[g].list) /\ trap[x].status # "live"
      OBVIOUS
    <3>1. x # r
      BY <2>5
    <3>2. x \in ToSet(hook[g].list)
      BY <2>3, <2>4
    <3>3. QED BY <1>2, <2>2, <3>1, <3>2
  <2>7. \A x, b \in Traps, g \in Hooks:
          Before(hook[g].list, x, b) /\ Held(b) /\ hook[g].is_notifying /\ x \in ToSet(hook'[g].list)
            => Before(hook'[g].list, x, b)
    <3> SUFFICES ASSUME NEW x \in Traps, NEW b \in Traps, NEW g \in Hooks,
                        Before(hook[g].list, x, b), Held(b), x \in ToSet(hook'[g].list)
                 PROVE  Before(hook'[g].list, x, b)
      OBVIOUS
    <3>1. x # r /\ b # r
      BY <1>1, <1>4, <2>5 DEF Held, Live
    <3>2. QED BY <1>1, <2>3, <3>1, WithoutOrder
  <2>8. QED BY <1>1, <2>6, <2>7, CallKeepsEnded
<1>5. QED BY <1>3, <1>4

(* The calls that leave the lists as they are, and end no trap of one. *)
LEMMA OtherCallsEnded ==
  ASSUME HookInv, EndedInv, CanCall, UNCHANGED stack,
         \A g \in Hooks: hook'[g].list = hook[g].list \/ hook'[g].list = <<>>,
         \A g \in Hooks: hook[g].is_notifying => hook'[g].list = hook[g].list,
         \A g \in Hooks: \A x \in ToSet(hook'[g].list): trap'[x].status = trap[x].status
  PROVE  EndedInv'
<1> OtherTypes /\ PlacesInv /\ StackInv
  BY InvParts
<1>1. \A g \in Hooks: \A x \in ToSet(hook'[g].list): x \in ToSet(hook[g].list)
  BY DEF ToSet
<1>2. QED BY <1>1, CallKeepsEnded

(* Every call of the program keeps EndedInv. *)
LEMMA CallsEnded ==
  ASSUME HookInv, EndedInv, NEW h \in Hooks,
         (\E r \in Traps: TrapBlock(h, r) \/ TrapUnblock(h, r)) \/ SetIdleNotify(h) \/ Clear(h)
  PROVE  EndedInv'
<1> OtherTypes /\ PlacesInv /\ StackInv /\ DestroyedOnce
  BY InvParts
<1>1. /\ hook \in [Hooks -> HookRecords] /\ trap \in [Traps -> TrapRecords]
      /\ \A g \in Hooks: \A x \in ToSet(hook[g].list): x \in Traps
  BY DEF OtherTypes, HookRecords, ToSet
<1>2. CASE \E r \in Traps: TrapBlock(h, r) \/ TrapUnblock(h, r)
  <2> PICK r \in Traps: TrapBlock(h, r) \/ TrapUnblock(h, r)
    BY <1>2
  <2>1. CanCall /\ stack' = stack /\ hook' = hook
    BY DEF TrapBlock, TrapUnblock
  <2>2. \A x \in Traps: trap'[x].status = trap[x].status
    BY <1>1 DEF TrapBlock, TrapUnblock, TrapRecords
  <2>3. QED BY <1>1, <2>1, <2>2, OtherCallsEnded
<1>3. CASE SetIdleNotify(h)
  <2>1. CanCall /\ stack' = stack /\ trap' = trap
    BY <1>3 DEF SetIdleNotify
  <2>2. \A g \in Hooks: hook'[g].list = hook[g].list
    BY <1>1, <1>3 DEF SetIdleNotify
  <2>3. QED BY <1>1, <2>1, <2>2, OtherCallsEnded
<1>4. CASE Clear(h) /\ hook[h].is_notifying
  <2>1. CanCall /\ stack' = stack /\ trap' = trap
    BY <1>4 DEF Clear
  <2>2. \A g \in Hooks: hook'[g].list = hook[g].list
    <3>1. hook' = [hook EXCEPT ![h].clear_in_notify = TRUE]
      BY <1>4 DEF Clear
    <3>2. QED BY <1>1, <3>1
  <2>3. QED BY <1>1, <2>1, <2>2, OtherCallsEnded
<1>5. CASE Clear(h) /\ ~hook[h].is_notifying
  <2>1. CanCall /\ stack' = stack /\ ClearNow(h, hook)
    BY <1>5 DEF Clear
  <2>2. /\ \A g \in Hooks \ {h}: hook'[g] = hook[g]
        /\ \A x \in Traps: ~OnHook(x, h) => trap'[x] = trap[x]
    BY <1>1, <2>1, ClearedIs
  <2>3. hook'[h].list = <<>>
    BY <1>1, <2>1 DEF ClearNow
  <2>4. \A g \in Hooks: \A x \in ToSet(hook'[g].list): trap'[x].status = trap[x].status
    <3> SUFFICES ASSUME NEW g \in Hooks, NEW x \in ToSet(hook'[g].list)
                 PROVE  trap'[x].status = trap[x].status
      OBVIOUS
    <3>1. g # h /\ x \in ToSet(hook[g].list)
      BY <2>2, <2>3 DEF ToSet
    <3>2. x \in Traps /\ OnHook(x, g)
      BY <1>1, <3>1 DEF OnHook
    <3>3. ~OnHook(x, h)
      BY <3>1, <3>2 DEF PlacesInv
    <3>4. QED BY <2>2, <3>2, <3>3
  <2>5. QED BY <1>5, <2>1, <2>2, <2>3, <2>4, OtherCallsEnded
<1>6. QED BY <1>2, <1>3, <1>4, <1>5

(* The start of a notification keeps EndedInv. *)
LEMMA StartEnded ==
  ASSUME HookInv, EndedInv, NEW h \in Hooks, StartNotify(h), UNCHANGED trap
  PROVE  EndedInv'
<1> OtherTypes
  BY InvParts
<1> DEFINE f == [stage |-> "main", hook |-> h, at |-> NULL]
           n == Len(stack)
<1>1. /\ hook' = [hook EXCEPT ![h].is_notifying = TRUE] /\ stack' = Append(stack, f)
      /\ hook \in [Hooks -> HookRecords] /\ stack \in Seq(Frames) /\ f \in Frames
  BY DEF StartNotify, OtherTypes, Frames, Stages
<1>2. \A g \in Hooks: hook'[g].list = hook[g].list
  BY <1>1
<1> HIDE DEF f
<1>3. /\ Len(stack') = n + 1 /\ stack' \in Seq(Frames) /\ n \in Nat
      /\ \A i \in 1..n: stack'[i] = stack[i]
  BY <1>1, AppendIs
<1>4. \A i \in Calls: i \in Calls' /\ stack'[i] = stack[i]
  <2>1. DOMAIN stack = 1..n /\ DOMAIN stack' = 1..(n + 1)
    BY <1>1, <1>3
  <2> HIDE DEF n
  <2>2. QED BY <1>3, <2>1 DEF Calls
<1>5. QED BY <1>2, <1>4 DEF EndedInv, Live

(* The innermost call goes on; its trap may have ended. *)
LEMMA StepEnded ==
  ASSUME HookInv, EndedInv, NEW s, At(s), s # "idle",
         NEW f \in Frames, SetTop(f), f.stage # "idle", f.hook = Top.hook,
         \A g \in Hooks: hook'[g].list = hook[g].list,
         f.at = Top.at \/ \A x: ~Before(hook[Top.hook].list, x, Top.at),
         \A g \in Hooks: \A x \in ToSet(hook[g].list):
           \/ trap'[x].status = trap[x].status
           \/ x = f.at /\ x \in ToSet(hook[Top.hook].list)
  PROVE  EndedInv'
<1> OtherTypes /\ PlacesInv /\ StackInv
  BY InvParts
<1> PICK n: n = Len(stack)
  OBVIOUS
<1>1. n \in Calls /\ Top = stack[n] /\ Top.hook \in Hooks
  BY TopFrame
<1>2. /\ Calls' = Calls /\ stack'[n] = f
      /\ \A i \in Calls \ {n}: stack'[i] = stack[i]
  BY <1>1, TopMoves
<1>3. \A g \in Hooks: \A x \in ToSet(hook[g].list): x \in Traps
  BY DEF OtherTypes, HookRecords, ToSet
<1> SUFFICES ASSUME NEW g \in Hooks, NEW x \in ToSet(hook[g].list), trap'[x].status # "live"
             PROVE  \E i \in Calls: stack'[i].hook = g /\ Before(hook[g].list, x, stack'[i].at)
  BY <1>2 DEF EndedInv, Live
<1>4. CASE Live(x)
  <2>1. x = f.at /\ x \in ToSet(hook[Top.hook].list)
    BY <1>4 DEF Live
  <2>2. g = Top.hook
    BY <1>1, <1>3, <2>1 DEF PlacesInv, OnHook
  <2>3. PICK j \in DOMAIN hook[g].list: hook[g].list[j] = x
    BY DEF ToSet
  <2>4. j \in Nat
    BY <2>3 DEF OtherTypes, HookRecords
  <2>5. Before(hook[g].list, x, x)
    BY <2>3, <2>4 DEF Before
  <2>6. QED BY <1>1, <1>2, <2>1, <2>2, <2>5
<1>5. CASE ~Live(x)
  <2>1. PICK i \in Calls: stack[i].hook = g /\ Before(hook[g].list, x, stack[i].at)
    BY <1>5 DEF EndedInv
  <2>2. CASE i = n
    BY <1>1, <1>2, <2>1, <2>2
  <2>3. CASE i # n
    BY <1>2, <2>1, <2>3
  <2>4. QED BY <2>2, <2>3
<1>6. QED BY <1>4, <1>5

(* A trap that is not on a list is before none of it. *)
LEMMA NotBefore ==
  ASSUME NEW list \in Seq(Traps), NEW b, b \notin ToSet(list)
  PROVE  \A x: ~Before(list, x, b)
BY DEF Before, ToSet

(* Every step of dsk_hook_notify but its last keeps EndedInv. *)
LEMMA StepsEnded ==
  ASSUME HookInv, EndedInv, NEW again,
         CallMain \/ MainReturns(again) \/ MainDropped \/ ListReturns(again) \/ ListDropped
  PROVE  EndedInv'
<1> OtherTypes /\ PlacesInv /\ StackInv
  BY InvParts
<1> PICK s: s = Top.stage
  OBVIOUS
<1>1. At(s) /\ s \in {"main", "in_main", "drop_main", "in_list", "drop_list"}
  BY DEF CallMain, MainReturns, MainDropped, ListReturns, ListDropped, At
<1>2. /\ Top.hook \in Hooks /\ Top.at \in Traps \cup {NULL} /\ FrameKept(Top)
      /\ Top = [stage |-> s, hook |-> Top.hook, at |-> Top.at]
  BY <1>1, TopFrame
<1> PICK h, r: h = Top.hook /\ r = Top.at
  OBVIOUS
<1>3. /\ hook \in [Hooks -> HookRecords] /\ trap \in [Traps -> TrapRecords]
      /\ \A g \in Hooks: hook[g].list \in Seq(Traps)
      /\ \A g \in Hooks: \A x \in ToSet(hook[g].list): x \in Traps
      /\ NULL \notin Traps
  BY NullAssumption DEF OtherTypes, HookRecords, ToSet
<1>4. CASE CallMain
  <2>1. s = "main" /\ hook' = hook
    BY <1>4 DEF CallMain, At
  <2>2. r = NULL
    BY <1>2, <2>1 DEF FrameKept
  <2>3. \A x: ~Before(hook[h].list, x, r)
    BY <1>2, <1>3, <2>2, NotBefore
  <2>4. \A x \in Traps: trap'[x].status = trap[x].status
    <3>1. \/ trap' = trap
          \/ hook[h].main # NULL /\ trap' = [trap EXCEPT ![hook[h].main].is_notifying = TRUE]
      BY <1>4 DEF CallMain
    <3>2. hook[h].main \in Traps \cup {NULL}
      BY <1>2, <1>3 DEF HookRecords
    <3>3. QED BY <1>3, <3>1, <3>2, NowNotifying
  <2>5. PICK f \in Frames: SetTop(f) /\ f.stage # "idle" /\ f.hook = h
    <3> DEFINE m == hook[h].main
               a == [stage |-> "in_main", hook |-> h, at |-> m]
               b == [stage |-> "list", hook |-> h, at |-> NULL]
    <3>1. m \in Traps \cup {NULL}
      BY <1>2, <1>3 DEF HookRecords
    <3>2. a \in Frames /\ b \in Frames /\ a.stage # "idle" /\ b.stage # "idle" /\ a.hook = h /\ b.hook = h
      BY <1>2, <3>1 DEF Frames, Stages
    <3>3. b = [Top EXCEPT !.stage = "list"]
      BY <1>2, <2>1, <2>2
    <3>4. SetTop(a) \/ SetTop([Top EXCEPT !.stage = "list"])
      BY <1>4 DEF CallMain
    <3> HIDE DEF a, b
    <3>5. QED BY <3>2, <3>3, <3>4
  <2>6. QED BY <1>1, <1>3, <2>1, <2>3, <2>4, <2>5, StepEnded
<1>5. CASE MainReturns(again)
  <2>1. s = "in_main"
    BY <1>5 DEF MainReturns, At
  <2>2. r = hook[h].main /\ r # NULL
    BY <1>2, <2>1 DEF FrameKept, Calling
  <2>3. \A g \in Hooks: r \notin ToSet(hook[g].list)
    BY <1>2, <1>3, <2>2 DEF PlacesInv, OnHook
  <2>4. \A x: ~Before(hook[h].list, x, r)
    BY <1>2, <1>3, <2>3, NotBefore
  <2>5. \A g \in Hooks: hook'[g].list = hook[g].list
    <3>1. hook' = hook \/ hook' = [hook EXCEPT ![h].main = NULL]
      BY <1>5 DEF MainReturns
    <3>2. QED
      <4> DEFINE k == [hook[h] EXCEPT !.main = NULL]
      <4>1. k.list = hook[h].list
        BY <1>2, <1>3 DEF HookRecords
      <4>2. hook' = hook \/ hook' = [hook EXCEPT ![h] = k]
        BY <3>1
      <4> HIDE DEF k
      <4>3. QED BY <1>2, <1>3, <4>1, <4>2
  <2>6. \A x \in Traps: x # r => trap'[x].status = trap[x].status
    BY <1>3, <1>5 DEF MainReturns
  <2>7. PICK f \in Frames: SetTop(f) /\ f.stage # "idle" /\ f.hook = h
    <3> DEFINE a == [stage |-> "drop_main", hook |-> h, at |-> r]
               b == [stage |-> "list", hook |-> h, at |-> NULL]
    <3>1. a \in Frames /\ b \in Frames /\ a.stage # "idle" /\ b.stage # "idle" /\ a.hook = h /\ b.hook = h
      BY <1>2 DEF Frames, Stages
    <3>2. a = [Top EXCEPT !.stage = "drop_main"] /\ b = [Top EXCEPT !.stage = "list", !.at = NULL]
      <4>1. Top = [stage |-> "in_main", hook |-> h, at |-> r]
        BY <1>2, <2>1
      <4> DEFINE u == [Top EXCEPT !.stage = "list"]
      <4>2. /\ u = [stage |-> "list", hook |-> h, at |-> r]
            /\ [Top EXCEPT !.stage = "drop_main"] = [stage |-> "drop_main", hook |-> h, at |-> r]
        BY ONLY <4>1
      <4>3. [Top EXCEPT !.stage = "list", !.at = NULL] = [u EXCEPT !.at = NULL]
        BY ONLY TRUE DEF u
      <4> HIDE DEF u
      <4>4. [u EXCEPT !.at = NULL] = [stage |-> "list", hook |-> h, at |-> NULL]
        BY ONLY <4>2
      <4>5. QED BY ONLY <4>2, <4>3, <4>4 DEF a, b
    <3>3. SetTop([Top EXCEPT !.stage = "drop_main"]) \/ SetTop([Top EXCEPT !.stage = "list", !.at = NULL])
      BY <1>5 DEF MainReturns
    <3> HIDE DEF a, b
    <3>4. QED BY <3>1, <3>2, <3>3
  <2>8. QED BY <1>1, <1>3, <2>3, <2>4, <2>5, <2>6, <2>7, StepEnded
<1>6. CASE MainDropped
  <2>1. s = "drop_main" /\ hook' = hook
    BY <1>6 DEF MainDropped, At
  <2>2. r \in Traps /\ \A g \in Hooks: ~OnHook(r, g)
    BY <1>2, <2>1 DEF FrameKept, Calling
  <2>3. \A x: ~Before(hook[h].list, x, r)
    BY <1>2, <1>3, <2>2, NotBefore DEF OnHook
  <2>4. \A x \in Traps: x # r => trap'[x].status = trap[x].status
    BY <1>3, <1>6 DEF MainDropped
  <2>5. \A g \in Hooks: \A x \in ToSet(hook[g].list): x # r
    BY <1>3, <2>2 DEF OnHook
  <2> DEFINE f == [stage |-> "list", hook |-> h, at |-> NULL]
  <2>6. f = [Top EXCEPT !.stage = "list", !.at = NULL]
    <3>1. Top = [stage |-> "drop_main", hook |-> h, at |-> r]
      BY <1>2, <2>1
    <3> DEFINE u == [Top EXCEPT !.stage = "list"]
    <3>2. u = [stage |-> "list", hook |-> h, at |-> r]
      BY ONLY <3>1
    <3>3. [Top EXCEPT !.stage = "list", !.at = NULL] = [u EXCEPT !.at = NULL]
      BY ONLY TRUE DEF u
    <3> HIDE DEF u
    <3>4. [u EXCEPT !.at = NULL] = [stage |-> "list", hook |-> h, at |-> NULL]
      BY ONLY <3>2
    <3>5. QED BY ONLY <3>3, <3>4 DEF f
  <2>7. SetTop(f) /\ f \in Frames /\ f.stage # "idle" /\ f.hook = h
    BY <1>2, <1>6, <2>6 DEF MainDropped, Frames, Stages
  <2> HIDE DEF f
  <2>8. QED BY <1>1, <1>3, <2>1, <2>3, <2>4, <2>5, <2>7, StepEnded
<1>7. CASE ListReturns(again) \/ ListDropped
  <2>1. s \in {"in_list", "drop_list"} /\ hook' = hook
    BY <1>7 DEF ListReturns, ListDropped, At
  <2>2. r \in Traps /\ r \in ToSet(hook[h].list)
    BY <1>2, <2>1 DEF FrameKept, Calling
  <2>3. \A x \in Traps: x # r => trap'[x].status = trap[x].status
    BY <1>3, <1>7 DEF ListReturns, ListDropped
  <2>4. PICK f \in Frames: SetTop(f) /\ f.stage # "idle" /\ f.hook = h /\ f.at = r
    <3> DEFINE a == [stage |-> "drop_list", hook |-> h, at |-> r]
               b == [stage |-> "list", hook |-> h, at |-> r]
    <3>1. /\ a \in Frames /\ b \in Frames /\ a.stage # "idle" /\ b.stage # "idle"
          /\ a.hook = h /\ b.hook = h /\ a.at = r /\ b.at = r
      BY <1>2 DEF Frames, Stages
    <3>2. a = [Top EXCEPT !.stage = "drop_list"] /\ b = [Top EXCEPT !.stage = "list"]
      BY <1>2, <2>1
    <3>3. SetTop([Top EXCEPT !.stage = "drop_list"]) \/ SetTop([Top EXCEPT !.stage = "list"])
      BY <1>7 DEF ListReturns, ListDropped
    <3> HIDE DEF a, b
    <3>4. QED BY <3>1, <3>2, <3>3
  <2>5. QED BY <1>1, <1>3, <2>1, <2>2, <2>3, <2>4, StepEnded
<1>8. QED BY <1>4, <1>5, <1>6, <1>7

(* The last step sweeps the ended traps away: EndedInv is what makes the list
   clean when nobody goes through it any more. *)
LEMMA NotifyDoneEnded ==
  ASSUME HookInv, EndedInv, NotifyDone
  PROVE  EndedInv'
<1> OtherTypes /\ PlacesInv /\ StackInv /\ DestroyedOnce
  BY InvParts
<1>1. At("list") /\ stack' = Front(stack)
  BY DEF NotifyDone
<1>2. Len(stack) \in Calls /\ Top = stack[Len(stack)] /\ Top.hook \in Hooks
  BY <1>1, TopFrame
<1> PICK h \in Hooks: h = Top.hook
  BY <1>2
<1>3. /\ hook \in [Hooks -> HookRecords] /\ hook[h].list \in Seq(Traps) /\ Injective(hook[h].list)
      /\ \A g \in Hooks: \A x \in ToSet(hook[g].list): x \in Traps
  BY DEF OtherTypes, HookRecords, PlacesInv, ToSet
<1>4. /\ Pruned(hook[h].list) \in Seq(Traps)
      /\ ToSet(Pruned(hook[h].list)) = {r \in ToSet(hook[h].list): Live(r)}
  BY <1>3, PrunedIs
<1> DEFINE p == [hook EXCEPT ![h].list = Pruned(@), ![h].is_notifying = FALSE]
<1>5. /\ p \in [Hooks -> HookRecords]
      /\ \A g \in Hooks \ {h}: p[g] = hook[g]
      /\ p[h].is_idle_notify = hook[h].is_idle_notify
      /\ p[h].list = Pruned(hook[h].list)
  <2> DEFINE k == [hook[h] EXCEPT !.list = Pruned(hook[h].list), !.is_notifying = FALSE]
  <2>1. /\ k \in HookRecords /\ k.is_idle_notify = hook[h].is_idle_notify
        /\ k.list = Pruned(hook[h].list)
        /\ p = [hook EXCEPT ![h] = k]
    BY ZenonT(60), <1>3, <1>4 DEF HookRecords
  <2> HIDE DEF k, p
  <2>2. QED BY <1>3, <2>1
<1>6. IF hook[h].clear_in_notify
      THEN ClearNow(h, p)
      ELSE hook' = p /\ UNCHANGED <<trap, countVars, destroyed>>
  BY DEF NotifyDone
<1> HIDE DEF p
<1>7. /\ \A g \in Hooks \ {h}: hook'[g].list = hook[g].list
      /\ \A g \in Hooks \ {h}: \A x \in ToSet(hook[g].list): trap'[x] = trap[x]
      /\ \A x \in ToSet(hook'[h].list): trap'[x].status = "live"
  <2>1. CASE hook[h].clear_in_notify
    <3>1. ClearNow(h, p)
      BY <1>6, <2>1
    <3>2. /\ \A g \in Hooks \ {h}: hook'[g] = hook[g]
          /\ \A x \in Traps: ~OnHook(x, h) => trap'[x] = trap[x]
      BY <1>5, <3>1, ClearedIs
    <3>3. hook'[h].list = <<>>
      BY <1>5, <3>1 DEF ClearNow, HookRecords
    <3>4. \A g \in Hooks \ {h}: \A x \in ToSet(hook[g].list): ~OnHook(x, h)
      BY <1>3 DEF PlacesInv, OnHook
    <3>5. QED BY <1>3, <3>2, <3>3, <3>4 DEF ToSet
  <2>2. CASE ~hook[h].clear_in_notify
    <3>1. hook' = p /\ trap' = trap
      BY <1>6, <2>2
    <3>2. QED BY <1>4, <1>5, <3>1 DEF Live
  <2>3. QED BY <2>1, <2>2
<1>8. \A i \in Calls: i # Len(stack) => i \in Calls' /\ stack'[i] = stack[i]
  <2> PICK n: n = Len(stack)
    OBVIOUS
  <2>1. stack \in Seq(Frames) /\ stack # <<>> /\ n \in Nat /\ DOMAIN stack = 1..n
    BY <1>1, FrameIs DEF At, OtherTypes
  <2>2. /\ Front(stack) \in Seq(Frames) /\ Len(Front(stack)) = n - 1
        /\ \A i \in 1..(n - 1): Front(stack)[i] = stack[i]
    BY <2>1, FrontIs
  <2>3. DOMAIN stack' = 1..(n - 1)
    BY <1>1, <2>2
  <2>4. QED BY <1>1, <2>1, <2>2, <2>3 DEF Calls
<1>9. QED
  <2> SUFFICES ASSUME NEW g \in Hooks, NEW x \in ToSet(hook'[g].list), trap'[x].status # "live"
               PROVE  \E i \in Calls': stack'[i].hook = g /\ Before(hook'[g].list, x, stack'[i].at)
    BY DEF EndedInv, Live
  <2>1. g # h /\ hook'[g].list = hook[g].list
    BY <1>7
  <2>2. x \in ToSet(hook[g].list) /\ ~Live(x)
    BY <1>7, <2>1 DEF Live
  <2>3. PICK i \in Calls: stack[i].hook = g /\ Before(hook[g].list, x, stack[i].at)
    BY <2>2 DEF EndedInv
  <2>4. i # Len(stack)
    BY <1>2, <2>1, <2>3
  <2>5. QED BY <1>8, <2>1, <2>3, <2>4

(* The steps of run_idle_notifications keep EndedInv. *)
LEMMA IdleEnded ==
  ASSUME HookInv, EndedInv, RunIdle \/ IdleNext \/ IdleDone
  PROVE  EndedInv'
<1> OtherTypes /\ StackInv /\ CountsKept
  BY InvParts
<1>1. CASE RunIdle \/ IdleDone
  <2>1. hook' = hook /\ trap' = trap
    BY <1>1 DEF RunIdle, IdleDone
  <2>2. Calls = {}
    <3>1. CASE RunIdle
      BY <3>1 DEF RunIdle, Calls
    <3>2. CASE IdleDone
      BY <3>2, IdleFrame DEF IdleDone
    <3>3. QED BY <1>1, <3>1, <3>2
  <2>3. \A g \in Hooks: \A x \in ToSet(hook[g].list): Live(x)
    BY <2>2 DEF EndedInv
  <2>4. QED BY <2>1, <2>3 DEF EndedInv, Live
<1>2. CASE IdleNext
  <2> PICK h: h = Head(idle_list)
    OBVIOUS
  <2>1. At("idle") /\ h # Guard /\ StartNotify(h) /\ trap' = trap
    BY <1>2 DEF IdleNext
  <2>2. IdleRuns
    BY <2>1, IdleFrame
  <2>3. /\ idle_list \in Seq(Hooks \cup {Guard}) /\ Injective(idle_list)
        /\ idle_list # <<>>
    BY <2>2 DEF CountsKept, CountTypes, IdleInv, ToSet
  <2>4. h \in Hooks
    BY <2>1, <2>3, TailIs
  <2>5. QED BY <2>1, <2>4, StartEnded
<1>3. QED BY <1>1, <1>2

-----------------------------------------------------------------------------
(* Every step keeps the invariant. *)

(* Every step of the specification keeps both invariants. *)
LEMMA NextKeeps ==
  ASSUME HookInv, EndedInv, Careful, [Next]_vars
  PROVE  HookInv' /\ EndedInv'
<1>1. CASE Call
  <2>1. ASSUME NEW h \in Hooks, NEW r \in Traps, Trap(h, r) PROVE HookInv' /\ EndedInv'
    BY <2>1, TrapKeeps, TrapEnded
  <2>2. ASSUME NEW h \in Hooks, NEW r \in Traps, TrapDestroy(h, r) PROVE HookInv' /\ EndedInv'
    BY <2>2, TrapDestroyKeeps, TrapDestroyEnded
  <2>3. ASSUME NEW h \in Hooks, NEW r \in Traps, TrapBlock(h, r) PROVE HookInv' /\ EndedInv'
    BY <2>3, TrapBlockKeeps, CallsEnded
  <2>4. ASSUME NEW h \in Hooks, NEW r \in Traps, TrapUnblock(h, r) PROVE HookInv' /\ EndedInv'
    BY <2>4, TrapUnblockKeeps, CallsEnded
  <2>5. ASSUME NEW h \in Hooks, SetIdleNotify(h) PROVE HookInv' /\ EndedInv'
    <3>1. HookInv'
      BY <2>5, SetIdleNotifyKeeps
    <3>2. EndedInv'
      BY <2>5, CallsEnded
    <3>3. QED BY <3>1, <3>2
  <2>6. ASSUME NEW h \in Hooks, Clear(h) PROVE HookInv' /\ EndedInv'
    <3>1. HookInv'
      BY <2>6, ClearKeeps
    <3>2. EndedInv'
      BY <2>6, CallsEnded
    <3>3. QED BY <3>1, <3>2
  <2>7. ASSUME NEW h \in Hooks, Notify(h) PROVE HookInv' /\ EndedInv'
    <3>1. StartNotify(h) /\ UNCHANGED trap
      BY <2>7 DEF Notify
    <3>2. QED BY <2>7, <3>1, NotifyKeeps, StartEnded
  <2>8. QED BY <1>1, <2>1, <2>2, <2>3, <2>4, <2>5, <2>6, <2>7 DEF Call
<1>2. CASE CallMain
  BY <1>2, CallMainKeeps, StepsEnded
<1>3. CASE MainDropped
  BY <1>3, MainDroppedKeeps, StepsEnded
<1>4. CASE CallNext
  BY <1>4, CallNextKeeps
<1>5. CASE ListDropped
  BY <1>5, ListDroppedKeeps, StepsEnded
<1>6. CASE NotifyDone
  BY <1>6, NotifyDoneKeeps, NotifyDoneEnded
<1>7. CASE IdleNext
  BY <1>7, IdleNextKeeps, IdleEnded
<1>8. CASE IdleDone
  BY <1>8, IdleDoneKeeps, IdleEnded
<1>9. CASE RunIdle
  BY <1>9, RunIdleKeeps, IdleEnded
<1>10. ASSUME NEW again \in BOOLEAN, MainReturns(again) PROVE HookInv' /\ EndedInv'
  BY <1>10, MainReturnsKeeps, StepsEnded
<1>11. ASSUME NEW again \in BOOLEAN, ListReturns(again) PROVE HookInv' /\ EndedInv'
  BY <1>11, ListReturnsKeeps, StepsEnded
<1>12. CASE UNCHANGED vars
  <2>1. HookInv'
    <3>1. \A g: Counted(g)' = Counted(g)
      BY <1>12 DEF Counted, OnHook, Live, vars, countVars
    <3>2. TypeOK' /\ DestroyedOnce'
      BY <1>12 DEF HookInv, TypeOK, DestroyedOnce, vars, countVars
    <3>3. PlacesInv'
      BY <1>12 DEF HookInv, PlacesInv, OnHook, Live, vars
    <3>4. StackInv'
      BY <1>12 DEF HookInv, StackInv, Calls, FrameKept, OnHook, Live, vars
    <3>5. CountInv' /\ IdleInv'
      BY <1>12, <3>1 DEF HookInv, CountInv, IdleInv, IdleRuns, Injective, vars, countVars
    <3>6. QED BY <3>2, <3>3, <3>4, <3>5 DEF HookInv
  <2>2. EndedInv'
    BY <1>12 DEF EndedInv, Calls, Live, vars
  <2>3. QED BY <2>1, <2>2
<1>13. QED
  BY <1>1, <1>2, <1>3, <1>4, <1>5, <1>6, <1>7, <1>8, <1>9, <1>10, <1>11, <1>12 DEF Next, Step

(* Through every order of trapping, blocking, destroying, clearing and *)
(* notifying, by the program or by a callback of any depth, the invariant *)
(* holds - for callbacks that avoid the two cases of MayEnd. *)
THEOREM HookInvHolds == ASSUME Careful PROVE Spec => [](HookInv /\ EndedInv)
<1>1. Init => HookInv /\ EndedInv
  BY InitKeeps
<1>2. HookInv /\ EndedInv /\ [Next]_vars => (HookInv /\ EndedInv)'
  BY NextKeeps
<1>3. QED BY <1>1, <1>2, PTL DEF Spec

(* dsk_hook_trap .. _unblock, _clear and dsk_hook_notify keep trap_count *)
(* the number of active traps, and set_poll is told of its edges: for any *)
(* number of hooks and traps, and any depth of calls from callbacks. *)
THEOREM CountsAreExact == ASSUME Careful PROVE Spec => []CountsActive
<1>1. HookInv => CountsActive
  BY DEF HookInv, CountInv, CountsActive
<1>2. QED BY <1>1, HookInvHolds, PTL

(* A set with a member and no second one has cardinality one. *)
LEMMA OneOrNone ==
  ASSUME NEW S, \A a, b \in S: a = b
  PROVE  Cardinality(S) = IF S # {} THEN 1 ELSE 0
<1>1. CASE S = {}
  BY <1>1, FS_EmptySet
<1>2. CASE S # {}
  <2>1. PICK a: S = {a}
    BY <1>2
  <2>2. QED BY <1>2, <2>1, FS_Singleton
<1>3. QED BY <1>1, <1>2

(* The list that run_idle_notifications walks has each hook that wants to *)
(* be notified once, and is walked again while it has one. *)
THEOREM IdleListIsExact == ASSUME Careful PROVE Spec => []IdleListExact
<1>1. ASSUME HookInv PROVE IdleListExact
  <2> OtherTypes /\ StackInv /\ IdleInv
    BY <1>1, InvParts DEF HookInv
  <2>1. ASSUME NEW h \in Hooks
        PROVE  Cardinality({i \in DOMAIN idle_list: idle_list[i] = h})
                 = IF hook[h].is_idle_notify /\ Counted(h) # {} THEN 1 ELSE 0
    <3> DEFINE S == {i \in DOMAIN idle_list: idle_list[i] = h}
    <3>1. \A a, b \in S: a = b
      BY DEF IdleInv, Injective
    <3>2. S # {} <=> h \in ToSet(idle_list)
      BY DEF ToSet
    <3>3. h \in ToSet(idle_list) <=> hook[h].is_idle_notify /\ Counted(h) # {}
      BY DEF IdleInv
    <3> HIDE DEF S
    <3>4. Cardinality(S) = IF S # {} THEN 1 ELSE 0
      BY <3>1, OneOrNone
    <3>5. Cardinality(S) = IF hook[h].is_idle_notify /\ Counted(h) # {} THEN 1 ELSE 0
      BY <3>2, <3>3, <3>4
    <3>6. QED BY <3>5 DEF S
  <2>2. (\E i \in DOMAIN stack: stack[i].stage = "idle") <=> IdleRuns
    <3>1. \A i \in DOMAIN stack: stack[i].stage = "idle" => i = 1
      BY DEF StackInv, Calls
    <3>2. stack # <<>> => 1 \in DOMAIN stack
      BY DEF OtherTypes
    <3>3. stack = <<>> => \A i \in DOMAIN stack: FALSE
      OBVIOUS
    <3>4. QED BY <3>1, <3>2, <3>3 DEF IdleRuns
  <2>3. QED BY <2>1, <2>2 DEF IdleListExact, IdleInv
<1>2. HookInv => IdleListExact
  BY <1>1
<1>3. QED BY <1>2, HookInvHolds, PTL

(* Each call of dsk_hook_notify stands on a trap that is still there, *)
(* whatever callbacks at any depth destroy or clear, a hook is notified by *)
(* one call at a time, and the data of a trap is destroyed once, when it *)
(* ends. *)
THEOREM TrapsOutliveTheirCalls == ASSUME Careful PROVE Spec => []TrapsOutliveCalls
<1>1. ASSUME HookInv PROVE TrapsOutliveCalls
  <2> OtherTypes /\ StackInv /\ DestroyedOnce
    BY <1>1, InvParts DEF HookInv
  <2>1. ASSUME NEW h \in Hooks
        PROVE  Cardinality({i \in DOMAIN stack: stack[i].stage # "idle" /\ stack[i].hook = h})
                 = IF hook[h].is_notifying THEN 1 ELSE 0
    <3> DEFINE S == {i \in DOMAIN stack: stack[i].stage # "idle" /\ stack[i].hook = h}
    <3>1. \A i: i \in S <=> i \in Calls /\ stack[i].hook = h
      BY DEF Calls
    <3> HIDE DEF S
    <3>2. \A a, b \in S: a = b
      BY <3>1 DEF StackInv
    <3>3. S # {} <=> hook[h].is_notifying
      BY <3>1 DEF StackInv
    <3>4. Cardinality(S) = IF S # {} THEN 1 ELSE 0
      BY <3>2, OneOrNone
    <3>5. Cardinality(S) = IF hook[h].is_notifying THEN 1 ELSE 0
      BY <3>3, <3>4
    <3>6. QED BY <3>5 DEF S
  <2>2. ASSUME NEW f \in ToSet(stack)
        PROVE  /\ f.stage = "in_main" => hook[f.hook].main = f.at
               /\ (f.stage \in {"list", "in_list", "drop_list"} /\ f.at # NULL)
                    => f.at \in ToSet(hook[f.hook].list)
    <3>1. PICK i \in DOMAIN stack: stack[i] = f
      BY DEF ToSet
    <3>2. CASE f.stage = "idle"
      BY <3>2
    <3>3. CASE f.stage # "idle"
      <4>1. i \in Calls
        BY <3>1, <3>3 DEF Calls
      <4>2. FrameKept(f)
        BY <3>1, <4>1 DEF StackInv
      <4>3. QED BY <4>2 DEF FrameKept
    <3>4. QED BY <3>2, <3>3
  <2>3. QED BY <2>1, <2>2 DEF TrapsOutliveCalls, StandsOnItsTrap
<1>2. HookInv => TrapsOutliveCalls
  BY <1>1
<1>3. QED BY <1>2, HookInvHolds, PTL
=============================================================================
