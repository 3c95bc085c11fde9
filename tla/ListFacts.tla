------------------------------ MODULE ListFacts ------------------------------
(***************************************************************************)
(* Facts about the sequences and numbers of several components: lists of   *)
(* which no member comes twice, and the least number of a set, by which    *)
(* what a recursive function computes is proved.                           *)
(***************************************************************************)
EXTENDS Naturals, Sequences, SequencesExt, FiniteSetTheorems, SequenceTheorems,
        WellFoundedInduction, TLAPS

(* No member of a sequence comes twice. *)
Injective(list) == \A i, j \in DOMAIN list: list[i] = list[j] => i = j

(* The list without x, which is on it once at most. *)
Removed(list, x) == IF x \in ToSet(list)
                    THEN RemoveAt(list, CHOOSE i \in DOMAIN list: list[i] = x)
                    ELSE list

(* A set of numbers with a member has a least one. *)
LEMMA LeastNat ==
  ASSUME NEW T \in SUBSET Nat, T # {}
  PROVE  \E m \in T: \A n \in T: m <= n
<1> DEFINE R == OpToRel(<, Nat)
<1>1. IsWellFoundedOn(R, Nat)
  BY NatLessThanWellFounded
<1>2. \A y, x \in Nat: y < x => <<y, x>> \in R
  BY DEF OpToRel
<1> HIDE DEF R
<1>3. PICK x \in T: \A y \in T: <<y, x>> \notin R
  BY <1>1, WFMin
<1>4. \A y \in T: x \in Nat /\ y \in Nat /\ ~(y < x)
  BY <1>2, <1>3
<1>6. \A y \in T: x <= y
  BY <1>4
<1>5. QED BY <1>6

(* What Append adds to a sequence. *)
LEMMA AppendIs ==
  ASSUME NEW S, NEW list \in Seq(S), NEW x \in S
  PROVE  /\ Append(list, x) \in Seq(S)
         /\ Len(Append(list, x)) = Len(list) + 1
         /\ \A i \in 1..Len(list): Append(list, x)[i] = list[i]
         /\ Append(list, x)[Len(list) + 1] = x
         /\ ToSet(Append(list, x)) = ToSet(list) \cup {x}
         /\ Injective(list) /\ x \notin ToSet(list) => Injective(Append(list, x))
<1> DEFINE longer == Append(list, x)
<1>1. /\ longer \in Seq(S) /\ Len(longer) = Len(list) + 1
      /\ \A i \in 1..Len(list): longer[i] = list[i]
      /\ longer[Len(list) + 1] = x
  OBVIOUS
<1>2. DOMAIN longer = 1..(Len(list) + 1) /\ DOMAIN list = 1..Len(list) /\ Len(list) \in Nat
  OBVIOUS
<1> HIDE DEF longer
<1>3. ToSet(longer) = ToSet(list) \cup {x}
  BY <1>1, <1>2 DEF ToSet
<1>4. ASSUME Injective(list), x \notin ToSet(list) PROVE Injective(longer)
  BY <1>1, <1>2, <1>4 DEF ToSet, Injective
<1>5. QED BY <1>1, <1>3, <1>4 DEF longer

(* Taking a member out leaves the others. *)
LEMMA RemoveIs ==
  ASSUME NEW S, NEW list \in Seq(S), Injective(list), NEW x
  PROVE  /\ Removed(list, x) \in Seq(S)
         /\ ToSet(Removed(list, x)) = ToSet(list) \ {x}
         /\ Injective(Removed(list, x))
<1>1. CASE x \notin ToSet(list)
  BY <1>1 DEF Removed
<1>2. CASE x \in ToSet(list)
  <2> DEFINE k == CHOOSE i \in DOMAIN list: list[i] = x
             shorter == Removed(list, x)
  <2>1. k \in 1..Len(list) /\ list[k] = x
    BY <1>2 DEF ToSet
  <2>2. \A i \in 1..Len(list): i # k => list[i] # x
    BY <2>1 DEF Injective
  <2> HIDE DEF k
  <2>3. shorter = SubSeq(list, 1, k - 1) \o SubSeq(list, k + 1, Len(list))
    BY <1>2 DEF Removed, RemoveAt, k
  <2>4. /\ shorter \in Seq(S) /\ Len(shorter) = Len(list) - 1
        /\ \A i \in 1..(Len(list) - 1): shorter[i] = IF i < k THEN list[i] ELSE list[i + 1]
    <3> DEFINE a == SubSeq(list, 1, k - 1)
               b == SubSeq(list, k + 1, Len(list))
               n == Len(list)
    <3>1. a \in Seq(S) /\ Len(a) = k - 1 /\ \A i \in 1..(k - 1): a[i] = list[i]
      BY <2>1
    <3>2. b \in Seq(S) /\ Len(b) = n - k /\ \A i \in 1..(n - k): b[i] = list[i + k]
      BY <2>1
    <3>3. shorter = a \o b /\ n \in Nat /\ k \in 1..n
      BY <2>1, <2>3
    <3> HIDE DEF shorter, a, b, n
    <3>4. /\ shorter \in Seq(S) /\ Len(shorter) = n - 1
          /\ \A i \in 1..(n - 1): shorter[i] = IF i <= k - 1 THEN a[i] ELSE b[i - (k - 1)]
      BY <3>1, <3>2, <3>3
    <3>5. ASSUME NEW i \in 1..(n - 1) PROVE shorter[i] = IF i < k THEN list[i] ELSE list[i + 1]
      <4>1. CASE i < k
        BY <3>1, <3>3, <3>4, <4>1
      <4>2. CASE ~(i < k)
        <5>1. i - (k - 1) \in 1..(n - k) /\ (i - (k - 1)) + k = i + 1 /\ ~(i <= k - 1)
          BY <3>3, <4>2
        <5>2. shorter[i] = b[i - (k - 1)] /\ b[i - (k - 1)] = list[(i - (k - 1)) + k]
          BY <3>2, <3>4, <5>1
        <5>3. QED BY <4>2, <5>1, <5>2
      <4>3. QED BY <4>1, <4>2
    <3>6. QED BY <3>4, <3>5 DEF n
  <2> HIDE DEF shorter
  <2>5. DOMAIN shorter = 1..(Len(list) - 1) /\ DOMAIN list = 1..Len(list) /\ Len(list) \in Nat
    BY <2>4, <2>1
  <2>6. Injective(shorter)
    <3>1. \A i, j \in 1..Len(list): list[i] = list[j] => i = j
      BY <2>5 DEF Injective
    <3> SUFFICES ASSUME NEW i \in 1..(Len(list) - 1), NEW j \in 1..(Len(list) - 1),
                        shorter[i] = shorter[j]
                 PROVE  i = j
      BY <2>5 DEF Injective
    <3> DEFINE At_(l) == IF l < k THEN l ELSE l + 1
    <3>2. At_(i) \in 1..Len(list) /\ At_(j) \in 1..Len(list) /\ (At_(i) = At_(j) => i = j)
      BY <2>1, <2>5
    <3>3. shorter[i] = list[At_(i)] /\ shorter[j] = list[At_(j)]
      BY <2>4
    <3> HIDE DEF At_
    <3>4. QED BY <3>1, <3>2, <3>3
  <2>7. ASSUME NEW y \in ToSet(shorter) PROVE y \in ToSet(list) \ {x}
    <3>1. PICK i \in 1..(Len(list) - 1): shorter[i] = y
      BY <2>5 DEF ToSet
    <3>2. PICK l \in 1..Len(list): l # k /\ list[l] = y
      <4>1. CASE i < k
        BY <2>1, <2>4, <2>5, <3>1, <4>1
      <4>2. CASE ~(i < k)
        BY <2>1, <2>4, <2>5, <3>1, <4>2
      <4>3. QED BY <4>1, <4>2
    <3>3. QED BY <2>2, <2>5, <3>2 DEF ToSet
  <2>8. ASSUME NEW y \in ToSet(list), y # x PROVE y \in ToSet(shorter)
    <3>1. PICK i \in 1..Len(list): list[i] = y
      BY <2>5 DEF ToSet
    <3>2. CASE i < k
      <4>1. i \in 1..(Len(list) - 1)
        BY ONLY <2>1, <2>5, <3>2
      <4>2. shorter[i] = y
        BY <2>4, <3>1, <3>2, <4>1
      <4>3. QED BY <4>1, <4>2, <2>5 DEF ToSet
    <3>3. CASE i > k
      <4>1. i - 1 \in 1..(Len(list) - 1) /\ shorter[i - 1] = y
        BY <2>1, <2>4, <3>1, <3>3
      <4>2. QED BY <4>1, <2>5 DEF ToSet
    <3>4. QED BY <2>1, <2>8, <3>1, <3>2, <3>3
  <2>9. QED BY <2>4, <2>6, <2>7, <2>8 DEF shorter
<1>3. QED BY <1>1, <1>2

(* Taking the first member out leaves the others. *)
LEMMA TailIs ==
  ASSUME NEW S, NEW list \in Seq(S), Injective(list), list # <<>>
  PROVE  /\ Head(list) \in ToSet(list) /\ Head(list) \in S
         /\ Tail(list) \in Seq(S)
         /\ ToSet(Tail(list)) = ToSet(list) \ {Head(list)}
         /\ Injective(Tail(list))
<1> DEFINE rest == Tail(list)
           n == Len(list)
<1>1. /\ Head(list) = list[1] /\ n \in Nat /\ n >= 1 /\ DOMAIN list = 1..n
      /\ rest \in Seq(S) /\ Len(rest) = n - 1 /\ DOMAIN rest = 1..(n - 1)
      /\ \A i \in 1..(n - 1): rest[i] = list[i + 1]
  OBVIOUS
<1> HIDE DEF rest, n
<1>2. Head(list) \in ToSet(list) /\ Head(list) \in S
  BY <1>1 DEF ToSet, n
<1>3. \A i, j \in 1..n: list[i] = list[j] => i = j
  BY <1>1 DEF Injective
<1>4. Injective(rest)
  <2> SUFFICES ASSUME NEW i \in 1..(n - 1), NEW j \in 1..(n - 1), rest[i] = rest[j]
               PROVE  i = j
    BY <1>1 DEF Injective
  <2>1. rest[i] = list[i + 1] /\ rest[j] = list[j + 1] /\ i + 1 \in 1..n /\ j + 1 \in 1..n
    BY <1>1
  <2>2. i + 1 = j + 1
    BY <1>3, <2>1
  <2>3. QED BY <1>1, <2>2
<1>5. ASSUME NEW y \in ToSet(rest) PROVE y \in ToSet(list) \ {Head(list)}
  <2>1. PICK i \in 1..(n - 1): rest[i] = y
    BY <1>1 DEF ToSet
  <2>2. i + 1 \in 1..n /\ i + 1 # 1 /\ 1 \in 1..n /\ y = list[i + 1]
    BY <1>1, <2>1
  <2>3. y # list[1]
    BY <1>3, <2>2
  <2>4. QED BY <1>1, <2>2, <2>3 DEF ToSet
<1>6. ASSUME NEW y \in ToSet(list), y # Head(list) PROVE y \in ToSet(rest)
  <2>1. PICK i \in 1..n: list[i] = y
    BY <1>1 DEF ToSet
  <2>2. i - 1 \in 1..(n - 1) /\ rest[i - 1] = y
    BY <1>1, <1>6, <2>1
  <2>3. QED BY <1>1, <2>2 DEF ToSet
<1>7. QED BY <1>1, <1>2, <1>4, <1>5, <1>6 DEF rest

(* What putting x before a sequence adds to it. *)
LEMMA PrependIs ==
  ASSUME NEW S, NEW list \in Seq(S), NEW x \in S
  PROVE  /\ <<x>> \o list \in Seq(S)
         /\ <<x>> \o list # <<>>
         /\ ToSet(<<x>> \o list) = ToSet(list) \cup {x}
         /\ Injective(list) /\ x \notin ToSet(list) => Injective(<<x>> \o list)
<1> DEFINE longer == <<x>> \o list
           n == Len(list)
<1>1. /\ longer \in Seq(S) /\ Len(longer) = n + 1 /\ n \in Nat
      /\ DOMAIN longer = 1..(n + 1) /\ DOMAIN list = 1..n
      /\ \A i \in 1..(n + 1): longer[i] = IF i = 1 THEN x ELSE list[i - 1]
  OBVIOUS
<1> HIDE DEF longer, n
<1>2. longer # <<>>
  BY <1>1
<1>3. ASSUME NEW y \in ToSet(longer) PROVE y \in ToSet(list) \cup {x}
  <2>1. PICK i \in 1..(n + 1): longer[i] = y
    BY <1>1 DEF ToSet
  <2>2. CASE i = 1
    BY <1>1, <2>1, <2>2
  <2>3. CASE i # 1
    <3>1. i - 1 \in 1..n /\ list[i - 1] = y
      BY <1>1, <2>1, <2>3
    <3>2. QED BY <1>1, <3>1 DEF ToSet
  <2>4. QED BY <2>2, <2>3
<1>4. ASSUME NEW y \in ToSet(list) \cup {x} PROVE y \in ToSet(longer)
  <2>1. CASE y = x
    <3>1. 1 \in 1..(n + 1) /\ longer[1] = y
      BY <1>1, <2>1
    <3>2. QED BY <1>1, <3>1 DEF ToSet
  <2>2. CASE y \in ToSet(list)
    <3>1. PICK i \in 1..n: list[i] = y
      BY <1>1, <2>2 DEF ToSet
    <3>2. i + 1 \in 1..(n + 1) /\ longer[i + 1] = y
      BY <1>1, <3>1
    <3>3. QED BY <1>1, <3>2 DEF ToSet
  <2>3. QED BY <2>1, <2>2
<1>5. ASSUME Injective(list), x \notin ToSet(list) PROVE Injective(longer)
  <2> SUFFICES ASSUME NEW i \in 1..(n + 1), NEW j \in 1..(n + 1), longer[i] = longer[j]
               PROVE  i = j
    BY <1>1 DEF Injective
  <2>1. \A a, b \in 1..n: list[a] = list[b] => a = b
    BY <1>1, <1>5 DEF Injective
  <2>2. \A a \in 1..n: list[a] # x
    BY <1>1, <1>5 DEF ToSet
  <2>3. \A a \in 1..(n + 1): a # 1 => a - 1 \in 1..n /\ longer[a] = list[a - 1]
    BY <1>1
  <2>4. longer[1] = x
    BY <1>1
  <2>5. CASE i = 1 \/ j = 1
    BY <2>2, <2>3, <2>4, <2>5
  <2>6. CASE i # 1 /\ j # 1
    <3>1. i - 1 = j - 1
      BY <2>1, <2>3, <2>6
    <3>2. QED BY <1>1, <3>1
  <2>7. QED BY <2>5, <2>6
<1>6. ToSet(longer) = ToSet(list) \cup {x}
  BY <1>3, <1>4
<1>7. QED BY <1>1, <1>2, <1>5, <1>6 DEF longer

(* The end of a sequence from its member k + 1. *)
LEMMA RestIs ==
  ASSUME NEW S, NEW list \in Seq(S), NEW k \in 0..Len(list)
  PROVE  LET rest == SubSeq(list, k + 1, Len(list)) IN
         /\ rest \in Seq(S) /\ ToSet(rest) \subseteq ToSet(list)
         /\ Injective(list) => Injective(rest)
<1> DEFINE rest == SubSeq(list, k + 1, Len(list))
           n == Len(list)
<1>1. /\ rest \in Seq(S) /\ n \in Nat /\ k \in 0..n /\ DOMAIN rest = 1..(n - k) /\ DOMAIN list = 1..n
      /\ \A i \in 1..(n - k): rest[i] = list[i + k]
  OBVIOUS
<1> HIDE DEF rest, n
<1>2. ASSUME NEW y \in ToSet(rest) PROVE y \in ToSet(list)
  <2>1. PICK i \in 1..(n - k): rest[i] = y
    BY <1>1 DEF ToSet
  <2>2. i + k \in 1..n /\ list[i + k] = y
    BY <1>1, <2>1
  <2>3. QED BY <1>1, <2>2 DEF ToSet
<1>3. ASSUME Injective(list) PROVE Injective(rest)
  <2> SUFFICES ASSUME NEW i \in 1..(n - k), NEW j \in 1..(n - k), rest[i] = rest[j]
               PROVE  i = j
    BY <1>1 DEF Injective
  <2>1. \A a, b \in 1..n: list[a] = list[b] => a = b
    BY <1>1, <1>3 DEF Injective
  <2>2. i + k \in 1..n /\ j + k \in 1..n /\ list[i + k] = list[j + k]
    BY <1>1
  <2>3. i + k = j + k
    BY <2>1, <2>2
  <2>4. QED BY <1>1, <2>3
<1>4. QED BY <1>1, <1>2, <1>3 DEF rest

(* A set of numbers below a bound has a greatest one; Min and Max find them. *)
LEMMA MinIs ==
  ASSUME NEW T \in SUBSET Nat, T # {}
  PROVE  Min(T) \in T /\ \A n \in T: Min(T) <= n
<1>1. \E m \in T: \A n \in T: m <= n
  BY LeastNat
<1>2. QED BY ONLY <1>1 DEF Min

(* The greatest member of a finite set of numbers is one. *)
LEMMA MaxIs ==
  ASSUME NEW T \in SUBSET Nat, T # {}, NEW b \in Nat, \A n \in T: n <= b
  PROVE  Max(T) \in T /\ \A n \in T: n <= Max(T)
<1> DEFINE U == {b - n: n \in T}
<1>1. U \in SUBSET Nat /\ U # {}
  <2>1. \A n \in T: n \in Nat /\ n <= b
    OBVIOUS
  <2>2. \A n \in T: b - n \in Nat
    BY <2>1
  <2>3. QED BY <2>2
<1>2. PICK u \in U: \A v \in U: u <= v
  BY <1>1, LeastNat
<1>3. PICK m \in T: u = b - m
  OBVIOUS
<1>4. \A n \in T: b - m <= b - n
  BY <1>2, <1>3
<1>5. \E x \in T: \A n \in T: x >= n
  BY <1>4
<1>6. Max(T) \in T /\ \A n \in T: Max(T) >= n
  BY ONLY <1>5 DEF Max
<1>7. QED BY <1>6

(* A sequence with x in place of its members p to q - 1. *)
Spliced(list, p, q, x) == SubSeq(list, 1, p - 1) \o <<x>> \o SubSeq(list, q, Len(list))

(* What a splice gives. *)
LEMMA SplicedIs ==
  ASSUME NEW S, NEW list \in Seq(S), NEW x \in S,
         NEW p \in 1..(Len(list) + 1), NEW q \in p..(Len(list) + 1)
  PROVE  /\ Spliced(list, p, q, x) \in Seq(S)
         /\ Len(Spliced(list, p, q, x)) = Len(list) + 1 - (q - p)
         /\ \A i \in 1..Len(Spliced(list, p, q, x)):
              Spliced(list, p, q, x)[i] = IF i < p THEN list[i]
                                          ELSE IF i = p THEN x ELSE list[i + (q - p) - 1]
<1>14. PICK t: t = Spliced(list, p, q, x)
  OBVIOUS
<1> DEFINE n == Len(list)
           u == SubSeq(list, 1, p - 1)
           v == SubSeq(list, q, n)
<1>1. /\ n \in Nat /\ p \in 1..(n + 1) /\ q \in p..(n + 1) /\ p \in Nat /\ q \in Nat
      /\ \A i \in 1..n: list[i] \in S
  OBVIOUS
<1>2. u \in Seq(S) /\ Len(u) = p - 1 /\ \A i \in 1..(p - 1): u[i] = list[i]
  OBVIOUS
<1>3. v \in Seq(S) /\ Len(v) = n + 1 - q /\ \A i \in 1..(n + 1 - q): v[i] = list[q + i - 1]
  OBVIOUS
<1> HIDE DEF n, u, v
<1>4. /\ u \o <<x>> \in Seq(S) /\ Len(u \o <<x>>) = p
      /\ \A i \in 1..p: (u \o <<x>>)[i] = IF i < p THEN list[i] ELSE x
  BY <1>1, <1>2
<1> DEFINE w == u \o <<x>>
<1>5. t = w \o v
  BY <1>14 DEF Spliced, u, v, n
<1>6. w \in Seq(S) /\ Len(w) = p /\ \A i \in 1..p: w[i] = IF i < p THEN list[i] ELSE x
  BY <1>4
<1> HIDE DEF w
<1>7. /\ t \in Seq(S) /\ Len(t) = p + (n + 1 - q)
      /\ \A i \in 1..(p + (n + 1 - q)): t[i] = IF i <= p THEN w[i] ELSE v[i - p]
  <2>1. w \in Seq(S) /\ v \in Seq(S)
    BY <1>3, <1>6
  <2>2. /\ w \o v \in Seq(S) /\ Len(w \o v) = Len(w) + Len(v)
        /\ \A i \in 1..(Len(w) + Len(v)): (w \o v)[i] = IF i <= Len(w) THEN w[i] ELSE v[i - Len(w)]
    BY ONLY <2>1, ConcatProperties
  <2>3. Len(w) = p /\ Len(v) = n + 1 - q
    BY <1>3, <1>6
  <2>4. QED BY ONLY <1>5, <2>2, <2>3
<1>8. ASSUME NEW i \in 1..(p + (n + 1 - q))
      PROVE  t[i] = IF i < p THEN list[i] ELSE IF i = p THEN x ELSE list[i + (q - p) - 1]
  <2>1. i \in 1..(p + (n + 1 - q)) /\ i \in Nat
    BY <1>1
  <2>2. CASE i <= p
    <3>1. t[i] = w[i]
      BY ONLY <1>7, <2>1, <2>2
    <3>2. i \in 1..p
      BY ONLY <1>1, <2>1, <2>2
    <3>3. t[i] = IF i < p THEN list[i] ELSE x
      BY ONLY <1>6, <3>1, <3>2
    <3>4. QED BY ONLY <1>1, <2>1, <2>2, <3>3
  <2>3. CASE ~(i <= p)
    <3>1. t[i] = v[i - p]
      BY ONLY <1>7, <2>1, <2>3
    <3>2. i - p \in 1..(n + 1 - q)
      BY ONLY <1>1, <2>1, <2>3
    <3>3. v[i - p] = list[q + (i - p) - 1]
      BY ONLY <1>3, <3>2
    <3>4. q + (i - p) - 1 = i + (q - p) - 1 /\ ~(i < p) /\ i # p
      BY ONLY <1>1, <2>1, <2>3
    <3>5. QED BY ONLY <3>1, <3>3, <3>4
  <2>4. QED BY ONLY <2>2, <2>3
<1>9. p + (n + 1 - q) = n + 1 - (q - p)
  BY ONLY <1>1
<1>11. Len(t) = n + 1 - (q - p)
  BY ONLY <1>7, <1>9
<1>12. \A i \in 1..Len(t): t[i] = IF i < p THEN list[i]
                                    ELSE IF i = p THEN x ELSE list[i + (q - p) - 1]
  BY ONLY <1>7, <1>8
<1>10. QED BY ONLY <1>7, <1>11, <1>12, <1>14 DEF n

(* A sequence with x put in before its member p. *)
LEMMA InsertedIs ==
  ASSUME NEW S, NEW list \in Seq(S), NEW x \in S, NEW p \in 1..(Len(list) + 1)
  PROVE  /\ InsertAt(list, p, x) \in Seq(S)
         /\ ToSet(InsertAt(list, p, x)) = ToSet(list) \cup {x}
         /\ Injective(list) /\ x \notin ToSet(list) => Injective(InsertAt(list, p, x))
<1> DEFINE t == InsertAt(list, p, x)
           n == Len(list)
<1>1. n \in Nat /\ DOMAIN list = 1..n /\ p \in 1..(n + 1) /\ p \in Nat
  OBVIOUS
<1>2. t = SubSeq(list, 1, p - 1) \o <<x>> \o SubSeq(list, p, Len(list))
  BY DEF InsertAt
<1>3. PICK q \in p..(Len(list) + 1): q = p
  BY <1>1
<1>11. t = Spliced(list, p, q, x)
  BY <1>2, <1>3 DEF Spliced
<1> HIDE DEF t, n
<1>4. /\ t \in Seq(S) /\ Len(t) = n + 1 - (q - p)
      /\ \A i \in 1..Len(t): t[i] = IF i < p THEN list[i]
                                    ELSE IF i = p THEN x ELSE list[i + (q - p) - 1]
  <2>1. p \in 1..(Len(list) + 1) /\ q \in p..(Len(list) + 1)
    BY <1>3
  <2>2. list \in Seq(S) /\ x \in S
    OBVIOUS
  <2>3. Spliced(list, p, q, x) \in Seq(S)
    BY ONLY <2>1, <2>2, SplicedIs
  <2>4. Len(Spliced(list, p, q, x)) = Len(list) + 1 - (q - p)
    BY ONLY <2>1, <2>2, SplicedIs
  <2>5. \A i \in 1..Len(Spliced(list, p, q, x)):
          Spliced(list, p, q, x)[i] = IF i < p THEN list[i]
                                      ELSE IF i = p THEN x ELSE list[i + (q - p) - 1]
    BY ONLY <2>1, <2>2, SplicedIs
  <2>6. QED BY ONLY <1>11, <2>3, <2>4, <2>5 DEF n
<1>5. /\ Len(t) = n + 1 /\ DOMAIN t = 1..(n + 1)
      /\ \A i \in 1..(n + 1): t[i] = IF i < p THEN list[i] ELSE IF i = p THEN x ELSE list[i - 1]
  <2>1. Len(t) = n + 1
    BY <1>1, <1>3, <1>4
  <2>2. DOMAIN t = 1..Len(t)
    BY <1>4, LenProperties
  <2>3. \A i \in 1..(n + 1): i + (q - p) - 1 = i - 1
    BY <1>1, <1>3
  <2>4. \A i \in 1..(n + 1): t[i] = IF i < p THEN list[i] ELSE IF i = p THEN x ELSE list[i + (q - p) - 1]
    BY ONLY <1>4, <2>1
  <2>5. \A i \in 1..(n + 1): t[i] = IF i < p THEN list[i] ELSE IF i = p THEN x ELSE list[i - 1]
    BY ONLY <2>3, <2>4
  <2>6. QED BY ONLY <2>1, <2>2, <2>5
<1>6. ASSUME NEW y \in ToSet(t) PROVE y \in ToSet(list) \cup {x}
  <2>1. PICK i \in 1..(n + 1): t[i] = y
    BY <1>5, <1>6 DEF ToSet
  <2>2. CASE i = p
    BY <1>5, <2>1, <2>2
  <2>3. CASE i < p
    <3>1. i \in 1..n /\ list[i] = y
      BY <1>1, <1>5, <2>1, <2>3
    <3>2. QED BY <1>1, <3>1 DEF ToSet
  <2>4. CASE i > p
    <3>1. i - 1 \in 1..n /\ list[i - 1] = y
      BY <1>1, <1>5, <2>1, <2>4
    <3>2. QED BY <1>1, <3>1 DEF ToSet
  <2>5. QED BY <1>1, <2>2, <2>3, <2>4
<1>7. ASSUME NEW y \in ToSet(list) \cup {x} PROVE y \in ToSet(t)
  <2>1. CASE y = x
    <3>1. p \in 1..(n + 1) /\ t[p] = y
      BY <1>1, <1>5, <2>1
    <3>2. QED BY <1>5, <3>1 DEF ToSet
  <2>2. CASE y \in ToSet(list)
    <3>1. PICK i \in 1..n: list[i] = y
      BY <1>1, <2>2 DEF ToSet
    <3>2. CASE i < p
      <4>1. i \in 1..(n + 1) /\ t[i] = y
        BY <1>1, <1>5, <3>1, <3>2
      <4>2. QED BY <1>5, <4>1 DEF ToSet
    <3>3. CASE ~(i < p)
      <4>1. i + 1 \in 1..(n + 1) /\ t[i + 1] = y
        BY <1>1, <1>5, <3>1, <3>3
      <4>2. QED BY <1>5, <4>1 DEF ToSet
    <3>4. QED BY <3>2, <3>3
  <2>3. QED BY <1>7, <2>1, <2>2
<1>8. ASSUME Injective(list), x \notin ToSet(list) PROVE Injective(t)
  <2> SUFFICES ASSUME NEW i \in 1..(n + 1), NEW j \in 1..(n + 1), t[i] = t[j]
               PROVE  i = j
    BY <1>5 DEF Injective
  <2>1. \A a, b \in 1..n: list[a] = list[b] => a = b
    BY <1>1, <1>8 DEF Injective
  <2>2. \A a \in 1..n: list[a] # x
    BY <1>1, <1>8 DEF ToSet
  <2> DEFINE from(a) == IF a < p THEN a ELSE a - 1
  <2>3. \A a \in 1..(n + 1): a # p => from(a) \in 1..n /\ t[a] = list[from(a)]
    <3> TAKE a \in 1..(n + 1)
    <3>1. a # p => from(a) \in 1..n
      BY <1>1
    <3>2. a < p => t[a] = list[from(a)]
      BY <1>5
    <3>3. a > p => t[a] = list[from(a)]
      BY <1>1, <1>5
    <3>4. QED BY <1>1, <3>1, <3>2, <3>3
  <2>4. t[p] = x
    BY <1>1, <1>5
  <2>5. \A a, b \in 1..(n + 1): a # p /\ b # p /\ from(a) = from(b) => a = b
    BY <1>1
  <2> HIDE DEF from
  <2>6. CASE i = p \/ j = p
    BY <2>2, <2>3, <2>4, <2>6
  <2>7. CASE i # p /\ j # p
    <3>1. from(i) = from(j)
      BY <2>1, <2>3, <2>7
    <3>2. QED BY <2>5, <2>7, <3>1
  <2>8. QED BY <2>6, <2>7
<1>9. ToSet(t) = ToSet(list) \cup {x}
  BY <1>6, <1>7
<1>10. QED BY <1>4, <1>8, <1>9 DEF t

-----------------------------------------------------------------------------
(* Recursive functions.  E gives the value at n from the function itself, *)
(* and looks at arguments of lower rank only. *)
Recurs(D, V, r, E) ==
  /\ r \in [D -> Nat] /\ E \in [D -> [[D -> V] -> V]]
  /\ \A n \in D: \A g, h \in [D -> V]:
       (\A m \in D: r[m] < r[n] => g[m] = h[m]) => E[n][g] = E[n][h]

(* Such a function exists. *)
LEMMA RecursionExists ==
  ASSUME NEW D, NEW V, NEW r, NEW E, Recurs(D, V, r, E), NEW v \in V,
         NEW N \in Nat, \A n \in D: r[n] < N
  PROVE  \E g \in [D -> V]: \A n \in D: g[n] = E[n][g]
<1> DEFINE Has(k) == \E g \in [D -> V]: \A n \in D: r[n] < k => g[n] = E[n][g]
           Bad == {k \in Nat: ~Has(k)}
<1>0. /\ r \in [D -> Nat] /\ E \in [D -> [[D -> V] -> V]]
      /\ \A n \in D: \A g, h \in [D -> V]:
           (\A m \in D: r[m] < r[n] => g[m] = h[m]) => E[n][g] = E[n][h]
  BY DEF Recurs
<1>1. Has(0)
  <2>1. [n \in D |-> v] \in [D -> V]
    OBVIOUS
  <2>2. \A n \in D: ~(r[n] < 0)
    BY <1>0
  <2>3. QED BY <2>1, <2>2
<1>2. ASSUME NEW k \in Nat, Has(k) PROVE Has(k + 1)
  <2>1. PICK g \in [D -> V]: \A n \in D: r[n] < k => g[n] = E[n][g]
    BY <1>2
  <2> DEFINE f == [n \in D |-> E[n][g]]
  <2>2. f \in [D -> V] /\ \A n \in D: f[n] = E[n][g]
    BY <1>0
  <2> HIDE DEF f
  <2>3. ASSUME NEW n \in D, r[n] < k + 1 PROVE f[n] = E[n][f]
    <3>1. ASSUME NEW m \in D, r[m] < r[n] PROVE g[m] = f[m]
      <4>1. r[m] < k
        BY <1>0, <2>3, <3>1
      <4>2. QED BY <2>1, <2>2, <4>1
    <3>2. E[n][g] = E[n][f]
      BY <1>0, <2>2, <3>1
    <3>3. QED BY <2>2, <3>2
  <2>4. QED BY <2>2, <2>3
<1>3. Bad = {}
  <2> SUFFICES ASSUME Bad # {} PROVE FALSE
    OBVIOUS
  <2> HIDE DEF Has
  <2>1. Bad \in SUBSET Nat
    OBVIOUS
  <2>2. PICK m \in Bad: \A k \in Bad: m <= k
    <3> HIDE DEF Bad
    <3>1. QED BY <2>1, LeastNat
  <2>3. m \in Nat /\ m # 0
    BY <1>1
  <2>4. m - 1 \in Nat /\ (m - 1) + 1 = m /\ ~(m <= m - 1)
    BY <2>3
  <2>5. Has(m - 1)
    BY <2>2, <2>4
  <2>6. Has((m - 1) + 1)
    BY <1>2, <2>4, <2>5
  <2>7. QED BY <2>4, <2>6
<1>4. Has(N)
  <2> HIDE DEF Has
  <2>1. QED BY <1>3
<1>5. QED BY <1>4

(* What follows for n from all of lower rank holds for every n. *)
LEMMA RankInduction ==
  ASSUME NEW D, NEW r \in [D -> Nat], NEW T,
         \A n \in D: (\A m \in D: r[m] < r[n] => m \in T) => n \in T
  PROVE  \A n \in D: n \in T
<1> DEFINE Bad == {n \in D: n \notin T}
           Ranks == {r[n]: n \in Bad}
<1> SUFFICES ASSUME Bad # {} PROVE FALSE
  OBVIOUS
<1>1. Ranks \in SUBSET Nat /\ Ranks # {}
  OBVIOUS
<1>2. PICK k \in Ranks: \A j \in Ranks: k <= j
  <2> HIDE DEF Ranks
  <2>1. QED BY <1>1, LeastNat
<1>3. PICK n \in Bad: k = r[n]
  OBVIOUS
<1>4. ASSUME NEW m \in D, r[m] < r[n] PROVE m \in T
  <2>1. CASE m \in Bad
    <3>1. r[m] \in Ranks
      BY <2>1
    <3>2. k <= r[m] /\ r[m] \in Nat /\ k \in Nat
      BY <1>1, <1>2, <3>1
    <3>3. QED BY <1>3, <1>4, <3>2
  <2>2. QED BY <2>1
<1>5. QED BY <1>3, <1>4

-----------------------------------------------------------------------------
(* Sequences of sequences. *)

(* t is the sequences of s one after the other: s[i] begins after off[i - 1]. *)
IsFlat(s, t, off, H) ==
  /\ t \in Seq(H) /\ off \in [0..Len(s) -> Nat] /\ off[0] = 0
  /\ \A i \in 1..Len(s): s[i] \in Seq(H) /\ off[i] = off[i - 1] + Len(s[i])
  /\ Len(t) = off[Len(s)]
  /\ \A i \in 1..Len(s): off[i] <= Len(t)
  /\ \A i \in 1..Len(s): \A j \in 1..Len(s[i]): t[off[i - 1] + j] = s[i][j]

(* c is a and then b. *)
Concats(c, a, b) ==
  /\ Len(c) = Len(a) + Len(b)
  /\ \A j \in 1..Len(a): c[j] = a[j]
  /\ \A j \in 1..Len(b): c[Len(a) + j] = b[j]

(* Two sequences joined. *)
LEMMA ConcatIs ==
  ASSUME NEW H, NEW a \in Seq(H), NEW b \in Seq(H)
  PROVE  a \o b \in Seq(H) /\ Concats(a \o b, a, b)
BY DEF Concats

(* The recursion of FlattenSeq. *)
Flattening(s, g, n) ==
  /\ FlattenSeq(s) = g[n] /\ g[1] = s[1]
  /\ \A i \in 2..n: g[i] = g[i - 1] \o s[i]

(* The fold of FlattenSeq takes one sequence after the other. *)
LEMMA FlattenRuns ==
  ASSUME NEW H, NEW s \in Seq(Seq(H)), NEW n \in Nat, n # 0, Len(s) = n
  PROVE  \E g \in [1..n -> Seq(H)]: Flattening(s, g, n)
<1> DEFINE D == 1..n
           V == Seq(H)
           r == [i \in D |-> i]
           E == [i \in D |-> [g \in [D -> V] |-> IF i = 1 THEN s[i] ELSE g[i - 1] \o s[i]]]
           R(g) == [i \in D |-> IF i = 1 THEN s[i] ELSE g[i - 1] \o s[i]]
<1>1. \A i \in D: s[i] \in V
  BY ElementOfSeq
<1>2. \A i \in D: i # 1 => i - 1 \in D /\ i - 1 < i
  OBVIOUS
<1>3. Recurs(D, V, r, E)
  <2>1. r \in [D -> Nat] /\ \A i \in D: r[i] = i
    OBVIOUS
  <2>2. \A i \in D: \A g \in [D -> V]: (IF i = 1 THEN s[i] ELSE g[i - 1] \o s[i]) \in V
    <3> TAKE i \in D
    <3> TAKE g \in [D -> V]
    <3>1. CASE i = 1
      BY <1>1, <3>1
    <3>2. CASE i # 1
      <4>1. g[i - 1] \in V /\ s[i] \in V
        BY <1>1, <1>2, <3>2
      <4>2. g[i - 1] \o s[i] \in V
        BY <4>1, ConcatIs
      <4>3. QED BY <3>2, <4>2
    <3>3. QED BY <3>1, <3>2
  <2>3. E \in [D -> [[D -> V] -> V]]
    <3> HIDE DEF D, V
    <3>1. QED BY <2>2
  <2>4. \A i \in D: \A g \in [D -> V]: E[i][g] = IF i = 1 THEN s[i] ELSE g[i - 1] \o s[i]
    <3> HIDE DEF D, V
    <3>1. QED OBVIOUS
  <2>5. ASSUME NEW i \in D, NEW g \in [D -> V], NEW h \in [D -> V],
               \A m \in D: r[m] < r[i] => g[m] = h[m]
        PROVE  E[i][g] = E[i][h]
    <3>1. i # 1 => g[i - 1] = h[i - 1]
      BY <1>2, <2>1, <2>5
    <3> HIDE DEF D, V, E, r
    <3>2. QED BY <2>4, <3>1
  <2> HIDE DEF D, V, E, r
  <2>6. QED BY <2>1, <2>3, <2>5 DEF Recurs
<1>4. <<>> \in V /\ n + 1 \in Nat /\ \A i \in D: r[i] < n + 1
  OBVIOUS
<1>5. PICK w \in [D -> V]: \A i \in D: w[i] = E[i][w]
  <2> HIDE DEF D, V, E, r
  <2>1. PICK e, N: e = <<>> /\ e \in V /\ N \in Nat /\ \A i \in D: r[i] < N
    BY <1>4
  <2>2. QED BY ONLY <1>3, <2>1, RecursionExists
<1>6. w = R(w)
  <2>1. \A i \in D: E[i][w] = IF i = 1 THEN s[i] ELSE w[i - 1] \o s[i]
    <3> HIDE DEF D, V
    <3>1. QED BY <1>5
  <2> HIDE DEF D, V, E
  <2>2. QED BY <1>5, <2>1
<1>7. FlattenSeq(s) = (CHOOSE g: g = R(g))[n]
  BY DEF FlattenSeq
<1>8. PICK f: f = (CHOOSE g: g = R(g)) /\ f = R(f)
  <2> HIDE DEF R
  <2>1. QED BY <1>6
<1>9. \A i \in D: f[i] = IF i = 1 THEN s[i] ELSE f[i - 1] \o s[i]
  <2>1. \A i \in D: R(f)[i] = IF i = 1 THEN s[i] ELSE f[i - 1] \o s[i]
    OBVIOUS
  <2> HIDE DEF R, D
  <2>2. QED BY <1>8, <2>1
<1>10. DOMAIN f = D
  <2>1. DOMAIN R(f) = D
    OBVIOUS
  <2> HIDE DEF R, D
  <2>2. QED BY <1>8, <2>1
<1>11. f = [i \in D |-> f[i]]
  <2>1. \A g: R(g) = [i \in D |-> R(g)[i]]
    OBVIOUS
  <2> HIDE DEF R, D
  <2>2. QED BY <1>8, <2>1
<1>12. \A i \in D: f[i] \in V
  <2> DEFINE T == {i \in D: f[i] \in V}
  <2>1. r \in [D -> Nat] /\ \A i \in D: r[i] = i
    OBVIOUS
  <2>2. ASSUME NEW i \in D, \A m \in D: r[m] < r[i] => m \in T PROVE i \in T
    <3>1. CASE i = 1
      <4> HIDE DEF D, V, r
      <4>1. QED BY <1>1, <1>9, <3>1
    <3>2. CASE i # 1
      <4>1. i - 1 \in D /\ f[i - 1] \in V
        BY <1>2, <2>1, <2>2, <3>2
      <4>2. f[i] = f[i - 1] \o s[i] /\ s[i] \in V
        <5> HIDE DEF D, V
        <5>1. QED BY <1>1, <1>9, <3>2
      <4>3. f[i - 1] \o s[i] \in V
        BY <4>1, <4>2, ConcatIs
      <4> HIDE DEF D, V, r
      <4>4. QED BY <4>2, <4>3
    <3>3. QED BY <3>1, <3>2
  <2>3. \A i \in D: i \in T
    <3> HIDE DEF D, V, r, T
    <3>1. QED BY <2>1, <2>2, RankInduction
  <2>4. QED BY <2>3
<1>13. f \in [D -> V]
  <2> HIDE DEF D, V, R
  <2>1. QED BY <1>11, <1>12
<1>14. FlattenSeq(s) = f[n]
  BY <1>7, <1>8
<1>15. f[1] = s[1] /\ \A i \in 2..n: f[i] = f[i - 1] \o s[i]
  <2>1. 1 \in D /\ \A i \in 2..n: i \in D /\ i # 1
    OBVIOUS
  <2> HIDE DEF D, R, V
  <2>2. QED BY <1>9, <2>1
<1>16. Flattening(s, f, n)
  BY <1>14, <1>15 DEF Flattening
<1>17. QED BY <1>13, <1>16

(* An index of the second part. *)
LEMMA InSum ==
  ASSUME NEW o \in Nat, NEW y \in Nat, NEW x, x = o + y, NEW z \in Nat, x <= z, NEW j \in 1..y
  PROVE  o + j \in 1..z
OBVIOUS

(* Induction along an interval. *)
LEMMA StepByStep ==
  ASSUME NEW a \in Nat, NEW n \in Nat, NEW T,
         \A k \in a..n: (k = a \/ k - 1 \in T) => k \in T
  PROVE  \A k \in a..n: k \in T
<1> DEFINE Bad == {k \in a..n: k \notin T}
<1> SUFFICES ASSUME Bad # {} PROVE FALSE
  OBVIOUS
<1>1. Bad \in SUBSET Nat
  OBVIOUS
<1>2. PICK m \in Bad: \A k \in Bad: m <= k
  <2> HIDE DEF Bad
  <2>1. QED BY <1>1, LeastNat
<1>3. m \in a..n /\ m # a /\ m \notin T
  OBVIOUS
<1>4. m - 1 \in a..n /\ ~(m <= m - 1)
  BY <1>3
<1>5. m - 1 \in T
  BY <1>2, <1>4
<1>6. QED BY <1>3, <1>5

(* The sequences that are joined stand in the result one after the other. *)
LEMMA FlatIs ==
  ASSUME NEW H, NEW s, s \in Seq(Seq(H))
  PROVE  \E off: IsFlat(s, FlattenSeq(s), off, H)
<1>0. Len(s) \in Nat /\ DOMAIN s = 1..Len(s)
  OBVIOUS
<1>1. CASE Len(s) = 0
  <2>1. FlattenSeq(s) = s /\ s = <<>>
    BY <1>1 DEF FlattenSeq
  <2> DEFINE off == [i \in 0..0 |-> 0]
  <2>2. IsFlat(<<>>, <<>>, off, H)
    <3>1. /\ <<>> \in Seq(H) /\ off \in [0..0 -> Nat] /\ off[0] = 0
          /\ Len(<<>>) = 0 /\ 1..0 = {}
      OBVIOUS
    <3>2. QED BY <3>1 DEF IsFlat
  <2>3. QED BY <2>1, <2>2
<1>2. CASE Len(s) # 0
  <2>0. PICK n \in Nat: n = Len(s) /\ n # 0
    BY <1>0, <1>2
  <2>11. PICK g \in [1..n -> Seq(H)]: Flattening(s, g, n)
    BY <2>0, FlattenRuns
  <2>1. /\ FlattenSeq(s) = g[n] /\ g[1] = s[1]
        /\ \A i \in 2..n: g[i] = g[i - 1] \o s[i]
    BY <2>11 DEF Flattening
  <2> DEFINE off == [i \in 0..n |-> IF i = 0 THEN 0 ELSE Len(g[i])]
  <2>2. n \in Nat /\ n >= 1 /\ \A i \in 1..n: s[i] \in Seq(H) /\ g[i] \in Seq(H)
    <3>1. n \in Nat /\ n >= 1 /\ n = Len(s)
      BY <2>0
    <3>2. \A i \in 1..n: s[i] \in Seq(H)
      BY ElementOfSeq, <2>0
    <3>3. QED BY <3>1, <3>2
  <2>3. off \in [0..n -> Nat] /\ off[0] = 0 /\ \A i \in 1..n: off[i] = Len(g[i])
    <3>1. \A i \in 1..n: Len(g[i]) \in Nat
      BY <2>2
    <3>2. QED BY <2>2, <3>1
  <2>4. ASSUME NEW i \in 1..n
        PROVE  /\ off[i] = off[i - 1] + Len(s[i])
               /\ \A j \in 1..Len(s[i]): g[i][off[i - 1] + j] = s[i][j]
               /\ i # 1 => \A j \in 1..off[i - 1]: g[i][j] = g[i - 1][j]
    <3>1. CASE i = 1
      <4>1. s[1] \in Seq(H) /\ Len(s[1]) \in Nat /\ off[0] = 0 /\ off[1] = Len(s[1]) /\ g[1] = s[1]
        BY <2>1, <2>2, <2>3
      <4> HIDE DEF off
      <4>2. QED BY <3>1, <4>1
    <3>2. CASE i # 1
      <4>1. i \in 2..n /\ i - 1 \in 1..n
        BY <3>2
      <4>2. PICK a, b: a = g[i - 1] /\ b = s[i] /\ a \in Seq(H) /\ b \in Seq(H)
        BY <2>2, <4>1
      <4>3. g[i] = a \o b /\ off[i - 1] = Len(a) /\ off[i] = Len(g[i])
        <5> HIDE DEF off
        <5>1. QED BY <2>1, <2>3, <4>1, <4>2
      <4>4. Concats(a \o b, a, b)
        BY <4>2, ConcatIs
      <4> HIDE DEF off
      <4>5. QED BY <4>2, <4>3, <4>4 DEF Concats
    <3>3. QED BY <3>1, <3>2
  <2> HIDE DEF off
  <2>5. \A i \in 0..n, k \in 0..n: i <= k => off[i] <= off[k]
    <3> SUFFICES ASSUME NEW i \in 0..n PROVE \A k \in 0..n: i <= k => off[i] <= off[k]
      OBVIOUS
    <3> DEFINE T == {k \in 0..n: i <= k => off[i] <= off[k]}
    <3>2. ASSUME NEW k \in 0..n, k = 0 \/ k - 1 \in T PROVE k \in T
      <4>1. off[i] \in Nat /\ off[k] \in Nat /\ i \in Nat /\ k \in Nat
        BY <2>3
      <4>2. CASE k <= i
        BY <4>1, <4>2
      <4>3. CASE ~(k <= i)
        <5>1. k \in 1..n /\ k - 1 \in 0..n /\ i <= k - 1 /\ k - 1 < k
          BY <4>3
        <5>2. off[i] <= off[k - 1]
          BY <3>2, <5>1
        <5>3. off[k] = off[k - 1] + Len(s[k]) /\ Len(s[k]) \in Nat /\ off[k - 1] \in Nat
          BY <2>2, <2>3, <2>4, <5>1
        <5>4. PICK a, b, c, d: a = off[i] /\ b = off[k - 1] /\ c = off[k] /\ d = Len(s[k])
          OBVIOUS
        <5>5. a \in Nat /\ b \in Nat /\ c \in Nat /\ d \in Nat /\ a <= b /\ c = b + d
          BY <4>1, <5>2, <5>3, <5>4
        <5>6. a <= c
          BY ONLY <5>5
        <5>7. QED BY <5>4, <5>6
      <4>4. QED BY <4>2, <4>3
    <3>3. \A k \in 0..n: k \in T
      <4> HIDE DEF T
      <4>1. QED BY <3>2, StepByStep
    <3>4. QED BY <3>3
  <2> DEFINE Good(k) == \A i \in 1..k: \A j \in 1..Len(s[i]): g[k][off[i - 1] + j] = s[i][j]
  <2>6. ASSUME NEW k \in 1..n, k # 1 => Good(k - 1) PROVE Good(k)
    <3> SUFFICES ASSUME NEW i \in 1..k, NEW j \in 1..Len(s[i]) PROVE g[k][off[i - 1] + j] = s[i][j]
      OBVIOUS
    <3>1. CASE i = k
      BY <2>4, <3>1
    <3>2. CASE i # k
      <4>1. k # 1 /\ i \in 1..(k - 1) /\ k - 1 \in 1..n /\ i \in 1..n /\ i - 1 \in 0..n /\ i \in 0..n /\ k - 1 \in 0..n
        BY <3>2
      <4>2. g[k - 1][off[i - 1] + j] = s[i][j]
        BY <2>6, <4>1
      <4>3. off[i] = off[i - 1] + Len(s[i]) /\ off[i - 1] \in Nat /\ off[i] \in Nat /\ off[k - 1] \in Nat
        BY <2>3, <2>4, <4>1
      <4>7. Len(s[i]) \in Nat /\ j \in 1..Len(s[i])
        BY <2>2, <4>1
      <4>8. off[i] <= off[k - 1]
        BY <2>5, <4>1
      <4>4. off[i - 1] + j \in 1..off[k - 1]
        BY ONLY <4>3, <4>7, <4>8, InSum
      <4>5. g[k][off[i - 1] + j] = g[k - 1][off[i - 1] + j]
        BY <2>4, <4>1, <4>4
      <4>6. QED BY <4>2, <4>5
    <3>3. QED BY <3>1, <3>2
  <2>7. \A k \in 1..n: Good(k)
    <3> DEFINE T == {k \in 1..n: Good(k)}
    <3>2. ASSUME NEW k \in 1..n, k = 1 \/ k - 1 \in T PROVE k \in T
      <4> HIDE DEF Good
      <4>1. QED BY <2>6, <3>2
    <3>3. \A k \in 1..n: k \in T
      <4> HIDE DEF T
      <4>1. QED BY <3>2, StepByStep
    <3>4. QED BY <3>3
  <2>8. Good(n)
    <3> HIDE DEF Good
    <3>1. QED BY <2>2, <2>7
  <2>9. IsFlat(s, FlattenSeq(s), off, H)
    <3>1. FlattenSeq(s) = g[n] /\ g[n] \in Seq(H) /\ Len(g[n]) = off[n] /\ n = Len(s)
      BY <2>0, <2>1, <2>2, <2>3
    <3>2. \A i \in 1..n: s[i] \in Seq(H) /\ off[i] = off[i - 1] + Len(s[i]) /\ off[i] <= off[n]
      BY <2>2, <2>4, <2>5
    <3>3. QED BY <2>3, <2>8, <3>1, <3>2 DEF IsFlat
  <2>10. QED BY <2>9
<1>3. QED BY <1>1, <1>2

(* A sequence of no length is the empty one. *)
LEMMA NoLength ==
  ASSUME NEW H, NEW s \in Seq(H), Len(s) = 0
  PROVE  s = <<>>
OBVIOUS

(* The first l members of a sequence. *)
LEMMA FirstOnes ==
  ASSUME NEW S, NEW s \in Seq(S), NEW l \in 0..Len(s)
  PROVE  /\ SubSeq(s, 1, l) \in Seq(S) /\ Len(SubSeq(s, 1, l)) = l
         /\ \A j \in 1..l: SubSeq(s, 1, l)[j] = s[j]
<1>1. \A j \in 1..l: s[j] \in S /\ 1 + j - 1 = j
  <2>1. \A j \in 1..l: j \in 1..Len(s)
    OBVIOUS
  <2>2. QED BY <2>1, ElementOfSeq
<1>2. 1 \in Int /\ l \in Int /\ l - 1 + 1 = l
  OBVIOUS
<1>3. QED BY <1>1, <1>2, SubSeqProperties

(* Sequences over a set are sequences over a larger one. *)
LEMMA WiderSeq ==
  ASSUME NEW A, NEW B, A \subseteq B, NEW s \in Seq(A)
  PROVE  s \in Seq(B)
OBVIOUS

=============================================================================
