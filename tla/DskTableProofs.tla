---------------------------- MODULE DskTableProofs ----------------------------
(***************************************************************************)
(* What dsk-table.c keeps for any keys, periods and numbers of merges: the *)
(* files, the tree and the journal divide the insertions into consecutive  *)
(* ranges, and each holds what was inserted in its range, so that neither a *)
(* lookup nor a process that opens the table misses a value.               *)
(***************************************************************************)
EXTENDS DskTable, ListFacts

-----------------------------------------------------------------------------
(* The invariant *)

(* Where the i-th file of fs ends, as a number of insertions *)
End(fs, i) == IF i = 0 THEN 0 ELSE fs[i].first_entry_index + fs[i].n_entries
Total(fs) == End(fs, Len(fs))

(* The value of k after the insertions from + 1 to to of the history l *)
LastIn(l, k, from, to) == Max({0} \cup {i \in (from + 1)..to: l[i] = k})

Consecutive(fs) == \A i \in DOMAIN fs: fs[i].first_entry_index = End(fs, i - 1)
Distinct(fs) == \A i, j \in DOMAIN fs: fs[i].id = fs[j].id => i = j

(* With contents c and history l, the files of fs divide the insertions *)
(* into consecutive ranges, and each holds what was inserted in its range. *)
Holds(c, l, fs) ==
  /\ Consecutive(fs) /\ Distinct(fs) /\ Total(fs) <= Len(l)
  /\ \A i \in DOMAIN fs: fs[i].id \in DOMAIN c
  /\ \A i \in DOMAIN fs: \A k \in Keys:
       c[fs[i].id][k] = LastIn(l, k, End(fs, i - 1), End(fs, i))

Neighbours(fs, a, b) == \E i \in 1..(Len(fs) - 1): fs[i].id = a /\ fs[i + 1].id = b

CheckpointInv ==
  /\ Holds(contents, log, cp.files)
  /\ Total(cp.files) + Len(cp.journal) <= Len(log)
  /\ ~stranded => Total(cp.files) + Len(cp.journal) = Len(log)
  /\ \A i \in DOMAIN cp.journal:
       cp.journal[i] = <<log[Total(cp.files) + i], Total(cp.files) + i>>
  /\ \E b \in Nat: \A id \in Ids(cp.files): id < b

FilesInv ==
  /\ Holds(contents, log, files) /\ Ids(files) \subseteq present
  /\ cp_first_entry_index = Total(files)
  /\ cp_first_entry_index + cp_n_entries = Len(log)
  /\ \A k \in Keys: tree[k] = LastIn(log, k, cp_first_entry_index, Len(log))

IdsInv ==
  /\ \A id \in Ids(files) \cup Ids(cp.files) \cup ToSet(defunct_files) \cup loaded: id < next_id
  /\ ToSet(defunct_files) \cap Ids(files) = {}
  /\ loaded \cap Ids(cp.files) \subseteq present
  /\ \A i \in DOMAIN files: files[i].id \in loaded => files[i].used

(* What is left of the inputs of a merge, and what is in its output *)
Halfway(c, m) ==
  \A k \in Keys:
    IF k \in m.a_left \cup m.b_left
    THEN (k \in m.a_left <=> c[m.a][k] # None) /\ (k \in m.b_left <=> c[m.b][k] # None)
    ELSE c[m.out][k] = MergeOr(c[m.a][k], c[m.b][k])

JobKept(m) ==
  /\ Neighbours(files, m.a, m.b)
  /\ m.out \in present /\ m.out < next_id
  /\ m.out \notin Ids(files) \cup Ids(cp.files) \cup ToSet(defunct_files) \cup loaded
  /\ Halfway(contents, m)

JobsInv ==
  /\ Injective(running)
  /\ \A m \in ToSet(running): JobKept(m)
  /\ \A x, y \in ToSet(running): x.out = y.out => x = y

PairsInv ==
  /\ \A q \in possible: Neighbours(files, q[1], q[2])
  /\ \A q \in possible: \A m \in ToSet(running): q[2] # m.a /\ q[2] # m.b /\ q[1] # m.a
  /\ \A i \in 1..(Len(files) - 1):
       <<files[i].id, files[i + 1].id>> \in possible
         \/ Merging(files[i].id) \/ Merging(files[i + 1].id)

StepInv ==
  /\ pc \in {"checkpoint", "rename"} => cp_n_entries = 0
  /\ pc = "rename" => new_cp = [files |-> files, journal |-> <<>>] /\ cp_path = "NEW_CP"
  /\ pc = "defunct" => cp.files = files
  /\ cp_path = "NEW_CP" => stranded \/ pc = "rename"
  /\ stranded => cp_path = "NEW_CP"

DownInv == running = <<>> /\ defunct_files = <<>> /\ cp_path = "CP" /\ ~stranded

TableInv ==
  fault = "none" =>
    /\ TypeOK /\ CheckpointInv
    /\ pc = "down" => DownInv
    /\ pc # "down" => FilesInv /\ IdsInv /\ JobsInv /\ PairsInv /\ StepInv

(* The invariant between the start of the process and its end *)
Up ==
  /\ pc # "down" /\ fault = "none" /\ TypeOK
  /\ CheckpointInv /\ FilesInv /\ IdsInv /\ JobsInv /\ PairsInv /\ StepInv

-----------------------------------------------------------------------------
(* The last insertion in a range *)

IsLast(l, k, from, to, r) ==
  /\ r \in Nat
  /\ r = 0 \/ (r \in (from + 1)..to /\ l[r] = k)
  /\ \A i \in (from + 1)..to: l[i] = k => i <= r

LEMMA LastIs ==
  ASSUME NEW l, NEW k, NEW from \in Nat, NEW to \in Nat
  PROVE  IsLast(l, k, from, to, LastIn(l, k, from, to))
<1> DEFINE T == {0} \cup {i \in (from + 1)..to: l[i] = k}
           r == Max(T)
<1>1. T \in SUBSET Nat /\ T # {} /\ \A n \in T: n <= to
  OBVIOUS
<1>2. r \in T /\ \A n \in T: n <= r
  BY ONLY <1>1, MaxIs
<1>3. \A i \in (from + 1)..to: l[i] = k => i \in T
  OBVIOUS
<1>4. r \in Nat /\ (r = 0 \/ (r \in (from + 1)..to /\ l[r] = k))
  <2> HIDE DEF r
  <2>1. QED BY <1>2
<1> HIDE DEF T, r
<1>5. IsLast(l, k, from, to, r)
  BY <1>2, <1>3, <1>4 DEF IsLast
<1>6. QED BY <1>5 DEF LastIn, r, T

LEMMA LastUnique ==
  ASSUME NEW l, NEW k, NEW from \in Nat, NEW to \in Nat, NEW r,
         IsLast(l, k, from, to, r)
  PROVE  LastIn(l, k, from, to) = r
<1> DEFINE s == LastIn(l, k, from, to)
<1>1. IsLast(l, k, from, to, s)
  BY LastIs
<1> HIDE DEF s
<1>2. r \in Nat /\ s \in Nat
  BY <1>1 DEF IsLast
<1>3. r <= s
  BY <1>1, <1>2 DEF IsLast
<1>4. s <= r
  BY <1>1, <1>2 DEF IsLast
<1>5. QED BY <1>2, <1>3, <1>4 DEF s

LEMMA LastOfNothing ==
  ASSUME NEW l, NEW k, NEW from \in Nat
  PROVE  LastIn(l, k, from, from) = None
<1>1. IsLast(l, k, from, from, 0)
  BY DEF IsLast
<1>2. QED BY <1>1, LastUnique DEF None

LEMMA LastOfOne ==
  ASSUME NEW l, NEW k, NEW from \in Nat
  PROVE  LastIn(l, k, from, from + 1) = IF l[from + 1] = k THEN from + 1 ELSE None
<1>1. (from + 1)..(from + 1) = {from + 1}
  OBVIOUS
<1>2. IsLast(l, k, from, from + 1, IF l[from + 1] = k THEN from + 1 ELSE 0)
  BY <1>1 DEF IsLast
<1>3. QED BY <1>2, LastUnique DEF None

(* The last insertion of two ranges, one after the other *)
LEMMA LastJoins ==
  ASSUME NEW l, NEW k, NEW a \in Nat, NEW b \in Nat, NEW c \in Nat, a <= b, b <= c
  PROVE  MergeOr(LastIn(l, k, a, b), LastIn(l, k, b, c)) = LastIn(l, k, a, c)
<1> DEFINE r == LastIn(l, k, a, b)
           s == LastIn(l, k, b, c)
<1>1. IsLast(l, k, a, b, r) /\ IsLast(l, k, b, c, s)
  BY LastIs
<1> HIDE DEF r, s
<1>2. r \in Nat /\ s \in Nat
  BY <1>1 DEF IsLast
<1>3. CASE s = 0
  <2>1. MergeOr(r, s) = r
    BY <1>2, <1>3 DEF MergeOr, None
  <2>2. ASSUME NEW i \in (a + 1)..c, l[i] = k PROVE i <= r
    <3>1. i \in (a + 1)..b \/ i \in (b + 1)..c
      OBVIOUS
    <3>2. i \notin (b + 1)..c
      BY <1>1, <1>3, <2>2 DEF IsLast
    <3>3. QED BY <1>1, <2>2, <3>1, <3>2 DEF IsLast
  <2>3. r = 0 \/ (r \in (a + 1)..c /\ l[r] = k)
    BY <1>1 DEF IsLast
  <2>4. IsLast(l, k, a, c, r)
    BY <1>2, <2>2, <2>3 DEF IsLast
  <2>5. QED BY <2>1, <2>4, LastUnique DEF r, s
<1>4. CASE s # 0
  <2>1. MergeOr(r, s) = s
    BY <1>2, <1>4 DEF MergeOr, None, StdMerge
  <2>2. s \in (b + 1)..c /\ l[s] = k
    BY <1>1, <1>4 DEF IsLast
  <2>3. ASSUME NEW i \in (a + 1)..c, l[i] = k PROVE i <= s
    <3>1. i \in (a + 1)..b \/ i \in (b + 1)..c
      OBVIOUS
    <3>2. CASE i \in (b + 1)..c
      BY <1>1, <2>3, <3>2 DEF IsLast
    <3>3. CASE i \in (a + 1)..b
      BY <2>2, <3>3
    <3>4. QED BY <3>1, <3>2, <3>3
  <2>4. IsLast(l, k, a, c, s)
    BY <1>2, <2>2, <2>3 DEF IsLast
  <2>5. QED BY <2>1, <2>4, LastUnique DEF r, s
<1>5. QED BY <1>3, <1>4

(* Later insertions do not matter to an earlier range. *)
LEMMA LastKept ==
  ASSUME NEW l, NEW l2, NEW k, NEW from \in Nat, NEW to \in Nat,
         \A i \in 1..to: l2[i] = l[i]
  PROVE  LastIn(l2, k, from, to) = LastIn(l, k, from, to)
<1> DEFINE r == LastIn(l, k, from, to)
<1>1. IsLast(l, k, from, to, r)
  BY LastIs
<1> HIDE DEF r
<1>2. \A i \in (from + 1)..to: l2[i] = l[i]
  OBVIOUS
<1>3. IsLast(l2, k, from, to, r)
  BY <1>1, <1>2 DEF IsLast
<1>4. QED BY <1>3, LastUnique DEF r

LEMMA LastInValues ==
  ASSUME NEW l, NEW k, NEW from \in Nat, NEW to \in Nat
  PROVE  LastIn(l, k, from, to) \in 0..to
BY LastIs DEF IsLast

LEMMA MergeOrIs ==
  ASSUME NEW a \in Values, NEW b \in Values
  PROVE  /\ MergeOr(a, b) \in Values
         /\ MergeOr(None, a) = a /\ MergeOr(a, None) = a
BY DEF MergeOr, StdMerge, None

-----------------------------------------------------------------------------
(* Merging in order of time, from either end *)

(* e[0], e[1], ... e[n] divide the insertions into ranges, of which values *)
(* has the last ones of k. *)
Ascends(e, n) ==
  n \in Nat /\ (\A i \in 0..n: e[i] \in Nat) /\ (\A i \in 1..n: e[i - 1] <= e[i])
Ranges(values, l, k, e, n) ==
  Len(values) = n /\ Ascends(e, n) /\ \A i \in 1..n: values[i] = LastIn(l, k, e[i - 1], e[i])

LEMMA Ascending ==
  ASSUME NEW n, NEW e, Ascends(e, n), NEW i \in 0..n, NEW j \in i..n
  PROVE  e[i] <= e[j]
<1> USE DEF Ascends
<1> DEFINE Bad == {m \in 0..n: m >= i /\ ~(e[i] <= e[m])}
<1>1. Bad = {}
  <2> SUFFICES ASSUME Bad # {} PROVE FALSE
    OBVIOUS
  <2>1. Bad \in SUBSET Nat
    OBVIOUS
  <2> HIDE DEF Bad
  <2>2. PICK m \in Bad: \A x \in Bad: m <= x
    BY <2>1, LeastNat
  <2>3. m \in 0..n /\ m >= i /\ ~(e[i] <= e[m])
    BY DEF Bad
  <2>4. m # i
    BY <2>3
  <2>5. m - 1 \in 0..n /\ m - 1 >= i /\ m \in 1..n /\ m - 1 < m
    BY <2>3, <2>4
  <2>6. m - 1 \notin Bad
    BY <2>2, <2>5
  <2>7. e[i] <= e[m - 1]
    BY <2>5, <2>6 DEF Bad
  <2>8. e[i] \in Nat /\ e[m - 1] \in Nat /\ e[m] \in Nat /\ e[m - 1] <= e[m]
    BY <2>3, <2>5
  <2>9. QED BY <2>3, <2>7, <2>8
<1>2. QED BY <1>1

LEMMA MergedUpIs ==
  ASSUME NEW n, NEW values, NEW l, NEW k, NEW e, Ranges(values, l, k, e, n)
  PROVE  MergedUp(values) = LastIn(l, k, e[0], e[n])
<1> DEFINE F(f) == [i \in 0..n |-> IF i = 0 THEN None ELSE MergeOr(f[i - 1], values[i])]
           g == [i \in 0..n |-> LastIn(l, k, e[0], e[i])]
<1>0. /\ n \in Nat /\ Len(values) = n
      /\ \A i \in 0..n: e[i] \in Nat
      /\ \A i \in 1..n: e[i - 1] <= e[i] /\ values[i] = LastIn(l, k, e[i - 1], e[i])
  BY DEF Ranges, Ascends
<1>1. MergedUp(values) = (CHOOSE f: f = F(f))[n]
  BY <1>0 DEF MergedUp
<1>2. ASSUME NEW i \in 0..n PROVE e[0] <= e[i]
  <2>1. Ascends(e, n) /\ 0 \in 0..n /\ i \in 0..n
    BY <1>0 DEF Ranges
  <2>2. QED BY ONLY <2>1, Ascending
<1>3. \A i \in 1..n: MergeOr(LastIn(l, k, e[0], e[i - 1]), values[i]) = LastIn(l, k, e[0], e[i])
  <2> SUFFICES ASSUME NEW i \in 1..n
               PROVE  MergeOr(LastIn(l, k, e[0], e[i - 1]), values[i]) = LastIn(l, k, e[0], e[i])
    OBVIOUS
  <2>1. i - 1 \in 0..n /\ i \in 0..n /\ 0 \in 0..n
    BY <1>0
  <2>2. e[0] \in Nat /\ e[i - 1] \in Nat /\ e[i] \in Nat /\ e[0] <= e[i - 1] /\ e[i - 1] <= e[i]
    BY <1>0, <1>2, <2>1
  <2>3. QED BY <1>0, <2>2, LastJoins
<1>4. LastIn(l, k, e[0], e[0]) = None
  BY <1>0, LastOfNothing
<1>5. \A i \in 0..n: g[i] = LastIn(l, k, e[0], e[i])
  OBVIOUS
<1>6. \A i \in 0..n: g[i] = IF i = 0 THEN None ELSE MergeOr(g[i - 1], values[i])
  BY <1>0, <1>3, <1>4, <1>5
<1>7. g = [i \in 0..n |-> g[i]]
  OBVIOUS
<1> HIDE DEF g
<1>8. g = F(g)
  BY <1>6, <1>7
<1>9. ASSUME NEW f, f = F(f) PROVE f[n] = g[n]
  <2> DEFINE Bad == {i \in 0..n: f[i] # g[i]}
  <2>1. \A i \in 0..n: f[i] = IF i = 0 THEN None ELSE MergeOr(f[i - 1], values[i])
    BY <1>9
  <2>2. Bad \in SUBSET Nat
    BY <1>0
  <2>3. ASSUME Bad # {} PROVE FALSE
    <3> HIDE DEF Bad
    <3>1. PICK m \in Bad: \A x \in Bad: m <= x
      BY <2>2, <2>3, LeastNat
    <3>2. m \in 0..n /\ f[m] # g[m]
      BY DEF Bad
    <3>3. m # 0
      BY <1>0, <1>6, <2>1, <3>2
    <3>4. m - 1 \in 0..n /\ ~(m <= m - 1)
      BY <1>0, <3>2, <3>3
    <3>5. f[m - 1] = g[m - 1]
      BY <3>1, <3>4 DEF Bad
    <3>6. QED BY <1>0, <1>6, <2>1, <3>2, <3>3, <3>5
  <2>4. QED BY <1>0, <2>3
<1> HIDE DEF F
<1>10. PICK h: h = (CHOOSE f: f = F(f)) /\ h = F(h)
  <2>1. \E f: f = F(f)
    BY <1>8
  <2>2. QED BY ONLY <2>1
<1>11. h[n] = g[n]
  BY ONLY <1>9, <1>10
<1>12. MergedUp(values) = h[n]
  BY ONLY <1>1, <1>10
<1>13. g[n] = LastIn(l, k, e[0], e[n])
  BY <1>0, <1>5
<1>14. QED BY ONLY <1>11, <1>12, <1>13

LEMMA MergedDownIs ==
  ASSUME NEW n, NEW values, NEW l, NEW k, NEW e, Ranges(values, l, k, e, n)
  PROVE  MergedDown(values) = LastIn(l, k, e[0], e[n])
<1> DEFINE F(f) == [i \in 0..n |-> IF i = 0 THEN None ELSE MergeOr(values[n + 1 - i], f[i - 1])]
           g == [i \in 0..n |-> LastIn(l, k, e[n - i], e[n])]
<1>0. /\ n \in Nat /\ Len(values) = n
      /\ \A i \in 0..n: e[i] \in Nat
      /\ \A i \in 1..n: e[i - 1] <= e[i] /\ values[i] = LastIn(l, k, e[i - 1], e[i])
  BY DEF Ranges, Ascends
<1>1. MergedDown(values) = (CHOOSE f: f = F(f))[n]
  BY <1>0 DEF MergedDown
<1>2. ASSUME NEW i \in 0..n PROVE e[i] <= e[n]
  <2>1. Ascends(e, n) /\ n \in i..n /\ i \in 0..n
    BY <1>0 DEF Ranges
  <2>2. QED BY ONLY <2>1, Ascending
<1>3. \A i \in 1..n: MergeOr(values[n + 1 - i], LastIn(l, k, e[n - (i - 1)], e[n]))
                       = LastIn(l, k, e[n - i], e[n])
  <2> SUFFICES ASSUME NEW i \in 1..n
               PROVE  MergeOr(values[n + 1 - i], LastIn(l, k, e[n - (i - 1)], e[n]))
                        = LastIn(l, k, e[n - i], e[n])
    OBVIOUS
  <2> DEFINE j == n + 1 - i
  <2>1. /\ j \in 1..n /\ j - 1 \in 0..n /\ j \in 0..n /\ n \in 0..n
        /\ n - (i - 1) = j /\ n - i = j - 1
    BY <1>0
  <2> HIDE DEF j
  <2>2. e[j - 1] \in Nat /\ e[j] \in Nat /\ e[n] \in Nat /\ e[j - 1] <= e[j] /\ e[j] <= e[n]
    BY <1>0, <1>2, <2>1
  <2>3. values[j] = LastIn(l, k, e[j - 1], e[j])
    BY <1>0, <2>1
  <2>4. MergeOr(values[j], LastIn(l, k, e[j], e[n])) = LastIn(l, k, e[j - 1], e[n])
    BY <2>2, <2>3, LastJoins
  <2>5. QED BY <2>1, <2>4 DEF j
<1>4. LastIn(l, k, e[n - 0], e[n]) = None
  <2>1. n - 0 = n /\ n \in 0..n
    BY <1>0
  <2>2. QED BY <1>0, <2>1, LastOfNothing
<1>5. \A i \in 0..n: g[i] = LastIn(l, k, e[n - i], e[n])
  OBVIOUS
<1>6. \A i \in 0..n: g[i] = IF i = 0 THEN None ELSE MergeOr(values[n + 1 - i], g[i - 1])
  BY <1>0, <1>3, <1>4, <1>5
<1>7. g = [i \in 0..n |-> g[i]]
  OBVIOUS
<1> HIDE DEF g
<1>8. g = F(g)
  BY <1>6, <1>7
<1>9. ASSUME NEW f, f = F(f) PROVE f[n] = g[n]
  <2> DEFINE Bad == {i \in 0..n: f[i] # g[i]}
  <2>1. \A i \in 0..n: f[i] = IF i = 0 THEN None ELSE MergeOr(values[n + 1 - i], f[i - 1])
    BY <1>9
  <2>2. Bad \in SUBSET Nat
    BY <1>0
  <2>3. ASSUME Bad # {} PROVE FALSE
    <3> HIDE DEF Bad
    <3>1. PICK m \in Bad: \A x \in Bad: m <= x
      BY <2>2, <2>3, LeastNat
    <3>2. m \in 0..n /\ f[m] # g[m]
      BY DEF Bad
    <3>3. m # 0
      BY <1>0, <1>6, <2>1, <3>2
    <3>4. m - 1 \in 0..n /\ ~(m <= m - 1)
      BY <1>0, <3>2, <3>3
    <3>5. f[m - 1] = g[m - 1]
      BY <3>1, <3>4 DEF Bad
    <3>6. QED BY <1>0, <1>6, <2>1, <3>2, <3>3, <3>5
  <2>4. QED BY <1>0, <2>3
<1> HIDE DEF F
<1>10. PICK h: h = (CHOOSE f: f = F(f)) /\ h = F(h)
  <2>1. \E f: f = F(f)
    BY <1>8
  <2>2. QED BY ONLY <2>1
<1>11. g[n] = LastIn(l, k, e[0], e[n])
  <2>1. n - n = 0 /\ n \in 0..n
    BY <1>0
  <2>2. QED BY <1>5, <2>1
<1>12. h[n] = g[n]
  BY ONLY <1>9, <1>10
<1>13. MergedDown(values) = h[n]
  BY ONLY <1>1, <1>10
<1>14. QED BY ONLY <1>11, <1>12, <1>13

-----------------------------------------------------------------------------
(* What lookups find, and what replaying a journal gives *)

LEMMA EndsAscend ==
  ASSUME NEW fs \in Seq(FileInfo), Consecutive(fs)
  PROVE  /\ \A i \in 0..Len(fs): End(fs, i) \in Nat /\ End(fs, i) <= Total(fs)
         /\ \A i \in 1..Len(fs): End(fs, i - 1) <= End(fs, i)
         /\ Total(fs) \in Nat
<1> DEFINE n == Len(fs)
           e == [i \in 0..n |-> End(fs, i)]
<1>1. /\ n \in Nat /\ DOMAIN fs = 1..n
      /\ \A i \in 1..n: fs[i].first_entry_index \in Nat /\ fs[i].n_entries \in Nat
  <2>1. n \in Nat /\ DOMAIN fs = 1..n /\ \A i \in 1..n: fs[i] \in FileInfo
    OBVIOUS
  <2>2. QED BY ONLY <2>1 DEF FileInfo
<1> HIDE DEF n
<1>2. \A i \in 0..n: End(fs, i) \in Nat
  BY <1>1 DEF End
<1>3. \A i \in 1..n: End(fs, i - 1) <= End(fs, i)
  <2> SUFFICES ASSUME NEW i \in 1..n PROVE End(fs, i - 1) <= End(fs, i)
    OBVIOUS
  <2>1. fs[i].first_entry_index = End(fs, i - 1)
    BY <1>1 DEF Consecutive
  <2>2. End(fs, i) = fs[i].first_entry_index + fs[i].n_entries
    BY DEF End
  <2>3. QED BY <1>1, <2>1, <2>2
<1>4. \A i \in 0..n: e[i] = End(fs, i)
  OBVIOUS
<1> HIDE DEF e
<1>5. \A i \in 0..n: e[i] \in Nat
  BY <1>2, <1>4
<1>9. \A i \in 1..n: i - 1 \in 0..n /\ i \in 0..n
  BY <1>1
<1>10. \A i \in 1..n: e[i - 1] <= e[i]
  BY <1>3, <1>4, <1>9
<1>6. ASSUME NEW i \in 0..n PROVE e[i] <= e[n]
  <2>1. Ascends(e, n) /\ i \in 0..n /\ n \in i..n
    BY <1>1, <1>5, <1>10 DEF Ascends
  <2>2. QED BY ONLY <2>1, Ascending
<1>7. Total(fs) = End(fs, n) /\ n \in 0..n
  BY <1>1 DEF Total, n
<1>8. QED BY <1>2, <1>3, <1>4, <1>6, <1>7 DEF n

LEMMA LookupIs ==
  ASSUME NEW fs \in Seq(FileInfo), Holds(contents, log, fs), log \in Seq(Keys),
         NEW b \in Nat, Total(fs) <= b, NEW k \in Keys,
         NEW t, t[k] = LastIn(log, k, Total(fs), b)
  PROVE  /\ LookupNewestFirst(t, fs, k) = LastIn(log, k, 0, b)
         /\ LookupChronological(t, fs, k) = LastIn(log, k, 0, b)
<1> DEFINE n == Len(fs)
           found == InFiles(fs, k)
           values == Append(found, t[k])
           e == [i \in 0..(n + 1) |-> IF i = n + 1 THEN b ELSE End(fs, i)]
<1>1. n \in Nat /\ DOMAIN fs = 1..n
  OBVIOUS
<1>2. /\ \A i \in 0..n: End(fs, i) \in Nat
      /\ \A i \in 1..n: End(fs, i - 1) <= End(fs, i)
      /\ Total(fs) \in Nat /\ Total(fs) = End(fs, n)
  BY EndsAscend DEF Holds, Total
<1>3. \A i \in 1..n: contents[fs[i].id][k] = LastIn(log, k, End(fs, i - 1), End(fs, i))
  BY <1>1 DEF Holds
<1>4. found = [i \in 1..n |-> contents[fs[i].id][k]]
  BY DEF InFiles
<1> HIDE DEF n, found
<1>5. \A i \in 1..n: contents[fs[i].id][k] \in Nat
  <2> SUFFICES ASSUME NEW i \in 1..n PROVE contents[fs[i].id][k] \in Nat
    OBVIOUS
  <2>1. End(fs, i - 1) \in Nat /\ End(fs, i) \in Nat
    BY <1>1, <1>2
  <2>2. QED BY <1>3, <2>1, LastInValues
<1>6. found \in Seq(Nat) /\ Len(found) = n /\ \A i \in 1..n: found[i] = LastIn(log, k, End(fs, i - 1), End(fs, i))
  BY <1>1, <1>3, <1>4, <1>5
<1>7. t[k] \in Nat
  BY <1>2, LastInValues
<1>8. /\ Len(values) = n + 1
      /\ \A i \in 1..n: values[i] = LastIn(log, k, End(fs, i - 1), End(fs, i))
      /\ values[n + 1] = LastIn(log, k, End(fs, n), b)
  BY <1>1, <1>2, <1>6, <1>7
<1> HIDE DEF values
<1>9. \A i \in 0..(n + 1): e[i] = IF i = n + 1 THEN b ELSE End(fs, i)
  OBVIOUS
<1> HIDE DEF e
<1>10. \A i \in 0..(n + 1): e[i] \in Nat
  BY <1>1, <1>2, <1>9
<1>11. ASSUME NEW i \in 1..(n + 1)
       PROVE  e[i - 1] <= e[i] /\ values[i] = LastIn(log, k, e[i - 1], e[i])
  <2>1. i - 1 \in 0..(n + 1) /\ i - 1 # n + 1 /\ i \in 0..(n + 1)
    BY <1>1
  <2>2. e[i - 1] = End(fs, i - 1)
    BY <1>9, <2>1
  <2>3. CASE i = n + 1
    <3>1. e[i] = b /\ i - 1 = n
      BY <1>1, <1>9, <2>1, <2>3
    <3>2. QED BY <1>2, <1>8, <2>2, <2>3, <3>1
  <2>4. CASE i # n + 1
    <3>1. e[i] = End(fs, i) /\ i \in 1..n
      BY <1>1, <1>9, <2>1, <2>4
    <3>2. QED BY <1>2, <1>8, <2>2, <3>1
  <2>5. QED BY <2>3, <2>4
<1>12. e[0] = 0 /\ e[n + 1] = b
  BY <1>1, <1>9 DEF End
<1>13. PICK m \in Nat: m = n + 1
  BY <1>1
<1>14. /\ MergedUp(values) = LastIn(log, k, e[0], e[n + 1])
       /\ MergedDown(values) = LastIn(log, k, e[0], e[n + 1])
  <2>1. Len(values) = m
    BY <1>8, <1>13
  <2>2. \A i \in 0..m: e[i] \in Nat
    BY ONLY <1>10, <1>13
  <2>3. \A i \in 1..m: e[i - 1] <= e[i]
    BY ONLY <1>11, <1>13
  <2>4. \A i \in 1..m: values[i] = LastIn(log, k, e[i - 1], e[i])
    BY ONLY <1>11, <1>13
  <2>5. Ranges(values, log, k, e, m)
    BY ONLY <2>1, <2>2, <2>3, <2>4, m \in Nat DEF Ranges, Ascends
  <2>6. /\ MergedUp(values) = LastIn(log, k, e[0], e[m])
        /\ MergedDown(values) = LastIn(log, k, e[0], e[m])
    BY ONLY <2>5, MergedUpIs, MergedDownIs
  <2>7. QED BY ONLY <1>13, <2>6
<1>15. QED BY <1>12, <1>14 DEF LookupNewestFirst, LookupChronological, values, found

LEMMA ReplayedIs ==
  ASSUME NEW journal \in Seq(Keys \X Values), NEW base \in Nat,
         \A i \in DOMAIN journal: journal[i] = <<log[base + i], base + i>>
  PROVE  \A k \in Keys: Replayed(journal)[k] = LastIn(log, k, base, base + Len(journal))
<1> SUFFICES ASSUME NEW k \in Keys
             PROVE  Replayed(journal)[k] = LastIn(log, k, base, base + Len(journal))
  OBVIOUS
<1> DEFINE n == Len(journal)
           values == [i \in 1..n |-> IF journal[i][1] = k THEN journal[i][2] ELSE None]
           e == [i \in 0..n |-> base + i]
<1>1. n \in Nat /\ DOMAIN journal = 1..n
  OBVIOUS
<1>2. Replayed(journal)[k] = MergedUp(values)
  BY DEF Replayed
<1>3. \A i \in 1..n: journal[i][1] = log[base + i] /\ journal[i][2] = base + i
  BY <1>1
<1> HIDE DEF n
<1>4. /\ \A i \in 1..n: values[i] = IF log[base + i] = k THEN base + i ELSE None
      /\ values = [i \in 1..n |-> values[i]]
  BY <1>3
<1>5. Len(values) = n
  <2>1. \A i \in 1..n: values[i] \in Nat
    BY <1>1, <1>4 DEF None
  <2> HIDE DEF values
  <2>2. QED BY <1>1, <1>4, <2>1
<1>6. \A i \in 0..n: e[i] = base + i
  OBVIOUS
<1> HIDE DEF values, e
<1>7. \A i \in 0..n: e[i] \in Nat
  BY <1>6
<1>8. ASSUME NEW i \in 1..n
      PROVE  e[i - 1] <= e[i] /\ values[i] = LastIn(log, k, e[i - 1], e[i])
  <2> DEFINE f == base + (i - 1)
  <2>1. f \in Nat /\ e[i - 1] = f /\ e[i] = f + 1 /\ base + i = f + 1
    BY <1>1, <1>6
  <2> HIDE DEF f
  <2>2. LastIn(log, k, f, f + 1) = IF log[f + 1] = k THEN f + 1 ELSE None
    BY <2>1, LastOfOne
  <2>3. QED BY <1>4, <2>1, <2>2
<1>9. e[0] = base /\ e[n] = base + n
  BY <1>1, <1>6
<1>10. MergedUp(values) = LastIn(log, k, e[0], e[n])
  <2>1. Ranges(values, log, k, e, n)
    BY ONLY <1>1, <1>5, <1>7, <1>8 DEF Ranges, Ascends
  <2>2. QED BY ONLY <2>1, MergedUpIs
<1>11. QED BY <1>2, <1>9, <1>10 DEF n

-----------------------------------------------------------------------------
(* What a step leaves of the files *)

(* Neither later insertions nor other files matter to the files of fs. *)
LEMMA HoldsKept ==
  ASSUME NEW fs \in Seq(FileInfo), NEW c, NEW l, Holds(c, l, fs), NEW c2, NEW l2,
         Len(l) \in Nat, Len(l2) \in Nat, Len(l) <= Len(l2), \A i \in 1..Len(l): l2[i] = l[i],
         \A id \in Ids(fs): id \in DOMAIN c2 /\ \A k \in Keys: c2[id][k] = c[id][k]
  PROVE  Holds(c2, l2, fs)
<1> DEFINE n == Len(fs)
<1>1. n \in Nat /\ DOMAIN fs = 1..n
  OBVIOUS
<1>2. /\ \A i \in 0..n: End(fs, i) \in Nat /\ End(fs, i) <= Total(fs)
      /\ Total(fs) \in Nat /\ Total(fs) <= Len(l)
  BY EndsAscend DEF Holds
<1> HIDE DEF n
<1>3. ASSUME NEW i \in 1..n, NEW k \in Keys
      PROVE  c2[fs[i].id][k] = LastIn(l2, k, End(fs, i - 1), End(fs, i))
  <2> DEFINE a == End(fs, i - 1)
             b == End(fs, i)
  <2>1. i - 1 \in 0..n /\ i \in 0..n
    BY <1>1
  <2>2. a \in Nat /\ b \in Nat /\ b <= Len(l)
    BY <1>2, <2>1
  <2>3. c2[fs[i].id][k] = c[fs[i].id][k]
    BY <1>1 DEF Ids
  <2>4. c[fs[i].id][k] = LastIn(l, k, a, b)
    BY <1>1 DEF Holds
  <2> HIDE DEF a, b
  <2>5. \A j \in 1..b: l2[j] = l[j]
    BY <2>2
  <2>6. LastIn(l2, k, a, b) = LastIn(l, k, a, b)
    BY <2>2, <2>5, LastKept
  <2>7. QED BY <2>3, <2>4, <2>6 DEF a, b
<1>4. \A i \in 1..n: fs[i].id \in DOMAIN c2
  BY <1>1 DEF Ids
<1>5. Total(fs) <= Len(l2)
  BY <1>2
<1>6. Consecutive(fs) /\ Distinct(fs)
  BY DEF Holds
<1>7. QED BY <1>1, <1>3, <1>4, <1>5, <1>6 DEF Holds

(* A file added at the end *)
LEMMA HoldsOneMore ==
  ASSUME NEW fs \in Seq(FileInfo), NEW c, NEW l, Holds(c, l, fs), Len(l) \in Nat,
         NEW f \in FileInfo, f.first_entry_index = Total(fs),
         f.first_entry_index + f.n_entries <= Len(l),
         f.id \notin Ids(fs), f.id \in DOMAIN c,
         \A k \in Keys: c[f.id][k] = LastIn(l, k, Total(fs), Total(fs) + f.n_entries)
  PROVE  /\ Holds(c, l, Append(fs, f)) /\ Append(fs, f) \in Seq(FileInfo)
         /\ Len(Append(fs, f)) = Len(fs) + 1
         /\ \A i \in 1..Len(fs): Append(fs, f)[i] = fs[i]
         /\ Append(fs, f)[Len(fs) + 1] = f
         /\ Total(Append(fs, f)) = Total(fs) + f.n_entries
         /\ Ids(Append(fs, f)) = Ids(fs) \cup {f.id}
<1>0. PICK g: g = Append(fs, f)
  OBVIOUS
<1> DEFINE n == Len(fs)
<1>1. /\ n \in Nat /\ DOMAIN fs = 1..n
      /\ g \in Seq(FileInfo) /\ Len(g) = n + 1 /\ DOMAIN g = 1..(n + 1)
      /\ \A i \in 1..n: g[i] = fs[i]
      /\ g[n + 1] = f
  BY <1>0
<1>2. \A i \in DOMAIN fs: fs[i].id # f.id
  BY DEF Ids
<1> HIDE DEF n
<1>3. \A i \in 0..n: End(g, i) = End(fs, i)
  BY <1>1 DEF End
<1>4. Total(fs) = End(fs, n) /\ Total(g) = End(g, n + 1) /\ End(g, n + 1) = Total(fs) + f.n_entries
  BY <1>1 DEF Total, End, n
<1>5. Consecutive(g)
  <2> SUFFICES ASSUME NEW i \in 1..(n + 1) PROVE g[i].first_entry_index = End(g, i - 1)
    BY <1>1 DEF Consecutive
  <2>1. CASE i = n + 1
    <3>1. i - 1 = n /\ n \in 0..n
      BY <1>1, <2>1
    <3>2. QED BY <1>1, <1>3, <1>4, <2>1, <3>1
  <2>2. CASE i # n + 1
    <3>1. i \in 1..n /\ i - 1 \in 0..n
      BY <1>1, <2>2
    <3>2. QED BY <1>1, <1>3, <3>1 DEF Holds, Consecutive
  <2>3. QED BY <2>1, <2>2
<1>6. Distinct(g)
  <2> SUFFICES ASSUME NEW i \in 1..(n + 1), NEW j \in 1..(n + 1), g[i].id = g[j].id PROVE i = j
    BY <1>1 DEF Distinct
  <2>1. \A a, b \in 1..n: fs[a].id = fs[b].id => a = b
    BY <1>1 DEF Holds, Distinct
  <2>2. \A a \in 1..(n + 1): a = n + 1 \/ a \in 1..n
    BY <1>1
  <2>3. QED BY <1>1, <1>2, <2>1, <2>2
<1>7. ASSUME NEW i \in 1..(n + 1)
      PROVE  /\ g[i].id \in DOMAIN c
             /\ \A k \in Keys: c[g[i].id][k] = LastIn(l, k, End(g, i - 1), End(g, i))
  <2>1. CASE i = n + 1
    <3>1. i - 1 = n /\ n \in 0..n
      BY <1>1, <2>1
    <3>2. End(g, i - 1) = Total(fs) /\ End(g, i) = Total(fs) + f.n_entries /\ g[i] = f
      BY <1>1, <1>3, <1>4, <2>1, <3>1
    <3>3. QED BY <3>2
  <2>2. CASE i # n + 1
    <3>1. i \in 1..n /\ i - 1 \in 0..n /\ i \in 0..n
      BY <1>1, <2>2
    <3>2. End(g, i - 1) = End(fs, i - 1) /\ End(g, i) = End(fs, i) /\ g[i] = fs[i]
      BY <1>1, <1>3, <3>1
    <3>3. QED BY <1>1, <3>1, <3>2 DEF Holds
  <2>3. QED BY <2>1, <2>2
<1>8. Ids(g) = Ids(fs) \cup {f.id}
  <2>1. \A i \in 1..(n + 1): g[i].id \in Ids(fs) \cup {f.id}
    <3> SUFFICES ASSUME NEW i \in 1..(n + 1) PROVE g[i].id \in Ids(fs) \cup {f.id}
      OBVIOUS
    <3>1. i = n + 1 \/ i \in 1..n
      BY <1>1
    <3>2. QED BY <1>1, <3>1 DEF Ids
  <2>2. \A i \in 1..n: i \in 1..(n + 1) /\ g[i].id = fs[i].id
    BY <1>1
  <2>3. n + 1 \in 1..(n + 1) /\ g[n + 1].id = f.id
    BY <1>1
  <2>4. Ids(g) = {g[i].id: i \in 1..(n + 1)} /\ Ids(fs) = {fs[i].id: i \in 1..n}
    BY <1>1 DEF Ids
  <2>5. \A x \in Ids(g): x \in Ids(fs) \cup {f.id}
    BY ONLY <2>1, <2>4
  <2>6. \A x \in Ids(fs) \cup {f.id}: x \in Ids(g)
    BY ONLY <2>2, <2>3, <2>4
  <2>7. QED BY ONLY <2>5, <2>6
<1>9. Total(g) <= Len(l)
  BY <1>4
<1>10. Holds(c, l, g)
  BY <1>1, <1>5, <1>6, <1>7, <1>9 DEF Holds
<1>11. QED BY ONLY <1>0, <1>1, <1>4, <1>8, <1>10 DEF n

(* Two neighbours p and p + 1 replaced by one file *)
LEMMA HoldsJoined ==
  ASSUME NEW fs \in Seq(FileInfo), NEW c, NEW l, Holds(c, l, fs), Len(l) \in Nat,
         NEW p \in 1..(Len(fs) - 1), NEW f \in FileInfo,
         f.first_entry_index = fs[p].first_entry_index,
         f.n_entries = fs[p].n_entries + fs[p + 1].n_entries,
         f.id \notin Ids(fs), f.id \in DOMAIN c,
         \A k \in Keys: c[f.id][k] = MergeOr(c[fs[p].id][k], c[fs[p + 1].id][k]),
         NEW g, g = Spliced(fs, p, p + 2, f)
  PROVE  /\ Holds(c, l, g) /\ g \in Seq(FileInfo) /\ Len(g) = Len(fs) - 1
         /\ \A i \in 1..(Len(fs) - 1):
              g[i] = IF i < p THEN fs[i] ELSE IF i = p THEN f ELSE fs[i + 1]
         /\ Total(g) = Total(fs)
         /\ Ids(g) = (Ids(fs) \ {fs[p].id, fs[p + 1].id}) \cup {f.id}
<1> DEFINE n == Len(fs)
           at(i) == IF i < p THEN i ELSE i + 1
<1>1. /\ n \in Nat /\ DOMAIN fs = 1..n /\ p \in 1..(n - 1) /\ p \in Nat
      /\ \A i \in 1..n: fs[i] \in FileInfo
  OBVIOUS
<1>2. /\ g \in Seq(FileInfo) /\ Len(g) = n - 1 /\ DOMAIN g = 1..(n - 1)
      /\ \A i \in 1..(n - 1): g[i] = IF i < p THEN fs[i] ELSE IF i = p THEN f ELSE fs[i + 1]
  <2>1. p \in 1..(n + 1) /\ p + 2 \in p..(n + 1)
    BY <1>1
  <2> DEFINE q == p + 2
  <2>2. q - p = 2 /\ n + 1 - (q - p) = n - 1 /\ \A i \in 1..n: i + (q - p) - 1 = i + 1
    BY <1>1
  <2>3. q \in p..(n + 1) /\ g = Spliced(fs, p, q, f)
    BY <2>1
  <2> HIDE DEF q
  <2>4. /\ g \in Seq(FileInfo) /\ Len(g) = n + 1 - (q - p)
        /\ \A i \in 1..Len(g): g[i] = IF i < p THEN fs[i] ELSE IF i = p THEN f ELSE fs[i + (q - p) - 1]
    <3>1. p \in 1..(Len(fs) + 1) /\ q \in p..(Len(fs) + 1)
      BY <2>1, <2>3
    <3>2. fs \in Seq(FileInfo) /\ f \in FileInfo
      OBVIOUS
    <3>3. Spliced(fs, p, q, f) \in Seq(FileInfo)
      BY ONLY <3>1, <3>2, SplicedIs
    <3>4. Len(Spliced(fs, p, q, f)) = Len(fs) + 1 - (q - p)
      BY ONLY <3>1, <3>2, SplicedIs
    <3>5. \A i \in 1..Len(Spliced(fs, p, q, f)):
            Spliced(fs, p, q, f)[i] = IF i < p THEN fs[i] ELSE IF i = p THEN f ELSE fs[i + (q - p) - 1]
      BY ONLY <3>1, <3>2, SplicedIs
    <3>6. QED BY ONLY <2>3, <3>3, <3>4, <3>5 DEF n
  <2>5. Len(g) = n - 1
    BY <2>2, <2>4
  <2>6. DOMAIN g = 1..Len(g)
    BY <2>4, LenProperties
  <2>7. \A i \in 1..(n - 1): i \in 1..n
    BY <1>1
  <2>8. QED BY <2>2, <2>4, <2>5, <2>6, <2>7
<1>3. /\ \A a, b \in 1..n: fs[a].id = fs[b].id => a = b
      /\ \A i \in 1..n: fs[i].id # f.id
      /\ \A i \in 1..n: fs[i].first_entry_index = End(fs, i - 1)
      /\ \A i \in 1..n: fs[i].id \in DOMAIN c
      /\ \A i \in 1..n: \A k \in Keys: c[fs[i].id][k] = LastIn(l, k, End(fs, i - 1), End(fs, i))
  BY <1>1 DEF Holds, Distinct, Consecutive, Ids
<1>4. /\ \A i \in 0..n: End(fs, i) \in Nat
      /\ \A i \in 1..n: End(fs, i - 1) <= End(fs, i)
      /\ Total(fs) = End(fs, n)
  BY EndsAscend DEF Holds, Total
<1> HIDE DEF n
<1>5. p \in 1..n /\ p + 1 \in 1..n /\ p + 1 - 1 = p /\ p - 1 \in 0..n /\ p \in 0..n /\ p + 1 \in 0..n
  BY <1>1
<1>16. ASSUME NEW i \in 1..(n - 1)
       PROVE  /\ i \in 1..n /\ i \in 0..n /\ i - 1 \in 0..n /\ i + 1 \in 1..n /\ i \in Nat
              /\ i < p => g[i] = fs[i] /\ at(i) = i
              /\ i = p => g[i] = f
              /\ i > p => g[i] = fs[i + 1] /\ at(i) = i + 1
              /\ i < p \/ i = p \/ i > p
  BY ONLY <1>1, <1>2
<1>17. at(p) = p + 1 /\ at(0) = 0 /\ at(n - 1) = n /\ \A i \in 1..(n - 1): i > p => at(i - 1) = i
  BY ONLY <1>1
<1>18. \A i \in 1..(n - 1): i <= p => at(i - 1) = i - 1
  BY ONLY <1>1
<1>19. \A i \in 1..(n - 1): at(i) \in 1..n /\ (i # p => at(i) # p /\ at(i) # p + 1)
  BY ONLY <1>1
<1>20. \A i, j \in 1..(n - 1): at(i) = at(j) => i = j
  BY ONLY <1>1
<1>21. \A i \in 0..n: i # 0 => End(fs, i) = fs[i].first_entry_index + fs[i].n_entries
  BY DEF End
<1> HIDE DEF at
<1>6. f.first_entry_index = End(fs, p - 1) /\ f.first_entry_index + f.n_entries = End(fs, p + 1)
  <2>1. f.first_entry_index = End(fs, p - 1)
    BY <1>3, <1>5
  <2>2. End(fs, p) = fs[p].first_entry_index + fs[p].n_entries
    BY <1>5 DEF End
  <2>3. End(fs, p + 1) = fs[p + 1].first_entry_index + fs[p + 1].n_entries
    BY <1>5 DEF End
  <2>4. fs[p + 1].first_entry_index = End(fs, p)
    BY <1>3, <1>5
  <2>7. fs[p] \in FileInfo /\ fs[p + 1] \in FileInfo
    BY <1>1, <1>5
  <2>5. fs[p].first_entry_index \in Nat /\ fs[p].n_entries \in Nat /\ fs[p + 1].n_entries \in Nat
    BY ONLY <2>7 DEF FileInfo
  <2>8. f.first_entry_index = fs[p].first_entry_index /\ f.n_entries = fs[p].n_entries + fs[p + 1].n_entries
    OBVIOUS
  <2>6. f.first_entry_index + f.n_entries = End(fs, p + 1)
    BY ONLY <2>2, <2>3, <2>4, <2>5, <2>8
  <2>9. QED BY ONLY <2>1, <2>6
<1>7. \A i \in 0..(n - 1): End(g, i) = End(fs, at(i))
  <2> SUFFICES ASSUME NEW i \in 0..(n - 1) PROVE End(g, i) = End(fs, at(i))
    OBVIOUS
  <2>1. CASE i = 0
    BY <1>17, <2>1 DEF End
  <2>2. CASE i # 0
    <3>1. i \in 1..(n - 1)
      BY <1>1, <2>2
    <3>2. End(g, i) = g[i].first_entry_index + g[i].n_entries
      BY <2>2 DEF End
    <3>3. CASE i < p
      BY <1>16, <1>21, <2>2, <3>1, <3>2, <3>3
    <3>4. CASE i = p
      BY <1>6, <1>16, <1>17, <3>1, <3>2, <3>4
    <3>5. CASE i > p
      <4>1. g[i] = fs[i + 1] /\ at(i) = i + 1
        BY ONLY <1>16, <3>1, <3>5
      <4>2. i + 1 \in 0..n /\ i + 1 # 0
        BY ONLY <1>1, <3>1
      <4>3. End(fs, i + 1) = fs[i + 1].first_entry_index + fs[i + 1].n_entries
        BY ONLY <1>21, <4>2
      <4>4. QED BY ONLY <3>2, <4>1, <4>3
    <3>6. QED BY ONLY <1>16, <3>1, <3>3, <3>4, <3>5
  <2>3. QED BY ONLY <2>1, <2>2
<1>8. ASSUME NEW i \in 1..(n - 1)
      PROVE  /\ g[i].first_entry_index = End(g, i - 1)
             /\ g[i].id \in DOMAIN c
             /\ \A k \in Keys: c[g[i].id][k] = LastIn(l, k, End(g, i - 1), End(g, i))
  <2>1. i - 1 \in 0..(n - 1) /\ i \in 0..(n - 1) /\ i \in 1..n /\ i + 1 \in 1..n
    BY <1>1
  <2>2. End(g, i - 1) = End(fs, at(i - 1)) /\ End(g, i) = End(fs, at(i))
    BY <1>7, <2>1
  <2>3. CASE i < p
    <3>1. at(i - 1) = i - 1 /\ at(i) = i /\ g[i] = fs[i]
      BY ONLY <1>1, <1>16, <1>18, <2>3, i \in 1..(n - 1)
    <3>2. QED BY ONLY <1>3, <2>1, <2>2, <3>1
  <2>4. CASE i = p
    <3>1. at(i - 1) = p - 1 /\ at(i) = p + 1 /\ g[i] = f
      BY ONLY <1>1, <1>16, <1>17, <1>18, <2>4, i \in 1..(n - 1)
    <3>2. ASSUME NEW k \in Keys
          PROVE  c[f.id][k] = LastIn(l, k, End(fs, p - 1), End(fs, p + 1))
      <4>1. /\ End(fs, p - 1) \in Nat /\ End(fs, p) \in Nat /\ End(fs, p + 1) \in Nat
            /\ End(fs, p - 1) <= End(fs, p) /\ End(fs, p) <= End(fs, p + 1)
        BY <1>4, <1>5
      <4>2. /\ c[fs[p].id][k] = LastIn(l, k, End(fs, p - 1), End(fs, p))
            /\ c[fs[p + 1].id][k] = LastIn(l, k, End(fs, p), End(fs, p + 1))
        BY <1>3, <1>5
      <4>3. MergeOr(LastIn(l, k, End(fs, p - 1), End(fs, p)), LastIn(l, k, End(fs, p), End(fs, p + 1)))
              = LastIn(l, k, End(fs, p - 1), End(fs, p + 1))
        BY <4>1, LastJoins
      <4>4. QED BY <4>2, <4>3
    <3>3. QED BY ONLY <1>6, <2>2, <3>1, <3>2, f.id \in DOMAIN c
  <2>5. CASE i > p
    <3>1. at(i - 1) = i /\ at(i) = i + 1 /\ g[i] = fs[i + 1]
      BY ONLY <1>16, <1>17, <2>5, i \in 1..(n - 1)
    <3>2. i + 1 - 1 = i
      BY ONLY <2>1
    <3>3. /\ fs[i + 1].first_entry_index = End(fs, i)
          /\ fs[i + 1].id \in DOMAIN c
          /\ \A k \in Keys: c[fs[i + 1].id][k] = LastIn(l, k, End(fs, i), End(fs, i + 1))
      BY ONLY <1>3, <2>1, <3>2
    <3>4. QED BY ONLY <2>2, <3>1, <3>3
  <2>6. QED BY ONLY <1>16, <2>3, <2>4, <2>5, i \in 1..(n - 1)
<1>9. Distinct(g)
  <2> SUFFICES ASSUME NEW i \in 1..(n - 1), NEW j \in 1..(n - 1), g[i].id = g[j].id PROVE i = j
    BY <1>2 DEF Distinct
  <2>1. \A a \in 1..(n - 1): a # p => at(a) \in 1..n /\ g[a] = fs[at(a)]
    BY ONLY <1>16, <1>19
  <2>2. g[p] = f
    BY ONLY <1>1, <1>16
  <2>3. CASE i = p /\ j # p
    BY <1>3, <2>1, <2>2, <2>3
  <2>4. CASE j = p /\ i # p
    BY <1>3, <2>1, <2>2, <2>4
  <2>5. CASE i # p /\ j # p
    <3>3. at(i) \in 1..n /\ at(j) \in 1..n /\ fs[at(i)].id = fs[at(j)].id
      BY <2>1, <2>5
    <3>1. at(i) = at(j)
      BY ONLY <1>3, <3>3
    <3>2. QED BY ONLY <1>20, <3>1, i \in 1..(n - 1), j \in 1..(n - 1)
  <2>6. QED BY <2>3, <2>4, <2>5
<1>10. Total(g) = Total(fs)
  <2>1. n - 1 \in 0..(n - 1)
    BY <1>1
  <2>2. Total(g) = End(g, n - 1)
    BY <1>2 DEF Total
  <2>3. QED BY <1>4, <1>7, <1>17, <2>1, <2>2
<1>11. Ids(g) = (Ids(fs) \ {fs[p].id, fs[p + 1].id}) \cup {f.id}
  <2>1. ASSUME NEW i \in 1..(n - 1)
        PROVE  g[i].id \in (Ids(fs) \ {fs[p].id, fs[p + 1].id}) \cup {f.id}
    <3>1. CASE i = p
      BY <1>2, <3>1
    <3>2. CASE i # p
      <4>1. at(i) \in 1..n /\ g[i] = fs[at(i)] /\ at(i) # p /\ at(i) # p + 1
        BY ONLY <1>16, <1>19, <3>2, i \in 1..(n - 1)
      <4>2. fs[at(i)].id \in Ids(fs)
        BY <1>1, <4>1 DEF Ids
      <4>3. fs[at(i)].id # fs[p].id /\ fs[at(i)].id # fs[p + 1].id
        BY <1>3, <1>5, <4>1
      <4>4. QED BY <4>1, <4>2, <4>3
    <3>3. QED BY <3>1, <3>2
  <2>2. ASSUME NEW i \in 1..n, i # p, i # p + 1
        PROVE  \E j \in 1..(n - 1): g[j].id = fs[i].id
    <3>1. CASE i < p
      <4>1. i \in 1..(n - 1)
        BY <1>1, <3>1
      <4>3. g[i] = fs[i]
        BY ONLY <1>16, <3>1, <4>1
      <4>2. QED BY <4>1, <4>3
    <3>2. CASE ~(i < p)
      <4>1. i - 1 \in 1..(n - 1) /\ i - 1 > p /\ (i - 1) + 1 = i
        BY <1>1, <2>2, <3>2
      <4>2. g[i - 1] = fs[i]
        BY ONLY <1>16, <4>1
      <4>3. QED BY <4>1, <4>2
    <3>3. QED BY <3>1, <3>2
  <2>3. p \in 1..(n - 1) /\ g[p].id = f.id
    BY <1>1, <1>2
  <2>4. \A x \in Ids(g): x \in (Ids(fs) \ {fs[p].id, fs[p + 1].id}) \cup {f.id}
    BY <1>2, <2>1 DEF Ids
  <2>7. Ids(g) = {g[i].id: i \in 1..(n - 1)} /\ Ids(fs) = {fs[i].id: i \in 1..n}
    BY <1>1, <1>2 DEF Ids
  <2>8. ASSUME NEW x \in Ids(fs), x # fs[p].id, x # fs[p + 1].id PROVE x \in Ids(g)
    <3>1. PICK i \in 1..n: x = fs[i].id
      BY <2>7
    <3>2. PICK j \in 1..(n - 1): g[j].id = fs[i].id
      BY ONLY <2>2, <2>8, <3>1
    <3>3. QED BY ONLY <2>7, <3>1, <3>2
  <2>9. f.id \in Ids(g)
    BY ONLY <2>3, <2>7
  <2>5. \A x \in (Ids(fs) \ {fs[p].id, fs[p + 1].id}) \cup {f.id}: x \in Ids(g)
    BY ONLY <2>8, <2>9
  <2>6. QED BY ONLY <2>4, <2>5
<1>12. Total(g) <= Len(l)
  BY <1>10 DEF Holds
<1>13. Consecutive(g)
  BY <1>2, <1>8 DEF Consecutive
<1>14. Holds(c, l, g)
  BY <1>2, <1>8, <1>9, <1>12, <1>13 DEF Holds
<1>15. QED BY <1>2, <1>10, <1>11, <1>14 DEF n

-----------------------------------------------------------------------------
(* What the types say *)

LEMMA IdsAreNumbers ==
  ASSUME Up
  PROVE  \A id \in Ids(files) \cup Ids(cp.files) \cup ToSet(defunct_files) \cup loaded: id \in Nat
<1>1. files \in Seq(FileInfo) /\ defunct_files \in Seq(Nat) /\ loaded \subseteq Nat /\ cp \in Checkpoint
  BY DEF Up, TypeOK
<1>2. cp.files \in Seq(FileInfo)
  BY ONLY <1>1 DEF Checkpoint
<1>3. ASSUME NEW fs \in Seq(FileInfo), NEW i \in DOMAIN fs PROVE fs[i].id \in Nat
  <2>1. fs[i] \in FileInfo
    OBVIOUS
  <2>2. QED BY ONLY <2>1 DEF FileInfo
<1>4. \A fs \in Seq(FileInfo): Ids(fs) \subseteq Nat
  BY ONLY <1>3 DEF Ids
<1>5. ToSet(defunct_files) \subseteq Nat
  BY ONLY <1>1 DEF ToSet
<1>6. QED BY ONLY <1>1, <1>2, <1>4, <1>5

LEMMA JobsAreTyped ==
  ASSUME Up
  PROVE  \A m \in ToSet(running): /\ m \in MergeJob
                                  /\ m.a \in Nat /\ m.b \in Nat /\ m.out \in Nat
                                  /\ m.a_left \in SUBSET Keys /\ m.b_left \in SUBSET Keys
<1>1. running \in Seq(MergeJob)
  BY DEF Up, TypeOK
<1>2. \A m \in ToSet(running): m \in MergeJob
  BY ONLY <1>1 DEF ToSet
<1>3. QED BY ONLY <1>2 DEF MergeJob

LEMMA CheckpointIsTyped ==
  ASSUME Up
  PROVE  /\ cp.files \in Seq(FileInfo) /\ cp.journal \in Seq(Keys \X Values)
         /\ cp = [files |-> cp.files, journal |-> cp.journal]
         /\ new_cp.files \in Seq(FileInfo) /\ new_cp.journal \in Seq(Keys \X Values)
<1>1. cp \in Checkpoint /\ new_cp \in Checkpoint
  BY DEF Up, TypeOK
<1>2. QED BY ONLY <1>1 DEF Checkpoint

-----------------------------------------------------------------------------
(* Steps that leave the files, the tree and the merges alone *)

LEMMA QuietSteps ==
  ASSUME Up, TypeOK', StepInv', pc' # "down",
         UNCHANGED <<contents, present, cp, files, tree, mergeVars, cp_first_entry_index,
                     cp_n_entries, log, loaded, fault>>,
         next_id' >= next_id, stranded => stranded'
  PROVE  Up'
<1>1. /\ contents' = contents /\ present' = present /\ cp' = cp /\ files' = files
      /\ tree' = tree /\ possible' = possible /\ running' = running
      /\ defunct_files' = defunct_files
      /\ cp_first_entry_index' = cp_first_entry_index /\ cp_n_entries' = cp_n_entries
      /\ log' = log /\ loaded' = loaded /\ fault' = fault
  BY DEF mergeVars
<1>2. next_id \in Nat /\ next_id' \in Nat /\ next_id' >= next_id
  BY DEF Up, TypeOK
<1>3. CheckpointInv'
  BY <1>1 DEF Up, CheckpointInv
<1>4. FilesInv'
  BY <1>1 DEF Up, FilesInv
<1>5. IdsInv'
  <2>1. \A id \in Ids(files) \cup Ids(cp.files) \cup ToSet(defunct_files) \cup loaded: id < next_id'
    <3>1. \A id \in Ids(files) \cup Ids(cp.files) \cup ToSet(defunct_files) \cup loaded:
            id \in Nat /\ id < next_id
      BY IdsAreNumbers DEF Up, IdsInv
    <3>2. QED BY ONLY <1>2, <3>1
  <2>2. QED BY <1>1, <2>1 DEF Up, IdsInv
<1>6. JobsInv'
  <2>1. ASSUME NEW m \in ToSet(running) PROVE m.out < next_id'
    <3>1. m.out \in Nat /\ m.out < next_id
      BY JobsAreTyped DEF Up, JobsInv, JobKept
    <3>2. QED BY ONLY <1>2, <3>1
  <2>2. ASSUME NEW m \in ToSet(running) PROVE JobKept(m)'
    BY <1>1, <2>1 DEF Up, JobsInv, JobKept
  <2>3. QED BY <1>1, <2>2 DEF Up, JobsInv
<1>7. PairsInv'
  BY <1>1 DEF Up, PairsInv, Merging
<1>8. QED BY <1>1, <1>3, <1>4, <1>5, <1>6, <1>7 DEF Up

LEMMA DumpTreeFailsKeeps ==
  ASSUME Up, DumpTreeFails PROVE Up'
<1>1. /\ pc = "dump" /\ pc' = "user" /\ next_id' = next_id + 1
      /\ UNCHANGED <<diskVars, files, tree, mergeVars, cpVars, n_processed, ghostVars, fault>>
  BY DEF DumpTreeFails
<1>2. next_id \in Nat /\ next_id' \in Nat /\ next_id' >= next_id
  BY <1>1 DEF Up, TypeOK
<1>3. TypeOK'
  BY <1>1, <1>2 DEF Up, TypeOK, diskVars, mergeVars, cpVars, ghostVars
<1>4. StepInv'
  BY <1>1 DEF Up, StepInv, diskVars, cpVars, ghostVars
<1>5. QED BY <1>1, <1>2, <1>3, <1>4, QuietSteps DEF diskVars, cpVars, ghostVars

LEMMA WriteCheckpointKeeps ==
  ASSUME Up, WriteCheckpoint PROVE Up'
<1>1. /\ pc = "checkpoint" /\ pc' = "rename" /\ cp_path' = "NEW_CP"
      /\ new_cp' = [files |-> files, journal |-> <<>>]
      /\ UNCHANGED <<contents, present, cp, files, tree, next_id, mergeVars, cp_first_entry_index,
                     cp_n_entries, n_processed, log, loaded, stranded, stops, fault>>
  BY DEF WriteCheckpoint, CheckpointState, ghostVars
<1>2. next_id \in Nat /\ next_id' = next_id
  BY <1>1 DEF Up, TypeOK
<1>3. new_cp' \in Checkpoint
  <2>1. files \in Seq(FileInfo) /\ <<>> \in Seq(Keys \X Values)
    BY DEF Up, TypeOK
  <2>2. QED BY ONLY <1>1, <2>1 DEF Checkpoint
<1>4. TypeOK'
  BY <1>1, <1>3 DEF Up, TypeOK, mergeVars
<1>5. StepInv'
  BY <1>1 DEF Up, StepInv
<1>6. next_id' >= next_id
  BY <1>2
<1>7. QED BY <1>1, <1>4, <1>5, <1>6, QuietSteps

LEMMA WriteCheckpointFailsKeeps ==
  ASSUME Up, WriteCheckpointFails PROVE Up'
<1>1. /\ pc = "checkpoint" /\ pc' = "user"
      /\ UNCHANGED <<diskVars, files, tree, next_id, mergeVars, cpVars, n_processed, ghostVars,
                     fault>>
  BY DEF WriteCheckpointFails
<1>2. next_id' >= next_id
  BY <1>1 DEF Up, TypeOK
<1>3. TypeOK'
  BY <1>1 DEF Up, TypeOK, diskVars, mergeVars, cpVars, ghostVars
<1>4. StepInv'
  BY <1>1 DEF Up, StepInv, diskVars, cpVars, ghostVars
<1>5. QED BY <1>1, <1>2, <1>3, <1>4, QuietSteps DEF diskVars, cpVars, ghostVars

LEMMA RenameCheckpointFailsKeeps ==
  ASSUME Up, RenameCheckpointFails PROVE Up'
<1>1. /\ pc = "rename" /\ pc' = "user" /\ stranded' = TRUE
      /\ UNCHANGED <<diskVars, files, tree, next_id, mergeVars, cpVars, n_processed,
                     log, loaded, stops, fault>>
  BY DEF RenameCheckpointFails
<1>2. next_id' >= next_id
  BY <1>1 DEF Up, TypeOK
<1>3. TypeOK'
  BY <1>1 DEF Up, TypeOK, diskVars, mergeVars, cpVars
<1>4. StepInv'
  BY <1>1 DEF Up, StepInv, diskVars, cpVars
<1>5. QED BY <1>1, <1>2, <1>3, <1>4, QuietSteps DEF diskVars, cpVars

LEMMA StartsDoneKeeps ==
  ASSUME Up, StartsDone PROVE Up'
<1>1. /\ pc \in Starting /\ pc' \in {"user", "work1", "work2"}
      /\ UNCHANGED <<diskVars, files, tree, next_id, mergeVars, cpVars, n_processed, ghostVars,
                     fault>>
  BY DEF StartsDone, Starting
<1>2. next_id' >= next_id
  BY <1>1 DEF Up, TypeOK
<1>3. TypeOK'
  BY <1>1 DEF Up, TypeOK, diskVars, mergeVars, cpVars, ghostVars
<1>4. StepInv'
  BY <1>1 DEF Up, StepInv, Starting, diskVars, cpVars, ghostVars
<1>5. pc' # "down"
  BY <1>1
<1>6. QED BY <1>1, <1>2, <1>3, <1>4, <1>5, QuietSteps DEF diskVars, cpVars, ghostVars

LEMMA WorkDoneKeeps ==
  ASSUME Up, WorkDone PROVE Up'
<1>1. /\ pc \in {"work1", "work2"} /\ pc' \in {"user", "start2"}
      /\ UNCHANGED <<diskVars, files, tree, next_id, mergeVars, cpVars, n_processed, ghostVars,
                     fault>>
  BY DEF WorkDone
<1>2. next_id' >= next_id
  BY <1>1 DEF Up, TypeOK
<1>3. TypeOK'
  BY <1>1 DEF Up, TypeOK, Starting, diskVars, mergeVars, cpVars, ghostVars
<1>4. StepInv'
  BY <1>1 DEF Up, StepInv, diskVars, cpVars, ghostVars
<1>5. pc' # "down"
  BY <1>1
<1>6. QED BY <1>1, <1>2, <1>3, <1>4, <1>5, QuietSteps DEF diskVars, cpVars, ghostVars

-----------------------------------------------------------------------------
(* Steps of the checkpoint and of the journal *)

LEMMA FilesAreTyped ==
  ASSUME Up
  PROVE  /\ Len(files) \in Nat /\ DOMAIN files = 1..Len(files)
         /\ \A i \in 1..Len(files): files[i] \in FileInfo /\ files[i].id \in Ids(files)
         /\ \A i, j \in 1..Len(files): files[i].id = files[j].id => i = j
         /\ log \in Seq(Keys) /\ Len(log) \in Nat
<1>1. files \in Seq(FileInfo) /\ log \in Seq(Keys)
  BY DEF Up, TypeOK
<1>2. \A i \in 1..Len(files): files[i].id \in Ids(files)
  BY <1>1 DEF Ids
<1>3. Distinct(files)
  BY DEF Up, FilesInv, Holds
<1>4. QED BY ONLY <1>1, <1>2, <1>3 DEF Distinct

(* The files, their merges and their ids stay as they are. *)
LEMMA StructureStays ==
  ASSUME Up, UNCHANGED <<contents, present, files, possible, running, defunct_files, loaded>>,
         Ids(cp.files)' \subseteq Ids(cp.files) \cup Ids(files), next_id' = next_id
  PROVE  IdsInv' /\ JobsInv' /\ PairsInv'
<1>1. /\ contents' = contents /\ present' = present /\ files' = files
      /\ possible' = possible /\ running' = running /\ defunct_files' = defunct_files
      /\ loaded' = loaded /\ next_id' = next_id
  OBVIOUS
<1>2. Ids(cp.files)' = Ids(cp'.files)
  OBVIOUS
<1>3. Ids(cp'.files) \subseteq Ids(cp.files) \cup Ids(files) /\ Ids(files) \subseteq present
  BY <1>2 DEF Up, FilesInv
<1>4. IdsInv'
  BY <1>1, <1>3 DEF Up, IdsInv
<1>5. JobsInv'
  <2>1. ASSUME NEW m \in ToSet(running) PROVE JobKept(m)'
    BY <1>1, <1>3 DEF Up, JobsInv, JobKept
  <2>2. QED BY <1>1, <2>1 DEF Up, JobsInv
<1>6. PairsInv'
  BY <1>1 DEF Up, PairsInv, Merging
<1>7. QED BY <1>4, <1>5, <1>6

LEMMA RenameCheckpointKeeps ==
  ASSUME Up, RenameCheckpoint PROVE Up'
<1>1. /\ pc = "rename" /\ pc' = "defunct" /\ cp' = new_cp /\ new_cp' = NoCheckpoint
      /\ cp_path' = "CP" /\ stranded' = FALSE
      /\ UNCHANGED <<contents, present, files, tree, next_id, mergeVars, cp_first_entry_index,
                     cp_n_entries, n_processed, log, loaded, stops, fault>>
  BY DEF RenameCheckpoint
<1>2. cp' = [files |-> files, journal |-> <<>>] /\ cp_n_entries = 0
  BY <1>1 DEF Up, StepInv
<1>3. cp'.files = files /\ cp'.journal = <<>>
  BY <1>2
<1>4. TypeOK'
  <2>1. NoCheckpoint \in Checkpoint
    BY DEF NoCheckpoint, Checkpoint
  <2>2. QED BY <1>1, <2>1 DEF Up, TypeOK, mergeVars
<1>5. CheckpointInv'
  <2>1. Holds(contents, log, files) /\ Total(files) + cp_n_entries = Len(log)
    BY DEF Up, FilesInv
  <2>2. Total(files) \in Nat /\ Len(log) \in Nat
    BY FilesAreTyped, <2>1, EndsAscend DEF Up, TypeOK, Holds
  <2>3. Total(files) + Len(cp'.journal) = Len(log)
    BY <1>2, <1>3, <2>1, <2>2
  <2>4. \A id \in Ids(files): id < next_id
    BY DEF Up, IdsInv
  <2>5. next_id \in Nat
    BY DEF Up, TypeOK
  <2>6. DOMAIN cp'.journal = {}
    BY <1>3
  <2>7. Total(files) + Len(cp'.journal) <= Len(log)
    BY <2>2, <2>3
  <2>8. QED BY <1>1, <1>3, <2>1, <2>3, <2>4, <2>5, <2>6, <2>7 DEF CheckpointInv
<1>6. FilesInv'
  BY <1>1 DEF Up, FilesInv
<1>7. IdsInv' /\ JobsInv' /\ PairsInv'
  <2>1. Ids(cp.files)' \subseteq Ids(cp.files) \cup Ids(files)
    BY <1>3
  <2>2. QED BY <1>1, <2>1, StructureStays DEF mergeVars
<1>8. StepInv'
  BY <1>1, <1>3 DEF StepInv
<1>9. QED BY <1>1, <1>4, <1>5, <1>6, <1>7, <1>8 DEF Up

LEMMA TailWithin ==
  ASSUME NEW S, NEW list \in Seq(S), list # <<>>
  PROVE  /\ Tail(list) \in Seq(S) /\ Head(list) \in ToSet(list)
         /\ ToSet(Tail(list)) \subseteq ToSet(list)
<1> DEFINE rest == Tail(list)
           n == Len(list)
<1>1. /\ Head(list) = list[1] /\ n \in Nat /\ n >= 1 /\ DOMAIN list = 1..n
      /\ rest \in Seq(S) /\ DOMAIN rest = 1..(n - 1) /\ \A i \in 1..(n - 1): rest[i] = list[i + 1]
  OBVIOUS
<1> HIDE DEF rest, n
<1>2. \A i \in 1..(n - 1): i + 1 \in 1..n
  BY <1>1
<1>3. QED BY <1>1, <1>2 DEF ToSet, rest

LEMMA DeleteDefunctKeeps ==
  ASSUME Up, DeleteDefunct PROVE Up'
<1>1. /\ pc = "defunct"
      /\ UNCHANGED <<contents, cp, new_cp, files, tree, next_id, possible, running, n_merge_jobs,
                     cpVars, n_processed, ghostVars, fault>>
  BY DEF DeleteDefunct
<1>2. next_id \in Nat /\ next_id' = next_id /\ cp.files = files
  BY <1>1 DEF Up, TypeOK, StepInv
<1>3. CASE /\ defunct_files = <<>> /\ pc' = "work1"
           /\ UNCHANGED <<present, defunct_files>>
  <2>1. TypeOK'
    BY <1>1, <1>3 DEF Up, TypeOK, cpVars, ghostVars
  <2>2. StepInv'
    BY <1>1, <1>3 DEF Up, StepInv, cpVars, ghostVars
  <2>3. next_id' >= next_id
    BY <1>2
  <2>4. QED BY <1>1, <1>3, <2>1, <2>2, <2>3, QuietSteps DEF cpVars, ghostVars, mergeVars
<1>4. CASE /\ defunct_files # <<>> /\ present' = present \ {Head(defunct_files)}
           /\ defunct_files' = Tail(defunct_files) /\ pc' = pc
  <2>1. /\ defunct_files' \in Seq(Nat) /\ Head(defunct_files) \in ToSet(defunct_files)
        /\ ToSet(defunct_files') \subseteq ToSet(defunct_files)
    BY <1>4, TailWithin DEF Up, TypeOK
  <2>2. TypeOK'
    BY <1>1, <1>4, <2>1 DEF Up, TypeOK, cpVars, ghostVars
  <2>3. CheckpointInv'
    BY <1>1 DEF Up, CheckpointInv, ghostVars
  <2>4. Ids(files) \subseteq present'
    BY <1>4, <2>1 DEF Up, FilesInv, IdsInv
  <2>5. FilesInv'
    BY <1>1, <2>4 DEF Up, FilesInv, cpVars, ghostVars
  <2>6. IdsInv'
    BY <1>1, <1>2, <2>1, <2>4 DEF Up, IdsInv, ghostVars
  <2>7. JobsInv'
    <3>1. ASSUME NEW m \in ToSet(running) PROVE JobKept(m)'
      <4>1. m.out # Head(defunct_files)
        BY <2>1 DEF Up, JobsInv, JobKept
      <4>2. QED BY <1>1, <1>4, <2>1, <4>1 DEF Up, JobsInv, JobKept, ghostVars
    <3>2. QED BY <1>1, <3>1 DEF Up, JobsInv
  <2>8. PairsInv'
    BY <1>1 DEF Up, PairsInv, Merging
  <2>9. StepInv'
    BY <1>1, <1>4 DEF Up, StepInv, cpVars, ghostVars
  <2>10. QED BY <1>1, <1>4, <2>2, <2>3, <2>5, <2>6, <2>7, <2>8, <2>9 DEF Up
<1>5. QED BY <1>3, <1>4 DEF DeleteDefunct

(* What is journalled in the checkpoint file of its name *)
LEMMA JournalIs ==
  ASSUME Up, NEW entry \in Keys \X Values, Journal(entry)
  PROVE  /\ cp' \in Checkpoint /\ new_cp' \in Checkpoint /\ cp'.files = cp.files
         /\ cp_path = "CP" => cp'.journal = Append(cp.journal, entry)
         /\ cp_path # "CP" => cp'.journal = cp.journal
<1>1. /\ cp.files \in Seq(FileInfo) /\ cp.journal \in Seq(Keys \X Values)
      /\ cp = [files |-> cp.files, journal |-> cp.journal]
      /\ new_cp.files \in Seq(FileInfo) /\ new_cp.journal \in Seq(Keys \X Values)
  BY CheckpointIsTyped
<1>2. cp \in Checkpoint /\ new_cp \in Checkpoint
  BY DEF Up, TypeOK
<1>3. \A j \in Seq(Keys \X Values): Append(j, entry) \in Seq(Keys \X Values)
  OBVIOUS
<1>4. CASE cp_path = "CP"
  <2>1. cp' = [cp EXCEPT !.journal = Append(@, entry)] /\ new_cp' = new_cp
    BY <1>4 DEF Journal
  <2>2. cp' = [files |-> cp.files, journal |-> Append(cp.journal, entry)]
    BY ONLY <1>1, <2>1
  <2>3. QED BY <1>1, <1>2, <1>3, <1>4, <2>1, <2>2 DEF Checkpoint
<1>5. CASE cp_path # "CP"
  <2>1. new_cp' = [new_cp EXCEPT !.journal = Append(@, entry)] /\ cp' = cp
    BY <1>5 DEF Journal
  <2>2. new_cp = [files |-> new_cp.files, journal |-> new_cp.journal]
    BY ONLY <1>2 DEF Checkpoint
  <2>3. new_cp' = [files |-> new_cp.files, journal |-> Append(new_cp.journal, entry)]
    BY ONLY <2>1, <2>2
  <2>4. new_cp' \in Checkpoint
    BY ONLY <1>1, <1>3, <2>3 DEF Checkpoint
  <2>5. QED BY <1>2, <1>5, <2>1, <2>4
<1>6. QED BY <1>4, <1>5

LEMMA InsertKeeps ==
  ASSUME Up, NEW k \in Keys, Insert(k) PROVE Up'
<1> DEFINE n == Len(log)
           base == Total(cp.files)
<1>1. /\ pc = "user" /\ n < MaxInserts
      /\ tree' = [tree EXCEPT ![k] = MergeOr(@, n + 1)]
      /\ Journal(<<k, n + 1>>)
      /\ log' = Append(log, k)
      /\ cp_n_entries' = cp_n_entries + 1
      /\ pc' \in {"dump", "work1"} /\ n_processed' = 0
      /\ UNCHANGED <<contents, present, files, cp_path, cp_first_entry_index, next_id, mergeVars,
                     loaded, stranded, stops, fault>>
  BY DEF Insert
<1>2. log \in Seq(Keys) /\ n \in Nat /\ n + 1 \in Values /\ None \in Values
  <2>1. log \in Seq(Keys) /\ n \in Nat
    BY DEF Up, TypeOK
  <2>2. MaxInserts \in Nat
    BY TableAssumption
  <2>3. n < MaxInserts
    BY <1>1
  <2> HIDE DEF n
  <2>4. QED BY ONLY <2>1, <2>2, <2>3 DEF Values, None
<1>3. /\ log' \in Seq(Keys) /\ Len(log') = n + 1 /\ log'[n + 1] = k
      /\ \A i \in 1..n: log'[i] = log[i]
  BY <1>1, <1>2
<1>4. /\ cp' \in Checkpoint /\ new_cp' \in Checkpoint /\ cp'.files = cp.files
      /\ cp_path = "CP" => cp'.journal = Append(cp.journal, <<k, n + 1>>)
      /\ cp_path # "CP" => cp'.journal = cp.journal
  <2>1. <<k, n + 1>> \in Keys \X Values
    BY <1>2
  <2>2. QED BY ONLY Up, <1>1, <2>1, JournalIs
<1> HIDE DEF n
<1>5. ASSUME NEW fs \in Seq(FileInfo), Holds(contents, log, fs) PROVE Holds(contents', log', fs)
  <2>1. PICK c, l, l2: c = contents /\ l = log /\ l2 = log'
    OBVIOUS
  <2>2. Len(l) \in Nat /\ Len(l2) \in Nat /\ Len(l) <= Len(l2) /\ \A i \in 1..Len(l): l2[i] = l[i]
    BY <1>2, <1>3, <2>1 DEF n
  <2>3. Holds(c, l, fs)
    BY <1>5, <2>1
  <2>4. \A id \in Ids(fs): id \in DOMAIN c /\ \A key \in Keys: c[id][key] = c[id][key]
    BY <2>3 DEF Holds, Ids
  <2>5. Holds(c, l2, fs)
    BY ONLY fs \in Seq(FileInfo), <2>2, <2>3, <2>4, HoldsKept
  <2>6. QED BY <1>1, <2>1, <2>5
<1>6. /\ cp.files \in Seq(FileInfo) /\ cp.journal \in Seq(Keys \X Values)
      /\ files \in Seq(FileInfo)
  BY CheckpointIsTyped DEF Up, TypeOK
<1>7. tree \in [Keys -> Values] /\ tree' \in [Keys -> Values]
      /\ tree'[k] = n + 1 /\ \A key \in Keys: key # k => tree'[key] = tree[key]
  <2>1. tree \in [Keys -> Values]
    BY DEF Up, TypeOK
  <2>2. MergeOr(tree[k], n + 1) = n + 1
    BY <1>2 DEF MergeOr, StdMerge, None
  <2>3. QED BY <1>1, <1>2, <2>1, <2>2 DEF n
<1>8. TypeOK'
  <2>1. cp_n_entries' \in Nat
    BY <1>1 DEF Up, TypeOK
  <2>2. n_processed' \in 0..MergeSteps
    BY <1>1, TableAssumption
  <2>3. pc' \in {"dump", "work1"}
    BY <1>1
  <2>4. QED BY SMTT(30), <1>1, <1>3, <1>4, <1>7, <2>1, <2>2, <2>3 DEF Up, TypeOK, mergeVars
<1>9. CheckpointInv'
  <2>1. Holds(contents', log', cp'.files)
    BY <1>4, <1>5, <1>6 DEF Up, CheckpointInv
  <2>2. /\ base + Len(cp.journal) <= n /\ (~stranded => base + Len(cp.journal) = n)
        /\ \A i \in DOMAIN cp.journal: cp.journal[i] = <<log[base + i], base + i>>
        /\ base \in Nat /\ Len(cp.journal) \in Nat /\ DOMAIN cp.journal = 1..Len(cp.journal)
    <3>1. base \in Nat
      BY <1>6, EndsAscend DEF Up, CheckpointInv, Holds
    <3>2. QED BY <1>6, <3>1 DEF Up, CheckpointInv, n
  <2>3. \E b \in Nat: \A id \in Ids(cp'.files): id < b
    BY <1>4 DEF Up, CheckpointInv
  <2>4. (cp_path = "NEW_CP" => stranded) /\ (stranded => cp_path = "NEW_CP")
        /\ cp_path \in {"CP", "NEW_CP"}
    BY <1>1 DEF Up, StepInv, TypeOK
  <2> DEFINE j == cp.journal
             j2 == cp'.journal
             m == Len(j)
  <2>5. base = Total(cp'.files)
    BY <1>4
  <2> HIDE DEF base
  <2>6. CASE cp_path = "CP"
    <3>1. j2 = Append(j, <<k, n + 1>>) /\ base + m = n /\ ~stranded
      BY <1>4, <2>2, <2>4, <2>6
    <3>2. /\ m \in Nat /\ Len(j2) = m + 1 /\ DOMAIN j2 = 1..(m + 1)
          /\ \A i \in 1..m: j2[i] = j[i]
          /\ j2[m + 1] = <<k, n + 1>>
      <4>1. j \in Seq(Keys \X Values) /\ <<k, n + 1>> \in Keys \X Values
        BY <1>2, <1>6
      <4>2. QED BY ONLY <3>1, <4>1
    <3> HIDE DEF j2
    <3>3. ASSUME NEW i \in 1..m PROVE j2[i] = <<log'[base + i], base + i>>
      <4>1. j2[i] = <<log[base + i], base + i>> /\ base + i \in 1..n
        BY <2>2, <3>1, <3>2
      <4>2. QED BY <1>3, <4>1
    <3>4. j2[m + 1] = <<log'[base + (m + 1)], base + (m + 1)>>
      <4>1. base + (m + 1) = n + 1
        BY <2>2, <3>1
      <4>2. QED BY <1>3, <3>2, <4>1
    <3>5. \A i \in 1..(m + 1): i \in 1..m \/ i = m + 1
      BY <3>2
    <3>6. \A i \in DOMAIN j2: j2[i] = <<log'[base + i], base + i>>
      BY ONLY <3>2, <3>3, <3>4, <3>5
    <3>7. base + Len(j2) = Len(log') /\ base + Len(j2) <= Len(log')
      <4>1. m \in Nat
        BY <2>2
      <4> HIDE DEF m
      <4>2. QED BY <1>2, <1>3, <2>2, <3>1, <3>2, <4>1
    <3>8. QED BY <2>1, <2>3, <2>5, <3>6, <3>7 DEF CheckpointInv, j2
  <2>7. CASE cp_path # "CP"
    <3>1. j2 = j /\ stranded /\ stranded' = stranded
      BY <1>1, <1>4, <2>4, <2>7
    <3>2. ASSUME NEW i \in 1..m PROVE j2[i] = <<log'[base + i], base + i>>
      <4>1. j2[i] = <<log[base + i], base + i>> /\ base + i \in 1..n
        BY <1>2, <2>2, <3>1
      <4>2. QED BY <1>3, <4>1
    <3>3. base + Len(j2) <= Len(log')
      <4>1. m \in Nat /\ base \in Nat /\ base + m <= n /\ Len(j2) = m
        BY <2>2, <3>1
      <4> HIDE DEF m, j, j2
      <4>2. QED BY <1>2, <1>3, <4>1
    <3>4. \A i \in DOMAIN j2: j2[i] = <<log'[base + i], base + i>>
      BY <2>2, <3>1, <3>2
    <3>5. QED BY <2>1, <2>3, <2>5, <3>1, <3>3, <3>4 DEF CheckpointInv
  <2>8. QED BY <2>6, <2>7
<1>10. FilesInv'
  <2>1. Holds(contents', log', files') /\ Ids(files') \subseteq present'
    BY <1>1, <1>5, <1>6 DEF Up, FilesInv
  <2>2. /\ cp_first_entry_index \in Nat /\ cp_n_entries \in Nat
        /\ cp_first_entry_index + cp_n_entries = n
    BY DEF Up, TypeOK, FilesInv, n
  <2>3. cp_first_entry_index' = Total(files') /\ cp_first_entry_index' + cp_n_entries' = Len(log')
    <3>1. cp_first_entry_index = Total(files)
      BY DEF Up, FilesInv
    <3>2. QED BY <1>1, <1>2, <1>3, <2>2, <3>1
  <2>4. ASSUME NEW key \in Keys
        PROVE  tree'[key] = LastIn(log', key, cp_first_entry_index, n + 1)
    <3>12. PICK l, l2: l = log /\ l2 = log'
      OBVIOUS
    <3>13. PICK f \in Nat: f = cp_first_entry_index
      BY <2>2
    <3>1. l = log /\ l2 = log' /\ f = cp_first_entry_index /\ f <= n
      BY <1>2, <2>2, <3>12, <3>13
    <3>2. tree[key] = LastIn(l, key, f, n)
      BY <3>1 DEF Up, FilesInv, n
    <3>3. \A i \in 1..n: l2[i] = l[i]
      BY <1>3, <3>1
    <3>4. LastIn(l2, key, f, n) = LastIn(l, key, f, n)
      BY ONLY <1>2, <3>3, f \in Nat, LastKept
    <3>5. LastIn(l2, key, n, n + 1) = IF l2[n + 1] = key THEN n + 1 ELSE None
      BY ONLY <1>2, LastOfOne
    <3>6. MergeOr(LastIn(l2, key, f, n), LastIn(l2, key, n, n + 1)) = LastIn(l2, key, f, n + 1)
      <4>1. n \in Nat /\ n + 1 \in Nat /\ f \in Nat /\ f <= n /\ n <= n + 1
        BY <1>2, <3>1
      <4>2. QED BY ONLY <4>1, LastJoins
    <3>7. tree[key] \in Values
      BY <1>7
    <3>8. l2[n + 1] = k
      BY <1>3, <3>1
    <3>9. CASE key = k
      <4>1. LastIn(l2, key, n, n + 1) = n + 1
        BY <3>5, <3>8, <3>9
      <4>2. MergeOr(tree[key], n + 1) = n + 1
        BY <1>2 DEF MergeOr, StdMerge, None
      <4>3. QED BY <1>7, <3>1, <3>2, <3>4, <3>6, <3>9, <4>1, <4>2
    <3>10. CASE key # k
      <4>1. LastIn(l2, key, n, n + 1) = None
        BY <3>5, <3>8, <3>10
      <4>2. MergeOr(tree[key], None) = tree[key]
        BY <1>2, <3>7, MergeOrIs
      <4>3. QED BY <1>7, <3>1, <3>2, <3>4, <3>6, <3>10, <4>1, <4>2
    <3>11. QED BY <3>9, <3>10
  <2>5. QED BY <1>1, <1>3, <2>1, <2>3, <2>4 DEF FilesInv
<1>11. IdsInv' /\ JobsInv' /\ PairsInv'
  <2>1. Ids(cp.files)' \subseteq Ids(cp.files) \cup Ids(files)
    BY <1>4
  <2>2. QED BY <1>1, <2>1, StructureStays DEF mergeVars
<1>12. StepInv'
  BY <1>1 DEF Up, StepInv
<1>13. fault' = "none" /\ pc' # "down"
  BY <1>1 DEF Up
<1>14. QED BY <1>8, <1>9, <1>10, <1>11, <1>12, <1>13 DEF Up

-----------------------------------------------------------------------------
(* Steps that make a file *)

LEMMA JobIs ==
  ASSUME Up, NEW m \in ToSet(running)
  PROVE  /\ m.a \in Nat /\ m.b \in Nat /\ m.out \in Nat
         /\ m.a < next_id /\ m.b < next_id /\ m.out < next_id
         /\ m.a \in Ids(files) /\ m.b \in Ids(files) /\ m.out \notin Ids(files)
         /\ {m.a, m.b, m.out} \subseteq DOMAIN contents
         /\ \E p \in 1..(Len(files) - 1): files[p].id = m.a /\ files[p + 1].id = m.b
         /\ Halfway(contents, m)
<1>1. /\ Neighbours(files, m.a, m.b) /\ m.out \in present /\ m.out < next_id
      /\ m.out \notin Ids(files) /\ Halfway(contents, m)
  BY DEF Up, JobsInv, JobKept
<1>2. PICK p \in 1..(Len(files) - 1): files[p].id = m.a /\ files[p + 1].id = m.b
  BY ONLY <1>1 DEF Neighbours
<1>3. p \in 1..Len(files) /\ p + 1 \in 1..Len(files)
  BY FilesAreTyped
<1>4. m.a \in Ids(files) /\ m.b \in Ids(files)
  BY FilesAreTyped, <1>2, <1>3
<1>5. m.a < next_id /\ m.b < next_id
  BY <1>4 DEF Up, IdsInv
<1>6. m.out \in DOMAIN contents
  BY <1>1 DEF Up, TypeOK
<1>7. \A id \in Ids(files): id \in DOMAIN contents
  BY DEF Up, FilesInv, Holds, Ids
<1>8. m.a \in Nat /\ m.b \in Nat /\ m.out \in Nat
  BY JobsAreTyped
<1>9. {m.a, m.b, m.out} \subseteq DOMAIN contents
  BY ONLY <1>4, <1>6, <1>7
<1>10. QED BY ONLY <1>1, <1>2, <1>4, <1>5, <1>8, <1>9

LEMMA HalfwayKept ==
  ASSUME NEW c, NEW c2, NEW m, Halfway(c, m),
         c2[m.a] = c[m.a], c2[m.b] = c[m.b], c2[m.out] = c[m.out]
  PROVE  Halfway(c2, m)
BY DEF Halfway

(* The files keep what they hold when one with the next id is made. *)
LEMMA ContentsMore ==
  ASSUME Up, NEW x \in [Keys -> Values],
         contents' = [id \in DOMAIN contents \cup {next_id} |->
                        IF id = next_id THEN x ELSE contents[id]]
  PROVE  /\ next_id \in Nat /\ next_id + 1 \in Nat
         /\ DOMAIN contents' = DOMAIN contents \cup {next_id}
         /\ DOMAIN contents' \subseteq Nat
         /\ \A id \in DOMAIN contents': contents'[id] \in [Keys -> Values]
         /\ contents'[next_id] = x
         /\ Holds(contents', log, files) /\ Holds(contents', log, cp.files)
         /\ \A m \in ToSet(running): Halfway(contents', m)
         /\ \A id \in Nat: id < next_id => id # next_id /\ id < next_id + 1
         /\ next_id < next_id + 1
<1>1. /\ next_id \in Nat /\ DOMAIN contents \subseteq Nat
      /\ \A id \in DOMAIN contents: contents[id] \in [Keys -> Values]
  BY DEF Up, TypeOK
<1>2. /\ DOMAIN contents' = DOMAIN contents \cup {next_id}
      /\ contents'[next_id] = x
      /\ \A id \in DOMAIN contents: id # next_id => contents'[id] = contents[id]
  OBVIOUS
<1>3. /\ next_id + 1 \in Nat /\ next_id < next_id + 1
      /\ \A id \in Nat: id < next_id => id # next_id /\ id < next_id + 1
  BY ONLY <1>1
<1>4. DOMAIN contents' \subseteq Nat /\ \A id \in DOMAIN contents': contents'[id] \in [Keys -> Values]
  BY ONLY <1>1, <1>2, x \in [Keys -> Values]
<1>5. /\ files \in Seq(FileInfo) /\ cp.files \in Seq(FileInfo) /\ Len(log) \in Nat
  BY SMTT(30), CheckpointIsTyped DEF Up, TypeOK
<1>6. \A id \in Ids(files) \cup Ids(cp.files): id \in Nat /\ id < next_id
  BY IdsAreNumbers DEF Up, IdsInv
<1>7. ASSUME NEW fs \in Seq(FileInfo), Holds(contents, log, fs),
             \A id \in Ids(fs): id \in Nat /\ id < next_id
      PROVE  Holds(contents', log, fs)
  <2>1. PICK c, c2, l: c = contents /\ c2 = contents' /\ l = log
    OBVIOUS
  <2>2. \A id \in Ids(fs): id \in DOMAIN c
    BY <1>7, <2>1 DEF Holds, Ids
  <2>3. \A id \in Ids(fs): id \in DOMAIN c2 /\ \A k \in Keys: c2[id][k] = c[id][k]
    BY ONLY <1>2, <1>3, <1>7, <2>1, <2>2
  <2>4. Len(l) \in Nat /\ Len(l) <= Len(l) /\ \A i \in 1..Len(l): l[i] = l[i]
    BY <1>5, <2>1
  <2>5. Holds(c, l, fs)
    BY <1>7, <2>1
  <2>6. Holds(c2, l, fs)
    BY ONLY fs \in Seq(FileInfo), <2>3, <2>4, <2>5, HoldsKept
  <2>7. QED BY ONLY <2>1, <2>6
<1>8. Holds(contents', log, files) /\ Holds(contents', log, cp.files)
  BY <1>5, <1>6, <1>7 DEF Up, FilesInv, CheckpointInv
<1>9. ASSUME NEW m \in ToSet(running) PROVE Halfway(contents', m)
  <2>1. /\ m.a \in Nat /\ m.b \in Nat /\ m.out \in Nat
        /\ m.a < next_id /\ m.b < next_id /\ m.out < next_id
        /\ {m.a, m.b, m.out} \subseteq DOMAIN contents
        /\ Halfway(contents, m)
    BY JobIs
  <2>2. PICK c, c2, job: c = contents /\ c2 = contents' /\ job = m
    OBVIOUS
  <2>3. c2[m.a] = c[m.a] /\ c2[m.b] = c[m.b] /\ c2[m.out] = c[m.out]
    BY ONLY <1>2, <1>3, <2>1, <2>2
  <2>4. Halfway(c2, m)
    BY ONLY <2>1, <2>2, <2>3, HalfwayKept
  <2>5. QED BY ONLY <2>2, <2>4
<1>10. QED BY ONLY <1>1, <1>2, <1>3, <1>4, <1>8, <1>9

LEMMA DumpTreeKeeps ==
  ASSUME Up, DumpTree PROVE Up'
<1> DEFINE n == Len(files)
           file == [id |-> next_id, first_entry_index |-> cp_first_entry_index,
                    n_entries |-> cp_n_entries, used |-> FALSE]
<1>1. /\ pc = "dump" /\ pc' = "checkpoint"
      /\ contents' = [id \in DOMAIN contents \cup {next_id} |->
                        IF id = next_id THEN tree ELSE contents[id]]
      /\ present' = present \cup {next_id} /\ next_id' = next_id + 1
      /\ files' = Append(files, file)
      /\ possible' = possible \cup {<<f.id, next_id>>: f \in IF files = <<>> THEN {} ELSE {Last(files)}}
      /\ tree' = Empty
      /\ cp_first_entry_index' = cp_first_entry_index + cp_n_entries
      /\ cp_n_entries' = 0
      /\ UNCHANGED <<cp, new_cp, running, n_merge_jobs, defunct_files, cp_path, n_processed,
                     ghostVars, fault>>
  BY DEF DumpTree, CountCleared
<1>2. /\ tree \in [Keys -> Values] /\ files \in Seq(FileInfo) /\ log \in Seq(Keys)
      /\ cp_first_entry_index \in Nat /\ cp_n_entries \in Nat /\ next_id \in Nat
      /\ n \in Nat /\ DOMAIN files = 1..n /\ Len(log) \in Nat
  BY DEF Up, TypeOK
<1>3. /\ DOMAIN contents' = DOMAIN contents \cup {next_id}
      /\ DOMAIN contents' \subseteq Nat
      /\ \A id \in DOMAIN contents': contents'[id] \in [Keys -> Values]
      /\ contents'[next_id] = tree
      /\ Holds(contents', log, files) /\ Holds(contents', log, cp.files)
      /\ \A m \in ToSet(running): Halfway(contents', m)
      /\ \A id \in Nat: id < next_id => id # next_id /\ id < next_id + 1
      /\ next_id + 1 \in Nat /\ next_id < next_id + 1
  BY ONLY Up, <1>1, <1>2, ContentsMore
<1>4. /\ cp_first_entry_index = Total(files)
      /\ cp_first_entry_index + cp_n_entries = Len(log)
      /\ \A k \in Keys: tree[k] = LastIn(log, k, cp_first_entry_index, Len(log))
      /\ Ids(files) \subseteq present
  BY DEF Up, FilesInv
<1>5. \A id \in Ids(files) \cup Ids(cp.files) \cup ToSet(defunct_files) \cup loaded:
        id \in Nat /\ id < next_id
  BY IdsAreNumbers DEF Up, IdsInv
<1>6. file \in FileInfo /\ file.id = next_id /\ file.first_entry_index = cp_first_entry_index
      /\ file.n_entries = cp_n_entries
  BY <1>2 DEF FileInfo
<1> HIDE DEF file
<1>7. /\ Holds(contents', log, files') /\ files' \in Seq(FileInfo) /\ Len(files') = n + 1
      /\ \A i \in 1..n: files'[i] = files[i]
      /\ files'[n + 1] = file
      /\ Total(files') = Total(files) + file.n_entries
      /\ Ids(files') = Ids(files) \cup {next_id}
  <2>1. PICK c, l, fs, f, g: c = contents' /\ l = log /\ fs = files /\ f = file /\ g = files'
    OBVIOUS
  <2>2. fs \in Seq(FileInfo) /\ Holds(c, l, fs) /\ Len(l) \in Nat /\ f \in FileInfo
    BY ONLY <1>2, <1>3, <1>6, <2>1
  <2>3. /\ f.first_entry_index = Total(fs) /\ f.first_entry_index + f.n_entries <= Len(l)
        /\ Total(fs) + f.n_entries = Len(l)
    BY ONLY <1>2, <1>4, <1>6, <2>1
  <2>4. f.id \notin Ids(fs) /\ f.id \in DOMAIN c
    BY ONLY <1>3, <1>5, <1>6, <2>1
  <2>5. \A k \in Keys: c[f.id][k] = LastIn(l, k, Total(fs), Total(fs) + f.n_entries)
    BY ONLY <1>3, <1>4, <1>6, <2>1, <2>3
  <2>6. g = Append(fs, f)
    BY ONLY <1>1, <2>1
  <2>7. Holds(c, l, Append(fs, f))
    BY ONLY <2>2, <2>3, <2>4, <2>5, HoldsOneMore
  <2>8. /\ Append(fs, f) \in Seq(FileInfo) /\ Len(Append(fs, f)) = Len(fs) + 1
        /\ (\A i \in 1..Len(fs): Append(fs, f)[i] = fs[i]) /\ Append(fs, f)[Len(fs) + 1] = f
    BY ONLY <2>2, <2>3, <2>4, <2>5, HoldsOneMore
  <2>9. Total(Append(fs, f)) = Total(fs) + f.n_entries
    BY ONLY <2>2, <2>3, <2>4, <2>5, HoldsOneMore
  <2>11. Ids(Append(fs, f)) = Ids(fs) \cup {f.id}
    BY ONLY <2>2, <2>3, <2>4, <2>5, HoldsOneMore
  <2>10. QED BY ONLY <1>6, <2>1, <2>6, <2>7, <2>8, <2>9, <2>11 DEF n
<1>8. \A i \in 1..n: files[i].id \in Ids(files)
  BY <1>2 DEF Ids
<1>16. possible' = possible \cup {<<files[i].id, next_id>>: i \in {j \in 1..n: j = n}}
  <2>1. CASE files = <<>>
    BY <1>1, <1>2, <2>1
  <2>2. CASE files # <<>>
    <3>1. Last(files) = files[n] /\ n \in 1..n
      BY <1>2, <2>2 DEF Last
    <3>2. {j \in 1..n: j = n} = {n}
      BY <3>1
    <3>3. QED BY <1>1, <2>2, <3>1, <3>2
  <2>3. QED BY <2>1, <2>2
<1> HIDE DEF n
<1>9. TypeOK'
  <2>1. present' \subseteq DOMAIN contents'
    BY <1>1, <1>3 DEF Up, TypeOK
  <2>2. tree' \in [Keys -> Values]
    <3>1. None \in Values
      BY TableAssumption DEF None, Values
    <3>2. QED BY <1>1, <3>1 DEF Empty
  <2>3. cp_first_entry_index' \in Nat /\ cp_n_entries' \in Nat /\ next_id' \in Nat
    BY <1>1, <1>2
  <2>4. possible' \subseteq Nat \X Nat
    <3>1. possible \subseteq Nat \X Nat
      BY DEF Up, TypeOK
    <3>2. \A i \in 1..n: files[i].id \in Nat
      BY <1>5, <1>8
    <3>3. QED BY <1>2, <1>16, <3>1, <3>2
  <2>5. QED BY <1>1, <1>3, <1>7, <2>1, <2>2, <2>3, <2>4 DEF Up, TypeOK, ghostVars
<1>10. CheckpointInv'
  BY <1>1, <1>3 DEF Up, CheckpointInv, ghostVars
<1>11. FilesInv'
  <2>1. Ids(files') \subseteq present'
    BY <1>1, <1>4, <1>7
  <2>2. cp_first_entry_index' = Total(files') /\ cp_first_entry_index' + cp_n_entries' = Len(log)
    BY <1>1, <1>2, <1>4, <1>6, <1>7
  <2>3. cp_first_entry_index' = Len(log)
    BY <1>1, <1>4
  <2>4. \A k \in Keys: LastIn(log, k, Len(log), Len(log)) = None
    BY <1>2, LastOfNothing
  <2>5. \A k \in Keys: tree'[k] = None
    BY <1>1 DEF Empty
  <2>6. log' = log
    BY <1>1 DEF ghostVars
  <2>7. QED BY <1>7, <2>1, <2>2, <2>3, <2>4, <2>5, <2>6 DEF FilesInv
<1>12. IdsInv'
  <2>1. UNCHANGED <<cp, defunct_files, loaded>>
    BY <1>1 DEF ghostVars
  <2>2. \A id \in Ids(files') \cup Ids(cp'.files) \cup ToSet(defunct_files') \cup loaded': id < next_id'
    BY <1>1, <1>3, <1>5, <1>7, <2>1
  <2>3. ToSet(defunct_files') \cap Ids(files') = {}
    BY <1>3, <1>5, <1>7, <2>1 DEF Up, IdsInv
  <2>4. loaded' \cap Ids(cp'.files) \subseteq present'
    BY <1>1, <2>1 DEF Up, IdsInv
  <2>5. ASSUME NEW i \in DOMAIN files', files'[i].id \in loaded' PROVE files'[i].used
    <3>1. DOMAIN files' = 1..(n + 1)
      BY <1>7 DEF n
    <3>2. CASE i \in 1..n
      BY <1>2, <1>7, <2>1, <2>5, <3>2 DEF Up, IdsInv
    <3>3. CASE i = n + 1
      BY <1>3, <1>5, <1>6, <1>7, <2>1, <2>5, <3>3
    <3>4. QED BY <1>2, <3>1, <3>2, <3>3
  <2>6. QED BY <2>2, <2>3, <2>4, <2>5 DEF IdsInv
<1>13. \A a, b: Neighbours(files, a, b) => Neighbours(files', a, b)
  <2>1. \A i \in 1..(n - 1): i \in 1..n /\ i + 1 \in 1..n /\ i \in 1..((n + 1) - 1)
    BY <1>2
  <2>2. QED BY <1>7, <2>1 DEF Neighbours, n
<1>14. JobsInv'
  <2>1. UNCHANGED <<cp, running, defunct_files, loaded>>
    BY <1>1 DEF ghostVars
  <2>2. ASSUME NEW m \in ToSet(running) PROVE JobKept(m)'
    <3>1. m.out \in Nat /\ m.out < next_id /\ JobKept(m)
      BY JobIs DEF Up, JobsInv
    <3>2. m.out # next_id /\ m.out < next_id'
      BY <1>1, <1>3, <3>1
    <3>3. QED BY <1>1, <1>3, <1>7, <1>13, <2>1, <3>1, <3>2 DEF JobKept
  <2>3. QED BY <2>1, <2>2 DEF Up, JobsInv
<1>15. PairsInv'
  <2>1. running' = running
    BY <1>1
  <2>2. ASSUME NEW q \in possible' PROVE Neighbours(files', q[1], q[2])
    <3>1. CASE q \in possible
      BY <1>13, <3>1 DEF Up, PairsInv
    <3>2. CASE q \notin possible
      <4>1. n \in 1..n /\ q[1] = files[n].id /\ q[2] = next_id
        BY <1>16, <3>2
      <4>2. n \in 1..((n + 1) - 1) /\ files'[n].id = q[1] /\ files'[n + 1].id = q[2]
        BY <1>6, <1>7, <4>1
      <4>3. QED BY <1>7, <4>2 DEF Neighbours
    <3>3. QED BY <3>1, <3>2
  <2>3. ASSUME NEW q \in possible', NEW m \in ToSet(running)
        PROVE  q[2] # m.a /\ q[2] # m.b /\ q[1] # m.a
    <3>1. CASE q \in possible
      BY <3>1 DEF Up, PairsInv
    <3>2. CASE q \notin possible
      <4>1. n \in 1..n /\ q[1] = files[n].id /\ q[2] = next_id
        BY <1>16, <3>2
      <4>2. m.a \in Nat /\ m.b \in Nat /\ m.a < next_id /\ m.b < next_id
        BY JobIs
      <4>3. PICK p \in 1..(n - 1): files[p].id = m.a
        BY JobIs DEF n
      <4>4. p \in 1..n /\ p # n
        BY <1>2
      <4>5. files[n].id # files[p].id
        BY FilesAreTyped, <4>1, <4>4 DEF n
      <4>6. QED BY <1>3, <4>1, <4>2, <4>3, <4>5
    <3>3. QED BY <3>1, <3>2
  <2>4. ASSUME NEW i \in 1..(Len(files') - 1)
        PROVE  \/ <<files'[i].id, files'[i + 1].id>> \in possible'
               \/ \E m \in ToSet(running'): files'[i].id \in {m.a, m.b}
               \/ \E m \in ToSet(running'): files'[i + 1].id \in {m.a, m.b}
    <3>1. i \in 1..n
      BY <1>2, <1>7
    <3>2. CASE i = n
      <4>1. <<files'[i].id, files'[i + 1].id>> = <<files[n].id, next_id>>
        BY <1>6, <1>7, <3>1, <3>2
      <4>2. <<files[n].id, next_id>> \in possible'
        BY <1>16, <3>1, <3>2
      <4>3. QED BY <4>1, <4>2
    <3>3. CASE i # n
      <4>1. i \in 1..(n - 1) /\ i + 1 \in 1..n
        BY <1>2, <3>1, <3>3
      <4>2. files'[i].id = files[i].id /\ files'[i + 1].id = files[i + 1].id
        BY <1>7, <3>1, <4>1
      <4>3. \/ <<files[i].id, files[i + 1].id>> \in possible
            \/ Merging(files[i].id) \/ Merging(files[i + 1].id)
        BY <4>1 DEF Up, PairsInv, n
      <4>4. possible \subseteq possible'
        BY <1>16
      <4>5. QED BY <2>1, <4>2, <4>3, <4>4 DEF Merging
    <3>4. QED BY <3>2, <3>3
  <2>5. QED BY <2>1, <2>2, <2>3, <2>4 DEF PairsInv, Merging
<1>17. StepInv'
  BY <1>1 DEF Up, StepInv, ghostVars
<1>18. QED BY <1>1, <1>9, <1>10, <1>11, <1>12, <1>14, <1>15, <1>17 DEF Up

-----------------------------------------------------------------------------
(* Merges start *)

LEMMA QueuedIs ==
  ASSUME Up, NEW m \in MergeJob, m \notin ToSet(running)
  PROVE  /\ Queued(m) \in Seq(MergeJob) /\ Injective(Queued(m))
         /\ ToSet(Queued(m)) = ToSet(running) \cup {m}
<1> DEFINE after == {i \in DOMAIN running: InputsRemaining(running[i]) >= InputsRemaining(m)}
<1>1. running \in Seq(MergeJob) /\ Injective(running)
  BY DEF Up, TypeOK, JobsInv
<1>2. DOMAIN running = 1..Len(running) /\ Len(running) \in Nat
  BY ONLY <1>1
<1>3. Queued(m) = IF after = {} THEN Append(running, m) ELSE InsertAt(running, Min(after), m)
  BY DEF Queued
<1>4. after \subseteq DOMAIN running
  OBVIOUS
<1> HIDE DEF after
<1>5. CASE after = {}
  <2>1. Queued(m) = Append(running, m)
    BY ONLY <1>3, <1>5
  <2>2. Append(running, m) \in Seq(MergeJob) /\ ToSet(Append(running, m)) = ToSet(running) \cup {m}
    BY ONLY <1>1, m \in MergeJob, AppendIs
  <2>3. Injective(Append(running, m))
    BY ONLY <1>1, m \in MergeJob, m \notin ToSet(running), AppendIs
  <2>4. QED BY ONLY <2>1, <2>2, <2>3
<1>6. CASE after # {}
  <2>1. after \in SUBSET Nat
    BY ONLY <1>2, <1>4
  <2>2. Min(after) \in after
    BY ONLY <1>6, <2>1, MinIs
  <2>3. PICK p \in 1..(Len(running) + 1): p = Min(after)
    BY ONLY <1>2, <1>4, <2>2
  <2>4. Queued(m) = InsertAt(running, p, m)
    BY ONLY <1>3, <1>6, <2>3
  <2>5. /\ InsertAt(running, p, m) \in Seq(MergeJob)
        /\ ToSet(InsertAt(running, p, m)) = ToSet(running) \cup {m}
    BY ONLY <1>1, m \in MergeJob, InsertedIs
  <2>6. Injective(InsertAt(running, p, m))
    BY ONLY <1>1, m \in MergeJob, m \notin ToSet(running), InsertedIs
  <2>7. QED BY ONLY <2>4, <2>5, <2>6
<1>7. QED BY ONLY <1>5, <1>6

(* A file has one neighbour on either side. *)
LEMMA NeighboursUnique ==
  ASSUME Up, NEW a, NEW b, NEW c, NEW d, Neighbours(files, a, b), Neighbours(files, c, d)
  PROVE  (a = c <=> b = d) /\ a # b /\ a \in Ids(files) /\ b \in Ids(files)
<1>1. PICK i \in 1..(Len(files) - 1): files[i].id = a /\ files[i + 1].id = b
  BY DEF Neighbours
<1>2. PICK j \in 1..(Len(files) - 1): files[j].id = c /\ files[j + 1].id = d
  BY DEF Neighbours
<1>3. /\ i \in 1..Len(files) /\ i + 1 \in 1..Len(files) /\ j \in 1..Len(files) /\ j + 1 \in 1..Len(files)
      /\ i # i + 1 /\ (i = j <=> i + 1 = j + 1)
  BY FilesAreTyped
<1>4. \A x, y \in 1..Len(files): files[x].id = files[y].id => x = y
  BY FilesAreTyped
<1>5. files[i].id \in Ids(files) /\ files[i + 1].id \in Ids(files)
  BY FilesAreTyped, <1>3
<1>6. a # b
  BY ONLY <1>1, <1>3, <1>4
<1>7. a = c <=> i = j
  BY ONLY <1>1, <1>2, <1>3, <1>4
<1>8. b = d <=> i + 1 = j + 1
  BY ONLY <1>1, <1>2, <1>3, <1>4
<1>9. QED BY ONLY <1>1, <1>3, <1>5, <1>6, <1>7, <1>8

LEMMA StartMergeKeeps ==
  ASSUME Up, NEW p \in possible, StartMerge(p) PROVE Up'
<1> DEFINE m == [a |-> p[1], b |-> p[2], out |-> next_id,
                 a_left |-> KeysIn(p[1]), b_left |-> KeysIn(p[2])]
<1>1. /\ pc \in Starting /\ n_merge_jobs < MaxMergeJobs
      /\ running' = Queued(m)
      /\ possible' = {q \in possible: q # p /\ q[2] # p[1] /\ q[1] # p[2]}
      /\ n_merge_jobs' = n_merge_jobs + 1
      /\ contents' = [id \in DOMAIN contents \cup {next_id} |->
                        IF id = next_id THEN Empty ELSE contents[id]]
      /\ present' = present \cup {next_id} /\ next_id' = next_id + 1
      /\ UNCHANGED <<cp, new_cp, files, tree, defunct_files, cpVars, pc, n_processed,
                     ghostVars, fault>>
  BY DEF StartMerge, MayStart
<1>2. Neighbours(files, p[1], p[2])
  BY DEF Up, PairsInv
<1>3. p[1] \in Ids(files) /\ p[2] \in Ids(files) /\ p[1] # p[2]
  BY <1>2, NeighboursUnique
<1>4. Empty \in [Keys -> Values] /\ \A k \in Keys: Empty[k] = None
  <2>1. None \in Values
    BY TableAssumption DEF None, Values
  <2>2. QED BY <2>1 DEF Empty
<1>5. /\ next_id \in Nat
      /\ DOMAIN contents' = DOMAIN contents \cup {next_id}
      /\ DOMAIN contents' \subseteq Nat
      /\ \A id \in DOMAIN contents': contents'[id] \in [Keys -> Values]
      /\ contents'[next_id] = Empty
      /\ Holds(contents', log, files) /\ Holds(contents', log, cp.files)
      /\ \A x \in ToSet(running): Halfway(contents', x)
      /\ \A id \in Nat: id < next_id => id # next_id /\ id < next_id + 1
      /\ next_id + 1 \in Nat /\ next_id < next_id + 1
  BY ONLY Up, <1>1, <1>4, ContentsMore
<1>6. \A id \in Ids(files) \cup Ids(cp.files) \cup ToSet(defunct_files) \cup loaded:
        id \in Nat /\ id < next_id
  BY IdsAreNumbers DEF Up, IdsInv
<1>7. /\ m \in MergeJob /\ m.a = p[1] /\ m.b = p[2] /\ m.out = next_id
      /\ m.a_left = KeysIn(p[1]) /\ m.b_left = KeysIn(p[2])
  BY <1>3, <1>5, <1>6 DEF MergeJob, KeysIn
<1> HIDE DEF m
<1>8. \A x \in ToSet(running): x.out \in Nat /\ x.out < next_id
  BY JobIs
<1>9. m \notin ToSet(running)
  BY <1>5, <1>7, <1>8
<1>10. /\ running' \in Seq(MergeJob) /\ Injective(running')
       /\ ToSet(running') = ToSet(running) \cup {m}
  BY ONLY Up, <1>1, <1>7, <1>9, QueuedIs
<1>11. Halfway(contents', m)
  <2> SUFFICES ASSUME NEW k \in Keys
               PROVE  IF k \in m.a_left \cup m.b_left
                      THEN /\ k \in m.a_left <=> contents'[m.a][k] # None
                           /\ k \in m.b_left <=> contents'[m.b][k] # None
                      ELSE contents'[m.out][k] = MergeOr(contents'[m.a][k], contents'[m.b][k])
    BY DEF Halfway
  <2>1. p[1] \in DOMAIN contents /\ p[2] \in DOMAIN contents
    BY <1>3 DEF Up, FilesInv, Holds, Ids
  <2>2. contents'[p[1]] = contents[p[1]] /\ contents'[p[2]] = contents[p[2]]
    BY <1>1, <1>3, <1>5, <1>6, <2>1
  <2>3. (k \in m.a_left <=> contents[p[1]][k] # None) /\ (k \in m.b_left <=> contents[p[2]][k] # None)
    BY <1>7 DEF KeysIn
  <2>4. MergeOr(None, None) = None
    BY DEF MergeOr
  <2>5. contents'[m.out][k] = None
    BY <1>4, <1>5, <1>7
  <2>6. QED BY ONLY <1>7, <2>2, <2>3, <2>4, <2>5
<1>12. TypeOK'
  <2>1. present' \subseteq DOMAIN contents'
    BY <1>1, <1>5 DEF Up, TypeOK
  <2>2. n_merge_jobs' \in 0..MaxMergeJobs
    <3>1. n_merge_jobs \in 0..MaxMergeJobs /\ MaxMergeJobs \in Nat
      BY TableAssumption DEF Up, TypeOK
    <3>2. QED BY ONLY <1>1, <3>1
  <2>3. possible' \subseteq Nat \X Nat
    BY <1>1 DEF Up, TypeOK
  <2>4. QED BY <1>1, <1>5, <1>10, <2>1, <2>2, <2>3 DEF Up, TypeOK, cpVars, ghostVars
<1>13. CheckpointInv'
  BY <1>1, <1>5 DEF Up, CheckpointInv, ghostVars
<1>14. FilesInv'
  BY <1>1, <1>5 DEF Up, FilesInv, cpVars, ghostVars
<1>15. IdsInv'
  <2>1. \A id \in Ids(files) \cup Ids(cp.files) \cup ToSet(defunct_files) \cup loaded: id < next_id'
    BY <1>1, <1>5, <1>6
  <2>2. QED BY <1>1, <2>1 DEF Up, IdsInv, ghostVars
<1>16. JobsInv'
  <2>1. UNCHANGED <<cp, files, defunct_files, loaded>>
    BY <1>1 DEF ghostVars
  <2>2. ASSUME NEW x \in ToSet(running) PROVE JobKept(x)'
    <3>1. JobKept(x) /\ x.out < next_id'
      BY <1>1, <1>5, <1>8 DEF Up, JobsInv
    <3>2. QED BY <1>1, <1>5, <2>1, <3>1 DEF JobKept
  <2>3. PICK x: x = m
    OBVIOUS
  <2>4. JobKept(x)'
    BY <1>1, <1>2, <1>5, <1>6, <1>7, <1>11, <2>1, <2>3 DEF JobKept
  <2>5. \A y, z \in ToSet(running'): y.out = z.out => y = z
    BY <1>5, <1>7, <1>8, <1>10 DEF Up, JobsInv
  <2>6. QED BY <1>10, <2>2, <2>3, <2>4, <2>5 DEF JobsInv
<1>17. PairsInv'
  <2>1. files' = files /\ possible' \subseteq possible
    BY <1>1
  <2>2. \A q \in possible: q = <<q[1], q[2]>>
    BY DEF Up, TypeOK
  <2>3. ASSUME NEW q \in possible' PROVE q[2] # p[1] /\ q[2] # p[2] /\ q[1] # p[1]
    <3>1. q \in possible /\ q # p /\ q[2] # p[1] /\ Neighbours(files, q[1], q[2])
      BY <1>1 DEF Up, PairsInv
    <3>2. q[1] = p[1] <=> q[2] = p[2]
      BY <1>2, <3>1, NeighboursUnique
    <3>3. ~(q[1] = p[1] /\ q[2] = p[2])
      BY <2>2, <3>1
    <3>4. QED BY <3>1, <3>2, <3>3
  <2>4. \A q \in possible': \A x \in ToSet(running'): q[2] # x.a /\ q[2] # x.b /\ q[1] # x.a
    BY <1>7, <1>10, <2>1, <2>3 DEF Up, PairsInv
  <2>5. ASSUME NEW i \in 1..(Len(files) - 1)
        PROVE  \/ <<files[i].id, files[i + 1].id>> \in possible'
               \/ \E x \in ToSet(running'): files[i].id \in {x.a, x.b}
               \/ \E x \in ToSet(running'): files[i + 1].id \in {x.a, x.b}
    <3> DEFINE q == <<files[i].id, files[i + 1].id>>
    <3>1. q[1] = files[i].id /\ q[2] = files[i + 1].id
      OBVIOUS
    <3>2. \/ q \in possible
          \/ \E x \in ToSet(running): files[i].id \in {x.a, x.b}
          \/ \E x \in ToSet(running): files[i + 1].id \in {x.a, x.b}
      BY DEF Up, PairsInv, Merging
    <3> HIDE DEF q
    <3>3. CASE q \in possible
      <4>1. q \in possible' \/ q = p \/ q[2] = p[1] \/ q[1] = p[2]
        BY <1>1, <3>3
      <4>2. m \in ToSet(running')
        BY <1>10
      <4>3. QED BY <1>7, <3>1, <4>1, <4>2 DEF q
    <3>4. CASE q \notin possible
      BY <1>10, <3>2, <3>4
    <3>5. QED BY <3>3, <3>4
  <2>6. \A q \in possible': Neighbours(files, q[1], q[2])
    BY <2>1 DEF Up, PairsInv
  <2>7. QED BY <2>1, <2>4, <2>5, <2>6 DEF PairsInv, Merging
<1>18. StepInv'
  BY <1>1 DEF Up, StepInv, cpVars, ghostVars
<1>19. QED BY <1>1, <1>12, <1>13, <1>14, <1>15, <1>16, <1>17, <1>18 DEF Up

-----------------------------------------------------------------------------
(* Merges go on *)

LEMMA HeadIs ==
  ASSUME Up, running # <<>>
  PROVE  /\ Head(running) \in ToSet(running) /\ Head(running) \in MergeJob
         /\ Tail(running) \in Seq(MergeJob) /\ Injective(Tail(running))
         /\ ToSet(Tail(running)) = ToSet(running) \ {Head(running)}
         /\ \A m \in ToSet(Tail(running)): m.out # Head(running).out
<1>1. running \in Seq(MergeJob) /\ Injective(running)
  BY DEF Up, TypeOK, JobsInv
<1>2. /\ Head(running) \in ToSet(running) /\ Head(running) \in MergeJob
      /\ Tail(running) \in Seq(MergeJob) /\ Injective(Tail(running))
      /\ ToSet(Tail(running)) = ToSet(running) \ {Head(running)}
  BY ONLY <1>1, running # <<>>, TailIs
<1>3. \A x, y \in ToSet(running): x.out = y.out => x = y
  BY DEF Up, JobsInv
<1>4. QED BY ONLY <1>2, <1>3

(* An entry is written to the output of the merge h. *)
LEMMA OutputWritten ==
  ASSUME Up, NEW h \in ToSet(running), NEW k \in Keys, NEW v \in Values,
         contents' = [contents EXCEPT ![h.out][k] = v]
  PROVE  /\ DOMAIN contents' = DOMAIN contents
         /\ \A id \in DOMAIN contents': contents'[id] \in [Keys -> Values]
         /\ \A id \in DOMAIN contents: id # h.out => contents'[id] = contents[id]
         /\ contents'[h.out][k] = v
         /\ \A key \in Keys: key # k => contents'[h.out][key] = contents[h.out][key]
         /\ contents'[h.a] = contents[h.a] /\ contents'[h.b] = contents[h.b]
         /\ Holds(contents', log, files) /\ Holds(contents', log, cp.files)
         /\ \A m \in ToSet(running): m.out # h.out => Halfway(contents', m)
<1>1. /\ h.out \in DOMAIN contents /\ h.a \in DOMAIN contents /\ h.b \in DOMAIN contents
      /\ h.out \notin Ids(files) /\ h.a \in Ids(files) /\ h.b \in Ids(files)
  BY JobIs
<1>2. \A id \in DOMAIN contents: contents[id] \in [Keys -> Values]
  BY DEF Up, TypeOK
<1> DEFINE u == [contents[h.out] EXCEPT ![k] = v]
<1>3. /\ u \in [Keys -> Values] /\ u[k] = v
      /\ \A key \in Keys: key # k => u[key] = contents[h.out][key]
  BY <1>1, <1>2
<1>4. contents' = [contents EXCEPT ![h.out] = u]
  OBVIOUS
<1> HIDE DEF u
<1>5. /\ DOMAIN contents' = DOMAIN contents /\ contents'[h.out] = u
      /\ \A id \in DOMAIN contents: id # h.out => contents'[id] = contents[id]
  BY ONLY <1>1, <1>4
<1>6. \A id \in DOMAIN contents': contents'[id] \in [Keys -> Values]
  BY ONLY <1>2, <1>3, <1>5
<1>7. h.out \notin Ids(cp.files)
  BY DEF Up, JobsInv, JobKept
<1>8. ASSUME NEW fs \in Seq(FileInfo), Holds(contents, log, fs), h.out \notin Ids(fs)
      PROVE  Holds(contents', log, fs)
  <2>1. PICK c, c2, l: c = contents /\ c2 = contents' /\ l = log
    OBVIOUS
  <2>2. \A id \in Ids(fs): id \in DOMAIN c
    BY <1>8, <2>1 DEF Holds, Ids
  <2>3. \A id \in Ids(fs): id \in DOMAIN c2 /\ \A key \in Keys: c2[id][key] = c[id][key]
    BY ONLY <1>5, <1>8, <2>1, <2>2
  <2>4. Len(l) \in Nat /\ Len(l) <= Len(l) /\ \A i \in 1..Len(l): l[i] = l[i]
    BY <2>1, FilesAreTyped
  <2>5. Holds(c, l, fs)
    BY <1>8, <2>1
  <2>6. Holds(c2, l, fs)
    BY ONLY fs \in Seq(FileInfo), <2>3, <2>4, <2>5, HoldsKept
  <2>7. QED BY ONLY <2>1, <2>6
<1>9. Holds(contents', log, files) /\ Holds(contents', log, cp.files)
  <2>1. files \in Seq(FileInfo) /\ cp.files \in Seq(FileInfo)
    BY CheckpointIsTyped DEF Up, TypeOK
  <2>2. QED BY <1>1, <1>7, <1>8, <2>1 DEF Up, FilesInv, CheckpointInv
<1>10. ASSUME NEW m \in ToSet(running), m.out # h.out PROVE Halfway(contents', m)
  <2>1. /\ {m.a, m.b, m.out} \subseteq DOMAIN contents /\ Halfway(contents, m)
        /\ m.a \in Ids(files) /\ m.b \in Ids(files)
    BY JobIs
  <2>2. PICK c, c2, job: c = contents /\ c2 = contents' /\ job = m
    OBVIOUS
  <2>3. c2[m.a] = c[m.a] /\ c2[m.b] = c[m.b] /\ c2[m.out] = c[m.out]
    BY ONLY <1>1, <1>5, <1>10, <2>1, <2>2
  <2>4. Halfway(c2, m)
    BY ONLY <2>1, <2>2, <2>3, HalfwayKept
  <2>5. QED BY ONLY <2>2, <2>4
<1>11. contents'[h.a] = contents[h.a] /\ contents'[h.b] = contents[h.b]
  BY ONLY <1>1, <1>5
<1>12. QED BY ONLY <1>3, <1>5, <1>6, <1>9, <1>10, <1>11

(* The entry a merge writes next *)
LEMMA NextEntryIs ==
  ASSUME Up, NEW h \in ToSet(running), NEW k, k = Min(h.a_left \cup h.b_left),
         h.a_left \cup h.b_left # {},
         NEW v, v = MergeOr(Value(h.a, h.a_left, k), Value(h.b, h.b_left, k))
  PROVE  /\ k \in Keys /\ k \in h.a_left \cup h.b_left
         /\ v \in Values /\ v = MergeOr(contents[h.a][k], contents[h.b][k])
<1>1. h.a_left \cup h.b_left \in SUBSET Keys
  BY JobsAreTyped
<1>2. Keys \subseteq Nat
  BY TableAssumption
<1>3. k \in h.a_left \cup h.b_left
  BY <1>1, <1>2, MinIs
<1>4. k \in Keys
  BY <1>1, <1>3
<1>5. (k \in h.a_left <=> contents[h.a][k] # None) /\ (k \in h.b_left <=> contents[h.b][k] # None)
  <2>1. Halfway(contents, h)
    BY JobIs
  <2>2. QED BY ONLY <1>3, <1>4, <2>1 DEF Halfway
<1>6. Value(h.a, h.a_left, k) = contents[h.a][k] /\ Value(h.b, h.b_left, k) = contents[h.b][k]
  BY ONLY <1>5 DEF Value
<1>7. contents[h.a][k] \in Values /\ contents[h.b][k] \in Values
  <2>1. h.a \in DOMAIN contents /\ h.b \in DOMAIN contents
    BY JobIs
  <2>2. contents[h.a] \in [Keys -> Values] /\ contents[h.b] \in [Keys -> Values]
    BY <2>1 DEF Up, TypeOK
  <2>3. QED BY ONLY <1>4, <2>2
<1>8. MergeOr(contents[h.a][k], contents[h.b][k]) \in Values
  BY ONLY <1>7, MergeOrIs
<1>9. QED
  BY ONLY <1>3, <1>4, <1>6, <1>8, v = MergeOr(Value(h.a, h.a_left, k), Value(h.b, h.b_left, k))

LEMMA MergeRepeatsKeeps ==
  ASSUME Up, MergeRepeats PROVE Up'
<1>1. PICK h: h = Head(running)
  OBVIOUS
<1>2. PICK k: k = Min(h.a_left \cup h.b_left)
  OBVIOUS
<1>3. PICK v: v = MergeOr(Value(h.a, h.a_left, k), Value(h.b, h.b_left, k))
  OBVIOUS
<1>4. /\ pc \in {"work1", "work2"} /\ running # <<>> /\ n_processed < MergeSteps
      /\ h.a_left \cup h.b_left # {}
      /\ contents' = [contents EXCEPT ![h.out][k] = v]
      /\ n_processed' = n_processed + 1
      /\ UNCHANGED <<present, cp, new_cp, files, tree, next_id, mergeVars, cpVars, pc,
                     ghostVars, fault>>
  BY <1>1, <1>2, <1>3 DEF MergeRepeats, WorkLeft, CountStep
<1>5. h \in ToSet(running)
  BY <1>1, <1>4, HeadIs
<1>6. k \in Keys /\ k \in h.a_left \cup h.b_left /\ v \in Values
  BY ONLY Up, <1>2, <1>3, <1>4, <1>5, NextEntryIs
<1>7. /\ DOMAIN contents' = DOMAIN contents
      /\ \A id \in DOMAIN contents': contents'[id] \in [Keys -> Values]
      /\ \A key \in Keys: key # k => contents'[h.out][key] = contents[h.out][key]
      /\ contents'[h.a] = contents[h.a] /\ contents'[h.b] = contents[h.b]
      /\ Holds(contents', log, files) /\ Holds(contents', log, cp.files)
      /\ \A m \in ToSet(running): m.out # h.out => Halfway(contents', m)
  BY ONLY Up, <1>4, <1>5, <1>6, OutputWritten
<1>8. Halfway(contents', h)
  <2>1. Halfway(contents, h)
    BY <1>5, JobIs
  <2>2. QED BY ONLY <1>6, <1>7, <2>1 DEF Halfway
<1>9. TypeOK'
  <2>1. n_processed' \in 0..MergeSteps
    <3>1. n_processed \in 0..MergeSteps /\ MergeSteps \in Nat
      BY TableAssumption DEF Up, TypeOK
    <3>2. QED BY ONLY <1>4, <3>1
  <2>2. QED BY <1>4, <1>7, <2>1 DEF Up, TypeOK, mergeVars, cpVars, ghostVars
<1>10. CheckpointInv'
  BY <1>4, <1>7 DEF Up, CheckpointInv, ghostVars
<1>11. FilesInv'
  BY <1>4, <1>7 DEF Up, FilesInv, cpVars, ghostVars
<1>12. IdsInv'
  BY <1>4 DEF Up, IdsInv, mergeVars, ghostVars
<1>13. JobsInv'
  <2>1. UNCHANGED <<present, cp, files, next_id, running, defunct_files, loaded>>
    BY <1>4 DEF mergeVars, ghostVars
  <2>2. ASSUME NEW m \in ToSet(running) PROVE JobKept(m)'
    <3>1. Halfway(contents', m)
      BY <1>5, <1>7, <1>8 DEF Up, JobsInv
    <3>2. QED BY <2>1, <3>1 DEF Up, JobsInv, JobKept
  <2>3. QED BY <2>1, <2>2 DEF Up, JobsInv
<1>14. PairsInv'
  BY <1>4 DEF Up, PairsInv, Merging, mergeVars
<1>15. StepInv'
  BY <1>4 DEF Up, StepInv, cpVars, ghostVars
<1>16. QED BY <1>4, <1>9, <1>10, <1>11, <1>12, <1>13, <1>14, <1>15 DEF Up

LEMMA MergeEntryKeeps ==
  ASSUME Up, MergeEntry PROVE Up'
<1>1. PICK h: h = Head(running)
  OBVIOUS
<1>2. PICK k: k = Min(h.a_left \cup h.b_left)
  OBVIOUS
<1>3. PICK v: v = MergeOr(Value(h.a, h.a_left, k), Value(h.b, h.b_left, k))
  OBVIOUS
<1>17. PICK h2: h2 = [h EXCEPT !.a_left = @ \ {k}, !.b_left = @ \ {k}]
  OBVIOUS
<1>4. /\ pc \in {"work1", "work2"} /\ running # <<>> /\ n_processed < MergeSteps
      /\ h.a_left \cup h.b_left # {}
      /\ contents' = [contents EXCEPT ![h.out][k] = v]
      /\ running' = <<h2>> \o Tail(running)
      /\ n_processed' = n_processed + 1
      /\ UNCHANGED <<present, cp, new_cp, files, tree, next_id, possible, n_merge_jobs,
                     defunct_files, cpVars, pc, ghostVars, fault>>
  BY <1>1, <1>2, <1>3, <1>17 DEF MergeEntry, WorkLeft
<1>5. /\ h \in ToSet(running) /\ h \in MergeJob
      /\ Tail(running) \in Seq(MergeJob) /\ Injective(Tail(running))
      /\ ToSet(Tail(running)) = ToSet(running) \ {h}
      /\ \A m \in ToSet(Tail(running)): m.out # h.out
  BY ONLY Up, <1>1, <1>4, HeadIs
<1>6. /\ k \in Keys /\ k \in h.a_left \cup h.b_left /\ v \in Values
      /\ v = MergeOr(contents[h.a][k], contents[h.b][k])
  BY ONLY Up, <1>2, <1>3, <1>4, <1>5, NextEntryIs
<1>7. /\ DOMAIN contents' = DOMAIN contents
      /\ \A id \in DOMAIN contents': contents'[id] \in [Keys -> Values]
      /\ contents'[h.out][k] = v
      /\ \A key \in Keys: key # k => contents'[h.out][key] = contents[h.out][key]
      /\ contents'[h.a] = contents[h.a] /\ contents'[h.b] = contents[h.b]
      /\ Holds(contents', log, files) /\ Holds(contents', log, cp.files)
      /\ \A m \in ToSet(running): m.out # h.out => Halfway(contents', m)
  <2>1. h \in ToSet(running) /\ k \in Keys /\ v \in Values
    BY ONLY <1>5, <1>6
  <2>2. contents' = [contents EXCEPT ![h.out][k] = v]
    BY ONLY <1>4
  <2>3. /\ DOMAIN contents' = DOMAIN contents
        /\ \A id \in DOMAIN contents': contents'[id] \in [Keys -> Values]
    BY ONLY Up, <2>1, <2>2, OutputWritten
  <2>7. contents'[h.out][k] = v
    <3>1. h.out \in DOMAIN contents
      BY <2>1, JobIs
    <3>2. contents[h.out] \in [Keys -> Values]
      BY <3>1 DEF Up, TypeOK
    <3>3. QED BY ONLY <2>1, <2>2, <3>1, <3>2
  <2>4. /\ \A key \in Keys: key # k => contents'[h.out][key] = contents[h.out][key]
        /\ contents'[h.a] = contents[h.a] /\ contents'[h.b] = contents[h.b]
    BY ONLY Up, <2>1, <2>2, OutputWritten
  <2>5. /\ Holds(contents', log, files) /\ Holds(contents', log, cp.files)
        /\ \A m \in ToSet(running): m.out # h.out => Halfway(contents', m)
    BY ONLY Up, <2>1, <2>2, OutputWritten
  <2>6. QED BY ONLY <2>3, <2>4, <2>5, <2>7
<1>18. /\ h2 \in MergeJob /\ h2.a = h.a /\ h2.b = h.b /\ h2.out = h.out
       /\ h2.a_left = h.a_left \ {k} /\ h2.b_left = h.b_left \ {k}
  BY ONLY <1>5, <1>17 DEF MergeJob
<1>19. /\ running' \in Seq(MergeJob) /\ Injective(running')
       /\ ToSet(running') = ToSet(Tail(running)) \cup {h2}
  <2>1. h2 \notin ToSet(Tail(running))
    <3>1. ASSUME h2 \in ToSet(Tail(running)) PROVE h2.out # h.out
      BY ONLY <1>5, <3>1
    <3>2. QED BY ONLY <1>18, <3>1
  <2>2. PICK rest: rest = Tail(running)
    OBVIOUS
  <2>6. rest \in Seq(MergeJob) /\ h2 \in MergeJob /\ Injective(rest) /\ h2 \notin ToSet(rest)
    BY ONLY <1>5, <1>18, <2>1, <2>2
  <2>3. /\ <<h2>> \o rest \in Seq(MergeJob)
        /\ ToSet(<<h2>> \o rest) = ToSet(rest) \cup {h2}
    BY ONLY <2>6, PrependIs
  <2>4. Injective(<<h2>> \o rest)
    BY ONLY <2>6, PrependIs
  <2>5. QED BY ONLY <1>4, <2>2, <2>3, <2>4
<1>8. Halfway(contents', h2)
  <2>1. Halfway(contents, h)
    BY <1>5, JobIs
  <2> SUFFICES ASSUME NEW key \in Keys
               PROVE  IF key \in h2.a_left \cup h2.b_left
                      THEN /\ key \in h2.a_left <=> contents'[h2.a][key] # None
                           /\ key \in h2.b_left <=> contents'[h2.b][key] # None
                      ELSE contents'[h2.out][key] = MergeOr(contents'[h2.a][key], contents'[h2.b][key])
    BY DEF Halfway
  <2>2. CASE key = k
    BY ONLY <1>6, <1>7, <1>18, <2>2
  <2>3. CASE key # k
    <3>1. IF key \in h.a_left \cup h.b_left
          THEN /\ key \in h.a_left <=> contents[h.a][key] # None
               /\ key \in h.b_left <=> contents[h.b][key] # None
          ELSE contents[h.out][key] = MergeOr(contents[h.a][key], contents[h.b][key])
      BY <2>1 DEF Halfway
    <3>2. /\ key \in h2.a_left <=> key \in h.a_left
          /\ key \in h2.b_left <=> key \in h.b_left
      BY ONLY <1>18, <2>3
    <3>3. QED BY ONLY <1>7, <1>18, <2>3, <3>1, <3>2, key \in Keys
  <2>4. QED BY ONLY <2>2, <2>3
<1>9. TypeOK'
  <2>1. n_processed' \in 0..MergeSteps
    <3>1. n_processed \in 0..MergeSteps /\ MergeSteps \in Nat
      BY TableAssumption DEF Up, TypeOK
    <3>2. QED BY ONLY <1>4, <3>1
  <2>2. QED BY <1>4, <1>7, <1>19, <2>1 DEF Up, TypeOK, cpVars, ghostVars
<1>10. CheckpointInv'
  BY <1>4, <1>7 DEF Up, CheckpointInv, ghostVars
<1>11. FilesInv'
  BY <1>4, <1>7 DEF Up, FilesInv, cpVars, ghostVars
<1>12. IdsInv'
  BY <1>4 DEF Up, IdsInv, ghostVars
<1>13. JobsInv'
  <2>1. UNCHANGED <<present, cp, files, next_id, defunct_files, loaded>>
    BY <1>4 DEF ghostVars
  <2>2. ASSUME NEW m \in ToSet(Tail(running)) PROVE JobKept(m)'
    <3>1. Halfway(contents', m) /\ JobKept(m)
      BY <1>5, <1>7 DEF Up, JobsInv
    <3>2. QED BY <2>1, <3>1 DEF JobKept
  <2>3. JobKept(h2)'
    <3>1. JobKept(h)
      BY <1>5 DEF Up, JobsInv
    <3>2. QED BY <1>8, <1>18, <2>1, <3>1 DEF JobKept
  <2>4. \A x, y \in ToSet(running'): x.out = y.out => x = y
    BY <1>5, <1>18, <1>19 DEF Up, JobsInv
  <2>5. QED BY <1>19, <2>2, <2>3, <2>4 DEF JobsInv
<1>14. PairsInv'
  <2>1. \A m \in ToSet(running): m = h \/ m \in ToSet(Tail(running))
    BY <1>5
  <2>2. \A q \in possible: \A m \in ToSet(running'): q[2] # m.a /\ q[2] # m.b /\ q[1] # m.a
    BY <1>5, <1>18, <1>19 DEF Up, PairsInv
  <2>3. \A id: (\E m \in ToSet(running): id \in {m.a, m.b})
                 => \E m \in ToSet(running'): id \in {m.a, m.b}
    BY ONLY <1>18, <1>19, <2>1
  <2>4. QED BY <1>4, <2>2, <2>3 DEF Up, PairsInv, Merging
<1>15. StepInv'
  BY <1>4 DEF Up, StepInv, cpVars, ghostVars
<1>16. QED BY <1>4, <1>9, <1>10, <1>11, <1>12, <1>13, <1>14, <1>15 DEF Up

-----------------------------------------------------------------------------
(* Merges end *)

LEMMA JoinedIs ==
  ASSUME NEW S, NEW s \in Seq(S), NEW t \in Seq(S)
  PROVE  s \o t \in Seq(S) /\ ToSet(s \o t) = ToSet(s) \cup ToSet(t)
<1> DEFINE u == s \o t
           m == Len(s)
           n == Len(t)
<1>1. /\ m \in Nat /\ n \in Nat /\ DOMAIN s = 1..m /\ DOMAIN t = 1..n
      /\ u \in Seq(S) /\ DOMAIN u = 1..(m + n)
      /\ \A i \in 1..m: u[i] = s[i]
      /\ \A i \in 1..n: u[m + i] = t[i]
  <2>1. m \in Nat /\ n \in Nat /\ DOMAIN s = 1..m /\ DOMAIN t = 1..n
    OBVIOUS
  <2>2. u \in Seq(S) /\ Len(u) = m + n /\ DOMAIN u = 1..(m + n)
    OBVIOUS
  <2>3. \A i \in 1..m: u[i] = s[i]
    OBVIOUS
  <2>4. \A i \in 1..n: u[m + i] = t[i]
    OBVIOUS
  <2>5. QED BY ONLY <2>1, <2>2, <2>3, <2>4
<1> HIDE DEF u, m, n
<1>2. ASSUME NEW i \in 1..(m + n) PROVE u[i] \in ToSet(s) \cup ToSet(t)
  <2>1. CASE i \in 1..m
    BY <1>1, <2>1 DEF ToSet
  <2>2. CASE i \notin 1..m
    <3>1. i - m \in 1..n /\ m + (i - m) = i
      BY ONLY <1>1, <2>2, i \in 1..(m + n)
    <3>2. u[i] = t[i - m]
      BY ONLY <1>1, <3>1
    <3>3. QED BY ONLY <1>1, <3>1, <3>2 DEF ToSet
  <2>3. QED BY ONLY <2>1, <2>2
<1>3. \A i \in 1..m: i \in 1..(m + n)
  BY ONLY <1>1
<1>4. \A i \in 1..n: m + i \in 1..(m + n)
  BY ONLY <1>1
<1>5. \A x \in ToSet(s): x \in ToSet(u)
  BY ONLY <1>1, <1>3 DEF ToSet
<1>6. \A x \in ToSet(t): x \in ToSet(u)
  BY ONLY <1>1, <1>4 DEF ToSet
<1>7. \A x \in ToSet(u): x \in ToSet(s) \cup ToSet(t)
  BY ONLY <1>1, <1>2 DEF ToSet
<1>8. ToSet(u) = ToSet(s) \cup ToSet(t)
  BY ONLY <1>5, <1>6, <1>7
<1>9. QED BY ONLY <1>1, <1>8 DEF u

LEMMA PositionIs ==
  ASSUME Up, NEW i \in 1..Len(files) PROVE Position(files[i].id) = i
<1>1. /\ DOMAIN files = 1..Len(files)
      /\ \A j \in 1..Len(files): files[i].id = files[j].id => i = j
  BY FilesAreTyped
<1>2. \A j \in DOMAIN files: files[j].id = files[i].id => j = i
  BY ONLY <1>1
<1>3. i \in DOMAIN files
  BY <1>1
<1>4. QED BY ONLY <1>2, <1>3 DEF Position

(* g is fs with the files at p and p + 1 replaced by one. *)
Joined(fs, g, p) ==
  /\ Len(g) = Len(fs) - 1
  /\ \A i \in 1..(Len(fs) - 1): i < p => g[i] = fs[i]
  /\ \A i \in 1..(Len(fs) - 1): i > p => g[i] = fs[i + 1]

(* Other neighbours stay neighbours. *)
LEMMA NeighboursStay ==
  ASSUME NEW fs, NEW g, NEW p, Len(fs) \in Nat, p \in 1..(Len(fs) - 1), Joined(fs, g, p),
         NEW a, NEW b, Neighbours(fs, a, b),
         a # fs[p].id, a # fs[p + 1].id, b # fs[p].id, b # fs[p + 1].id
  PROVE  Neighbours(g, a, b)
<1> DEFINE n == Len(fs)
<1>1. /\ n \in Nat /\ p \in 1..(n - 1) /\ Len(g) = n - 1
      /\ \A i \in 1..(n - 1): i < p => g[i] = fs[i]
      /\ \A i \in 1..(n - 1): i > p => g[i] = fs[i + 1]
  BY DEF Joined
<1>2. PICK i \in 1..(n - 1): fs[i].id = a /\ fs[i + 1].id = b
  BY DEF Neighbours
<1> HIDE DEF n
<1>3. i # p /\ i # p + 1 /\ i + 1 # p
  BY ONLY <1>2, a # fs[p].id, a # fs[p + 1].id, b # fs[p].id
<1>4. CASE i < p
  <2>1. i + 1 < p /\ i \in 1..(n - 1) /\ i + 1 \in 1..(n - 1) /\ i \in 1..(n - 1 - 1)
    BY ONLY <1>1, <1>2, <1>3, <1>4
  <2>2. g[i] = fs[i] /\ g[i + 1] = fs[i + 1]
    BY ONLY <1>1, <1>4, <2>1
  <2>3. QED BY ONLY <1>1, <1>2, <2>1, <2>2 DEF Neighbours
<1>5. CASE ~(i < p)
  <2>1. /\ i - 1 > p /\ i > p /\ i - 1 \in 1..(n - 1) /\ i - 1 \in 1..(n - 1 - 1)
        /\ (i - 1) + 1 = i
    BY ONLY <1>1, <1>2, <1>3, <1>5
  <2>2. g[i - 1] = fs[i] /\ g[(i - 1) + 1] = fs[i + 1]
    BY ONLY <1>1, <1>2, <2>1
  <2>3. QED BY ONLY <1>1, <1>2, <2>1, <2>2 DEF Neighbours
<1>6. QED BY ONLY <1>4, <1>5

(* Where the inputs of a finished merge are, and what takes their place *)
LEMMA FinishIs ==
  ASSUME Up, running # <<>>, NEW h, h = Head(running), InputsRemaining(h) = 0
  PROVE  \E p \in 1..(Len(files) - 1):
           /\ files[p].id = h.a /\ files[p + 1].id = h.b
           /\ Position(h.a) = p /\ Position(h.b) = p + 1
           /\ Replaced(h) \in Seq(FileInfo) /\ Joined(files, Replaced(h), p)
           /\ Replaced(h)[p] = MergedFile(h)
           /\ Holds(contents, log, Replaced(h))
           /\ Total(Replaced(h)) = Total(files)
           /\ Ids(Replaced(h)) = (Ids(files) \ {h.a, h.b}) \cup {h.out}
<1>1. h \in ToSet(running) /\ h \in MergeJob
  BY HeadIs
<1>2. PICK p \in 1..(Len(files) - 1): files[p].id = h.a /\ files[p + 1].id = h.b
  BY <1>1, JobIs
<1>3. /\ Len(files) \in Nat /\ p \in 1..Len(files) /\ p + 1 \in 1..Len(files)
      /\ p + 1 + 1 = p + 2
  BY FilesAreTyped
<1>4. Position(h.a) = p /\ Position(h.b) = p + 1
  BY <1>2, <1>3, PositionIs
<1>5. PICK f: f = MergedFile(h)
  OBVIOUS
<1>6. f = [id |-> h.out, first_entry_index |-> files[p].first_entry_index,
           n_entries |-> files[p].n_entries + files[p + 1].n_entries, used |-> FALSE]
  BY ONLY <1>4, <1>5 DEF MergedFile, FileOf
<1>7. PICK g: g = Spliced(files, p, p + 2, f)
  OBVIOUS
<1>8. Replaced(h) = g
  BY ONLY <1>3, <1>4, <1>5, <1>7 DEF Replaced, Spliced
<1>9. /\ f \in FileInfo /\ f.id = h.out /\ f.first_entry_index = files[p].first_entry_index
      /\ f.n_entries = files[p].n_entries + files[p + 1].n_entries
  <2>1. files[p] \in FileInfo /\ files[p + 1] \in FileInfo
    BY <1>3, FilesAreTyped
  <2>2. /\ files[p].first_entry_index \in Nat /\ files[p].n_entries \in Nat
        /\ files[p + 1].n_entries \in Nat
    BY ONLY <2>1 DEF FileInfo
  <2>3. h.out \in Nat
    BY <1>1, JobIs
  <2>4. files[p].n_entries + files[p + 1].n_entries \in Nat
    BY ONLY <2>2
  <2>5. QED BY ONLY <1>6, <2>2, <2>3, <2>4 DEF FileInfo
<1>10. h.out \notin Ids(files) /\ h.out \in DOMAIN contents /\ Halfway(contents, h)
  BY <1>1, JobIs
<1>11. h.a_left = {} /\ h.b_left = {}
  <2>1. h.a_left \in SUBSET Keys /\ h.b_left \in SUBSET Keys
    BY <1>1, JobsAreTyped
  <2>2. IsFiniteSet(h.a_left) /\ IsFiniteSet(h.b_left)
    BY <2>1, TableAssumption, FS_Subset
  <2>3. Cardinality(h.a_left) \in Nat /\ Cardinality(h.b_left) \in Nat
    BY <2>2, FS_CardinalityType
  <2>4. Cardinality(h.a_left) + Cardinality(h.b_left) = 0
    BY DEF InputsRemaining
  <2>5. Cardinality(h.a_left) = 0 /\ Cardinality(h.b_left) = 0
    BY ONLY <2>3, <2>4
  <2>6. QED BY ONLY <2>2, <2>5, FS_EmptySet
<1>12. \A k \in Keys: contents[f.id][k] = MergeOr(contents[files[p].id][k], contents[files[p + 1].id][k])
  <2>1. \A k \in Keys: contents[h.out][k] = MergeOr(contents[h.a][k], contents[h.b][k])
    BY ONLY <1>10, <1>11 DEF Halfway
  <2>2. QED BY ONLY <1>2, <1>9, <2>1
<1>13. files \in Seq(FileInfo) /\ Holds(contents, log, files) /\ Len(log) \in Nat
  BY FilesAreTyped DEF Up, TypeOK, FilesInv
<1>14. PICK c, l, fs: c = contents /\ l = log /\ fs = files
  OBVIOUS
<1>15. /\ fs \in Seq(FileInfo) /\ Holds(c, l, fs) /\ Len(l) \in Nat
       /\ p \in 1..(Len(fs) - 1) /\ f \in FileInfo
       /\ f.first_entry_index = fs[p].first_entry_index
       /\ f.n_entries = fs[p].n_entries + fs[p + 1].n_entries
       /\ f.id \notin Ids(fs) /\ f.id \in DOMAIN c
       /\ \A k \in Keys: c[f.id][k] = MergeOr(c[fs[p].id][k], c[fs[p + 1].id][k])
       /\ g = Spliced(fs, p, p + 2, f)
  BY ONLY <1>7, <1>9, <1>10, <1>12, <1>13, <1>14, p \in 1..(Len(files) - 1)
<1>16. /\ Holds(c, l, g) /\ g \in Seq(FileInfo) /\ Len(g) = Len(fs) - 1
       /\ \A i \in 1..(Len(fs) - 1):
            g[i] = IF i < p THEN fs[i] ELSE IF i = p THEN f ELSE fs[i + 1]
       /\ Total(g) = Total(fs)
       /\ Ids(g) = (Ids(fs) \ {fs[p].id, fs[p + 1].id}) \cup {f.id}
  BY ONLY <1>15, HoldsJoined
<1>17. Joined(fs, g, p) /\ g[p] = f
  <2>1. p \in Int /\ \A i \in 1..(Len(fs) - 1): i \in Int
    BY ONLY p \in 1..(Len(files) - 1)
  <2>2. QED BY ONLY <1>15, <1>16, <2>1 DEF Joined
<1>18. Ids(g) = (Ids(files) \ {h.a, h.b}) \cup {h.out}
  BY ONLY <1>2, <1>9, <1>14, <1>16
<1>19. QED BY ONLY <1>2, <1>4, <1>5, <1>8, <1>14, <1>16, <1>17, <1>18, p \in 1..(Len(files) - 1)

LEMMA FinishMergeKeeps ==
  ASSUME Up, FinishMerge PROVE Up'
<1>1. PICK h: h = Head(running)
  OBVIOUS
<1>2. /\ pc \in {"work1", "work2"} /\ running # <<>> /\ n_processed < MergeSteps
      /\ InputsRemaining(h) = 0 /\ ~AssertFails(h) /\ ~LeavesDangling(h)
      /\ files' = Replaced(h)
      /\ present' = present \ {id \in {h.a, h.b}: ~FileOf(id).used}
      /\ defunct_files' = NowDefunct(h.b) \o NowDefunct(h.a) \o defunct_files
      /\ running' = Tail(running)
      /\ possible' = possible \cup NewPossible(h)
      /\ n_processed' = n_processed + 1
      /\ pc' \in {"start1", "start2"}
      /\ UNCHANGED <<contents, cp, new_cp, tree, next_id, n_merge_jobs, cpVars, ghostVars, fault>>
  BY <1>1 DEF FinishMerge, MergeAtEnd, WorkLeft
<1>3. /\ h \in ToSet(running) /\ h \in MergeJob
      /\ running' \in Seq(MergeJob) /\ Injective(running')
      /\ ToSet(running') = ToSet(running) \ {h}
      /\ \A m \in ToSet(running'): m.out # h.out
  <2>1. /\ h \in ToSet(running) /\ h \in MergeJob
        /\ Tail(running) \in Seq(MergeJob) /\ Injective(Tail(running))
        /\ ToSet(Tail(running)) = ToSet(running) \ {h}
        /\ \A m \in ToSet(Tail(running)): m.out # h.out
    BY ONLY Up, <1>1, <1>2, HeadIs
  <2>2. QED BY ONLY <1>2, <2>1
<1>4. PICK p \in 1..(Len(files) - 1):
        /\ files[p].id = h.a /\ files[p + 1].id = h.b
        /\ Position(h.a) = p /\ Position(h.b) = p + 1
        /\ files' \in Seq(FileInfo) /\ Joined(files, files', p)
        /\ files'[p] = MergedFile(h)
        /\ Holds(contents, log, files')
        /\ Total(files') = Total(files)
        /\ Ids(files') = (Ids(files) \ {h.a, h.b}) \cup {h.out}
  <2>1. PICK g: g = Replaced(h)
    OBVIOUS
  <2>2. files' = g
    BY ONLY <1>2, <2>1
  <2>3. \E p \in 1..(Len(files) - 1):
           /\ files[p].id = h.a /\ files[p + 1].id = h.b
           /\ Position(h.a) = p /\ Position(h.b) = p + 1
           /\ Replaced(h) \in Seq(FileInfo) /\ Joined(files, Replaced(h), p)
           /\ Replaced(h)[p] = MergedFile(h)
           /\ Holds(contents, log, Replaced(h))
           /\ Total(Replaced(h)) = Total(files)
           /\ Ids(Replaced(h)) = (Ids(files) \ {h.a, h.b}) \cup {h.out}
    BY ONLY Up, <1>1, <1>2, FinishIs
  <2>4. QED BY ONLY <2>1, <2>2, <2>3
<1>5. /\ Len(files) \in Nat /\ DOMAIN files = 1..Len(files)
      /\ p \in 1..Len(files) /\ p + 1 \in 1..Len(files) /\ p \in Nat
      /\ \A i, j \in 1..Len(files): files[i].id = files[j].id => i = j
      /\ \A i \in 1..Len(files): files[i].id \in Ids(files)
  BY FilesAreTyped
<1>6. /\ Len(files') = Len(files) - 1
      /\ \A i \in 1..(Len(files) - 1): i < p => files'[i] = files[i]
      /\ \A i \in 1..(Len(files) - 1): i > p => files'[i] = files[i + 1]
  BY ONLY <1>4 DEF Joined
<1>7. /\ h.a \in Ids(files) /\ h.b \in Ids(files) /\ h.out \notin Ids(files)
      /\ h.a \in Nat /\ h.b \in Nat /\ h.out \in Nat
      /\ h.a < next_id /\ h.b < next_id /\ h.out < next_id
      /\ h.out \in present
      /\ h.out \notin Ids(cp.files) \cup ToSet(defunct_files) \cup loaded
  <2>1. JobKept(h)
    BY <1>3 DEF Up, JobsInv
  <2>2. QED BY <1>3, <2>1, JobIs DEF JobKept
<1>8. MergedFile(h).id = h.out
  BY DEF MergedFile
<1>9. FileOf(h.a) = files[p] /\ FileOf(h.b) = files[p + 1]
  BY ONLY <1>4 DEF FileOf
<1>10. ASSUME NEW x \in ToSet(running')
       PROVE  /\ x \in ToSet(running) /\ x # h /\ x.out # h.out
              /\ x.a # h.a /\ x.a # h.b /\ x.b # h.a /\ x.b # h.b
  <2>1. x \in ToSet(running) /\ x # h /\ x.out # h.out
    BY ONLY <1>3, <1>10
  <2>2. {x.a, x.b} \cap {h.a, h.b} = {}
    BY ONLY <1>2, <1>10 DEF LeavesDangling
  <2>3. QED BY ONLY <2>1, <2>2
<1>11. /\ defunct_files' \in Seq(Nat)
       /\ ToSet(defunct_files') \subseteq ToSet(defunct_files) \cup {h.a, h.b}
  <2>1. ASSUME NEW id \in Nat
        PROVE  NowDefunct(id) \in Seq(Nat) /\ ToSet(NowDefunct(id)) \subseteq {id}
    <3>1. CASE FileOf(id).used
      BY <3>1 DEF NowDefunct, ToSet
    <3>2. CASE ~FileOf(id).used
      BY <3>2 DEF NowDefunct, ToSet
    <3>3. QED BY ONLY <3>1, <3>2
  <2>2. PICK u, v, w: u = NowDefunct(h.b) /\ v = NowDefunct(h.a) /\ w = defunct_files
    OBVIOUS
  <2>3. u \in Seq(Nat) /\ v \in Seq(Nat) /\ ToSet(u) \subseteq {h.b} /\ ToSet(v) \subseteq {h.a}
    BY ONLY <1>7, <2>1, <2>2
  <2>4. w \in Seq(Nat)
    BY <2>2 DEF Up, TypeOK
  <2>5. u \o v \in Seq(Nat) /\ ToSet(u \o v) = ToSet(u) \cup ToSet(v)
    BY ONLY <2>3, JoinedIs
  <2>6. (u \o v) \o w \in Seq(Nat) /\ ToSet((u \o v) \o w) = ToSet(u \o v) \cup ToSet(w)
    <3>1. PICK s: s = u \o v
      OBVIOUS
    <3>2. s \in Seq(Nat)
      BY ONLY <2>5, <3>1
    <3>3. s \o w \in Seq(Nat) /\ ToSet(s \o w) = ToSet(s) \cup ToSet(w)
      BY ONLY <2>4, <3>2, JoinedIs
    <3>4. QED BY ONLY <3>1, <3>3
  <2>7. defunct_files' = (u \o v) \o w
    BY ONLY <1>2, <2>2
  <2>8. QED BY ONLY <2>2, <2>3, <2>5, <2>6, <2>7
<1>12. TypeOK'
  <2>1. n_processed' \in 0..MergeSteps
    <3>1. n_processed \in 0..MergeSteps /\ MergeSteps \in Nat
      BY TableAssumption DEF Up, TypeOK
    <3>2. QED BY ONLY <1>2, <3>1
  <2>2. NewPossible(h) \subseteq Nat \X Nat
    <3>1. \A i \in DOMAIN files: files[i].id \in Nat
      BY <1>5, IdsAreNumbers
    <3>2. PICK g: g = h.out
      OBVIOUS
    <3>3. \A q \in NewPossible(h): \E i \in DOMAIN files: q = <<files[i].id, g>> \/ q = <<g, files[i].id>>
      BY ONLY <3>2 DEF NewPossible
    <3>4. g \in Nat
      BY ONLY <1>7, <3>2
    <3>5. \A q \in NewPossible(h): q \in Nat \X Nat
      BY ONLY <3>1, <3>3, <3>4
    <3>6. QED BY ONLY <3>5
  <2>3. present' \subseteq DOMAIN contents /\ possible' \subseteq Nat \X Nat
    BY <1>2, <2>2 DEF Up, TypeOK
  <2>5. running' \in Seq(MergeJob) /\ files' \in Seq(FileInfo) /\ defunct_files' \in Seq(Nat)
    BY ONLY <1>3, <1>4, <1>11
  <2>6. /\ pc' \in Starting
        /\ UNCHANGED <<contents, cp, new_cp, tree, next_id, n_merge_jobs, cp_path,
                       cp_first_entry_index, cp_n_entries, log, loaded, stranded, stops, fault>>
    BY ONLY <1>2 DEF Starting, cpVars, ghostVars
  <2>7. TypeOK
    BY DEF Up
  <2>4. QED BY ONLY <2>1, <2>3, <2>5, <2>6, <2>7 DEF TypeOK
<1>13. CheckpointInv'
  BY <1>2 DEF Up, CheckpointInv, ghostVars
<1>14. FilesInv'
  <2>1. Ids(files') \subseteq present'
    BY <1>2, <1>4, <1>7 DEF Up, FilesInv
  <2>2. QED BY <1>2, <1>4, <2>1 DEF Up, FilesInv, cpVars, ghostVars
<1>15. IdsInv'
  <2>1. \A id \in Ids(files') \cup Ids(cp.files) \cup ToSet(defunct_files') \cup loaded: id < next_id
    BY <1>4, <1>7, <1>11 DEF Up, IdsInv
  <2>2. ToSet(defunct_files') \cap Ids(files') = {}
    <3>1. ToSet(defunct_files) \cap Ids(files) = {}
      BY DEF Up, IdsInv
    <3>2. h.a \notin Ids(files') /\ h.b \notin Ids(files')
      BY ONLY <1>4, <1>7
    <3>3. QED BY ONLY <1>4, <1>7, <1>11, <3>1, <3>2
  <2>3. loaded \cap Ids(cp.files) \subseteq present'
    <3>1. \A i \in 1..Len(files): files[i].id \in loaded => files[i].used
      BY <1>5 DEF Up, IdsInv
    <3>2. \A id \in {h.a, h.b}: id \in loaded => FileOf(id).used
      BY ONLY <1>4, <1>5, <1>9, <3>1
    <3>3. loaded \cap Ids(cp.files) \subseteq present
      BY DEF Up, IdsInv
    <3>4. QED BY ONLY <1>2, <3>2, <3>3
  <2>4. ASSUME NEW i \in 1..(Len(files) - 1), files'[i].id \in loaded PROVE files'[i].used
    <3>1. i \in 1..Len(files) /\ i + 1 \in 1..Len(files) /\ (i < p \/ i = p \/ i > p)
      BY ONLY <1>5, i \in 1..(Len(files) - 1)
    <3>2. i # p
      BY ONLY <1>4, <1>7, <1>8, <2>4
    <3>3. files'[i] = files[i] \/ files'[i] = files[i + 1]
      BY ONLY <1>6, <3>1, <3>2, i \in 1..(Len(files) - 1)
    <3>4. \A j \in 1..Len(files): files[j].id \in loaded => files[j].used
      BY <1>5 DEF Up, IdsInv
    <3>5. QED BY ONLY <2>4, <3>1, <3>3, <3>4
  <2>5. DOMAIN files' = 1..(Len(files) - 1)
    BY <1>4, <1>6
  <2>6. QED BY <1>2, <2>1, <2>2, <2>3, <2>4, <2>5 DEF IdsInv, ghostVars
<1>16. ASSUME NEW a, NEW b, Neighbours(files, a, b), a # h.a, a # h.b, b # h.a, b # h.b
       PROVE  Neighbours(files', a, b)
  <2>1. PICK fs, g: fs = files /\ g = files'
    OBVIOUS
  <2>2. /\ Len(fs) \in Nat /\ p \in 1..(Len(fs) - 1) /\ Joined(fs, g, p)
        /\ Neighbours(fs, a, b) /\ a # fs[p].id /\ a # fs[p + 1].id
        /\ b # fs[p].id /\ b # fs[p + 1].id
    BY ONLY <1>4, <1>5, <1>16, <2>1, p \in 1..(Len(files) - 1)
  <2>3. Neighbours(g, a, b)
    BY ONLY <2>2, NeighboursStay
  <2>4. QED BY ONLY <2>1, <2>3
<1>17. JobsInv'
  <2>1. ASSUME NEW x \in ToSet(running') PROVE JobKept(x)'
    <3>1. JobKept(x)
      BY <1>10 DEF Up, JobsInv
    <3>2. Neighbours(files', x.a, x.b)
      BY ONLY <1>10, <1>16, <3>1 DEF JobKept
    <3>3. x.out \in present /\ x.out \notin Ids(files) /\ x.out # h.out
      BY <1>10, <3>1 DEF JobKept
    <3>4. x.out \in present' /\ x.out \notin Ids(files') /\ x.out \notin ToSet(defunct_files')
      BY <1>2, <1>4, <1>7, <1>11, <3>1, <3>3 DEF JobKept
    <3>5. QED BY <1>2, <3>1, <3>2, <3>4 DEF JobKept, ghostVars
  <2>2. \A x, y \in ToSet(running'): x.out = y.out => x = y
    BY <1>3 DEF Up, JobsInv
  <2>3. QED BY <1>3, <2>1, <2>2 DEF JobsInv
<1>18. PairsInv'
  <2>10. PICK g: g = files'
    OBVIOUS
  <2>1. /\ Len(g) = Len(files) - 1
        /\ \A i \in 1..(Len(files) - 1): i < p => g[i] = files[i]
        /\ \A i \in 1..(Len(files) - 1): i > p => g[i] = files[i + 1]
        /\ g[p].id = h.out
    BY ONLY <1>4, <1>6, <1>8, <2>10
  <2>2. \A id: id \notin {h.a, h.b} /\ (\E m \in ToSet(running): id \in {m.a, m.b})
                 => \E m \in ToSet(running'): id \in {m.a, m.b}
    BY ONLY <1>3
  <2>3. \A q \in NewPossible(h):
          \/ /\ p - 1 \in DOMAIN files /\ ~Merging(files[p - 1].id)
             /\ q = <<files[p - 1].id, h.out>>
          \/ /\ p + 2 \in DOMAIN files /\ ~Merging(files[p + 2].id)
             /\ q = <<h.out, files[p + 2].id>>
    <3>1. p + 1 + 1 = p + 2
      BY <1>5
    <3>2. QED BY ONLY <1>4, <3>1 DEF NewPossible
  <2>4. /\ p - 1 \in DOMAIN files /\ ~Merging(files[p - 1].id)
              => <<files[p - 1].id, h.out>> \in possible'
        /\ p + 2 \in DOMAIN files /\ ~Merging(files[p + 2].id)
              => <<h.out, files[p + 2].id>> \in possible'
    <3>1. p + 1 + 1 = p + 2
      BY <1>5
    <3>2. QED BY ONLY <1>2, <1>4, <3>1 DEF NewPossible
  <2>5. ASSUME NEW q \in possible PROVE Neighbours(files', q[1], q[2])
    <3>1. /\ Neighbours(files, q[1], q[2])
          /\ \A m \in ToSet(running): q[2] # m.a /\ q[2] # m.b /\ q[1] # m.a
      BY DEF Up, PairsInv
    <3>2. q[2] # h.a /\ q[2] # h.b /\ q[1] # h.a
      BY ONLY <1>3, <3>1
    <3>3. q[1] # h.b
      <4>1. SUFFICES ASSUME q[1] = h.b PROVE FALSE
        OBVIOUS
      <4>2. PICK i \in 1..(Len(files) - 1): files[i].id = q[1] /\ files[i + 1].id = q[2]
        BY ONLY <3>1 DEF Neighbours
      <4>3. i \in 1..Len(files) /\ i + 1 \in 1..Len(files)
        BY ONLY <1>5, <4>2
      <4>4. i = p + 1
        BY ONLY <1>4, <1>5, <4>1, <4>2, <4>3
      <4>5. ~Merging(files[i + 1].id)
        BY ONLY <3>1, <4>2 DEF Merging
      <4>6. <<h.b, files[i + 1].id>> \in possible
        <5>1. q = <<q[1], q[2]>>
          BY DEF Up, TypeOK
        <5>2. QED BY ONLY <4>1, <4>2, <5>1, q \in possible
      <4>7. AssertFails(h)
        BY ONLY <1>4, <1>5, <4>3, <4>4, <4>5, <4>6 DEF AssertFails
      <4>8. QED BY ONLY <1>2, <4>7
    <3>4. QED BY ONLY <1>16, <3>1, <3>2, <3>3
  <2>6. \A q \in NewPossible(h): Neighbours(files', q[1], q[2])
    <3>1. ASSUME p - 1 \in DOMAIN files PROVE Neighbours(g, files[p - 1].id, h.out)
      <4>1. p - 1 \in 1..(Len(files) - 1) /\ p - 1 < p /\ p - 1 \in 1..(Len(g) - 1) /\ (p - 1) + 1 = p
        BY ONLY <1>5, <2>1, <3>1, p \in 1..(Len(files) - 1)
      <4>2. g[p - 1] = files[p - 1]
        BY ONLY <2>1, <4>1
      <4>3. QED BY ONLY <2>1, <4>1, <4>2 DEF Neighbours
    <3>2. ASSUME p + 2 \in DOMAIN files PROVE Neighbours(g, h.out, files[p + 2].id)
      <4>1. /\ p + 1 \in 1..(Len(files) - 1) /\ p + 1 > p /\ p \in 1..(Len(g) - 1)
            /\ (p + 1) + 1 = p + 2
        BY ONLY <1>5, <2>1, <3>2, p \in 1..(Len(files) - 1)
      <4>2. g[p + 1] = files[p + 2]
        BY ONLY <2>1, <4>1
      <4>3. QED BY ONLY <2>1, <4>1, <4>2 DEF Neighbours
    <3>3. QED BY ONLY <2>3, <2>10, <3>1, <3>2
  <2>7. \A q \in NewPossible(h): \A m \in ToSet(running'): q[2] # m.a /\ q[2] # m.b /\ q[1] # m.a
    <3>1. \A m \in ToSet(running'): m \in ToSet(running) /\ m.a # h.out /\ m.b # h.out
      <4>1. \A m \in ToSet(running): m.a \in Ids(files) /\ m.b \in Ids(files)
        BY JobIs
      <4>2. QED BY ONLY <1>3, <1>7, <4>1
    <3>2. QED BY ONLY <2>3, <3>1 DEF Merging
  <2>8. ASSUME NEW i \in 1..(Len(files) - 1 - 1)
        PROVE  \/ <<g[i].id, g[i + 1].id>> \in possible'
               \/ \E m \in ToSet(running'): g[i].id \in {m.a, m.b}
               \/ \E m \in ToSet(running'): g[i + 1].id \in {m.a, m.b}
    <3>1. ASSUME NEW j \in 1..(Len(files) - 1), j # p, j # p + 1, j + 1 # p,
                 g[i] = files[j], g[i + 1] = files[j + 1]
          PROVE  \/ <<g[i].id, g[i + 1].id>> \in possible'
                 \/ \E m \in ToSet(running'): g[i].id \in {m.a, m.b}
                 \/ \E m \in ToSet(running'): g[i + 1].id \in {m.a, m.b}
      <4>1. \/ <<files[j].id, files[j + 1].id>> \in possible
            \/ \E m \in ToSet(running): files[j].id \in {m.a, m.b}
            \/ \E m \in ToSet(running): files[j + 1].id \in {m.a, m.b}
        BY DEF Up, PairsInv, Merging
      <4>2. j \in 1..Len(files) /\ j + 1 \in 1..Len(files) /\ j + 1 # p + 1
        BY ONLY <1>5, <3>1
      <4>3. files[j].id \notin {h.a, h.b} /\ files[j + 1].id \notin {h.a, h.b}
        BY ONLY <1>4, <1>5, <3>1, <4>2
      <4>4. possible \subseteq possible'
        BY ONLY <1>2
      <4>5. QED BY ONLY <2>2, <3>1, <4>1, <4>3, <4>4
    <3>2. CASE i + 1 < p
      <4>1. i \in 1..(Len(files) - 1) /\ i + 1 \in 1..(Len(files) - 1) /\ i < p /\ i # p /\ i # p + 1
        BY ONLY <1>5, <3>2, i \in 1..(Len(files) - 1 - 1)
      <4>2. g[i] = files[i] /\ g[i + 1] = files[i + 1] /\ i + 1 # p
        BY ONLY <2>1, <3>2, <4>1, <1>5
      <4>3. QED BY ONLY <3>1, <4>1, <4>2
    <3>3. CASE i + 1 = p
      <4>1. /\ i = p - 1 /\ p - 1 \in DOMAIN files /\ p - 1 \in 1..Len(files)
            /\ i \in 1..(Len(files) - 1) /\ i < p /\ i # p /\ i # p + 1
        BY ONLY <1>5, <3>3, i \in 1..(Len(files) - 1 - 1)
      <4>2. g[i] = files[p - 1] /\ g[i + 1].id = h.out
        BY ONLY <2>1, <3>3, <4>1
      <4>3. files[p - 1].id \notin {h.a, h.b}
        BY ONLY <1>4, <1>5, <4>1
      <4>4. \/ <<files[p - 1].id, h.out>> \in possible'
            \/ \E m \in ToSet(running): files[p - 1].id \in {m.a, m.b}
        BY ONLY <2>4, <4>1 DEF Merging
      <4>5. QED BY ONLY <2>2, <4>2, <4>3, <4>4
    <3>4. CASE i = p
      <4>1. /\ p + 2 \in DOMAIN files /\ p + 2 \in 1..Len(files) /\ (p + 1) + 1 = p + 2
            /\ p + 1 \in 1..(Len(files) - 1) /\ p + 1 > p /\ p + 2 # p /\ p + 2 # p + 1
        BY ONLY <1>5, <3>4, i \in 1..(Len(files) - 1 - 1)
      <4>2. g[i].id = h.out /\ g[i + 1] = files[p + 2]
        BY ONLY <2>1, <3>4, <4>1
      <4>3. files[p + 2].id \notin {h.a, h.b}
        BY ONLY <1>4, <1>5, <4>1
      <4>4. \/ <<h.out, files[p + 2].id>> \in possible'
            \/ \E m \in ToSet(running): files[p + 2].id \in {m.a, m.b}
        BY ONLY <2>4, <4>1 DEF Merging
      <4>5. QED BY ONLY <2>2, <4>2, <4>3, <4>4
    <3>5. CASE i > p
      <4>1. /\ i \in 1..(Len(files) - 1) /\ i + 1 \in 1..(Len(files) - 1) /\ i + 1 > p
            /\ i + 1 # p /\ i + 1 # p + 1 /\ (i + 1) + 1 # p
        BY ONLY <1>5, <3>5, i \in 1..(Len(files) - 1 - 1)
      <4>2. g[i] = files[i + 1] /\ g[i + 1] = files[(i + 1) + 1]
        BY ONLY <2>1, <3>5, <4>1
      <4>3. QED BY ONLY <3>1, <4>1, <4>2
    <3>6. i + 1 < p \/ i + 1 = p \/ i = p \/ i > p
      BY ONLY <1>5, i \in 1..(Len(files) - 1 - 1)
    <3>7. QED BY ONLY <3>2, <3>3, <3>4, <3>5, <3>6
  <2>9. \A q \in possible: \A m \in ToSet(running'): q[2] # m.a /\ q[2] # m.b /\ q[1] # m.a
    BY <1>3 DEF Up, PairsInv
  <2>11. \A q \in possible': Neighbours(files', q[1], q[2])
    BY ONLY <1>2, <2>5, <2>6
  <2>12. \A q \in possible': \A m \in ToSet(running'): q[2] # m.a /\ q[2] # m.b /\ q[1] # m.a
    BY ONLY <1>2, <2>7, <2>9
  <2>13. \A i \in 1..(Len(files') - 1):
           \/ <<files'[i].id, files'[i + 1].id>> \in possible'
           \/ \E m \in ToSet(running'): files'[i].id \in {m.a, m.b}
           \/ \E m \in ToSet(running'): files'[i + 1].id \in {m.a, m.b}
    BY ONLY <2>1, <2>8, <2>10
  <2>14. QED BY ONLY <2>11, <2>12, <2>13 DEF PairsInv, Merging
<1>19. StepInv'
  BY <1>2 DEF Up, StepInv, cpVars, ghostVars
<1>20. QED BY <1>2, <1>12, <1>13, <1>14, <1>15, <1>17, <1>18, <1>19 DEF Up

-----------------------------------------------------------------------------
(* Stopping and opening again *)

(* What is recovered are the insertions up to the end of the journal. *)
LEMMA RecoveredIs ==
  ASSUME TypeOK, CheckpointInv
  PROVE  /\ Total(cp.files) \in Nat /\ Len(cp.journal) \in Nat /\ Len(log) \in Nat
         /\ \A k \in Keys: Checkpointed(k) = LastIn(log, k, 0, Total(cp.files) + Len(cp.journal))
         /\ \A k \in Keys: Replayed(cp.journal)[k]
              = LastIn(log, k, Total(cp.files), Total(cp.files) + Len(cp.journal))
<1>1. cp \in Checkpoint /\ log \in Seq(Keys)
  BY DEF TypeOK
<1>2. cp.files \in Seq(FileInfo) /\ cp.journal \in Seq(Keys \X Values)
  BY ONLY <1>1 DEF Checkpoint
<1>3. PICK fs, journal: fs = cp.files /\ journal = cp.journal
  OBVIOUS
<1>4. fs \in Seq(FileInfo) /\ journal \in Seq(Keys \X Values) /\ Holds(contents, log, fs)
  BY <1>2, <1>3 DEF CheckpointInv
<1>5. Total(fs) \in Nat
  BY <1>4, EndsAscend DEF Holds
<1>6. Len(journal) \in Nat /\ Len(log) \in Nat
  BY <1>1, <1>4
<1>7. PICK base \in Nat: base = Total(fs)
  BY <1>5
<1>8. PICK b \in Nat: b = base + Len(journal)
  BY <1>6
<1>9. \A i \in DOMAIN journal: journal[i] = <<log[base + i], base + i>>
  BY <1>3, <1>7 DEF CheckpointInv
<1>10. \A k \in Keys: Replayed(journal)[k] = LastIn(log, k, base, b)
  BY ONLY <1>4, <1>8, <1>9, ReplayedIs
<1>11. ASSUME NEW k \in Keys PROVE LookupNewestFirst(Replayed(journal), fs, k) = LastIn(log, k, 0, b)
  <2>1. PICK t: t = Replayed(journal)
    OBVIOUS
  <2>2. t[k] = LastIn(log, k, Total(fs), b)
    BY ONLY <1>7, <1>10, <2>1, k \in Keys
  <2>3. Total(fs) <= b
    BY ONLY <1>6, <1>7, <1>8
  <2>4. LookupNewestFirst(t, fs, k) = LastIn(log, k, 0, b)
    BY ONLY <1>1, <1>4, <2>2, <2>3, b \in Nat, k \in Keys, LookupIs
  <2>5. QED BY ONLY <2>1, <2>4
<1>12. \A k \in Keys: Checkpointed(k) = LastIn(log, k, 0, b)
  BY ONLY <1>3, <1>11 DEF Checkpointed
<1>13. QED BY ONLY <1>3, <1>6, <1>7, <1>8, <1>10, <1>12

LEMMA LastOfIs ==
  ASSUME NEW k, NEW from, NEW to PROVE LastOf(k, from, to) = LastIn(log, k, from, to)
BY DEF LastOf, LastIn

(* If nothing is lost, the journal goes to the last insertion. *)
LEMMA JournalComplete ==
  ASSUME TypeOK, CheckpointInv, \A k \in Keys: Checkpointed(k) = Inserted(k)
  PROVE  Total(cp.files) + Len(cp.journal) = Len(log)
<1>1. PICK b, n: b = Total(cp.files) + Len(cp.journal) /\ n = Len(log)
  OBVIOUS
<1>2. /\ b \in Nat /\ n \in Nat
      /\ \A k \in Keys: Checkpointed(k) = LastIn(log, k, 0, b)
  BY <1>1, RecoveredIs
<1>3. b <= n
  BY <1>1 DEF CheckpointInv
<1>12. b = n \/ b < n
  BY ONLY <1>2, <1>3
<1>13. Total(cp.files) \in Nat /\ Len(cp.journal) \in Nat /\ Len(log) \in Nat
  BY RecoveredIs
<1>14. b = n => Total(cp.files) + Len(cp.journal) = Len(log)
  BY ONLY <1>1, <1>13
<1>4. SUFFICES ASSUME b < n PROVE FALSE
  BY <1>12, <1>14
<1>5. n \in 1..n /\ log \in Seq(Keys)
  BY <1>2, <1>4 DEF TypeOK
<1>6. PICK k \in Keys: k = log[n]
  BY <1>1, <1>5
<1>7. LastIn(log, k, 0, b) = LastIn(log, k, 0, n)
  <2>1. Inserted(k) = LastIn(log, k, 0, n)
    BY <1>1, LastOfIs DEF Inserted
  <2>2. QED BY <1>2, <2>1
<1>8. LastIn(log, k, 0, b) \in 0..b
  BY <1>2, LastInValues
<1>9. IsLast(log, k, 0, n, LastIn(log, k, 0, n))
  BY <1>2, LastIs
<1>10. LastIn(log, k, 0, n) \in Nat /\ LastIn(log, k, 0, n) >= n
  <2>1. n \in (0 + 1)..n /\ log[n] = k
    BY <1>2, <1>5, <1>6
  <2>2. QED BY <1>2, <1>9, <2>1 DEF IsLast
<1>11. QED BY ONLY <1>2, <1>4, <1>7, <1>8, <1>10

LEMMA StopKeeps ==
  ASSUME Up, Stop PROVE TableInv'
<1>1. SUFFICES ASSUME fault' = "none"
               PROVE  TypeOK' /\ CheckpointInv' /\ DownInv' /\ pc' = "down"
  BY DEF TableInv
<1>2. /\ stops' = stops + 1 /\ files' = <<>> /\ tree' = Empty
      /\ cp_path' = "CP" /\ cp_first_entry_index' = 0 /\ cp_n_entries' = 0 /\ next_id' = 0
      /\ possible' = {} /\ running' = <<>> /\ n_merge_jobs' = 0 /\ defunct_files' = <<>>
      /\ pc' = "down" /\ n_processed' = 0 /\ loaded' = {} /\ stranded' = FALSE
      /\ UNCHANGED <<contents, present, cp, new_cp, log>>
  BY DEF Stop, diskVars
<1>3. \A k \in Keys: Checkpointed(k) = Inserted(k)
  BY <1>1 DEF Stop
<1>4. TypeOK /\ CheckpointInv
  BY DEF Up
<1>5. Total(cp.files) + Len(cp.journal) = Len(log)
  BY ONLY <1>3, <1>4, JournalComplete
<1>6. CheckpointInv'
  BY <1>2, <1>4, <1>5 DEF CheckpointInv
<1>7. TypeOK'
  <2>1. /\ 0 \in 0..MaxMergeJobs /\ 0 \in 0..MergeSteps /\ Empty \in [Keys -> Values]
    BY TableAssumption DEF Empty, None, Values
  <2>2. /\ <<>> \in Seq(FileInfo) /\ <<>> \in Seq(MergeJob) /\ <<>> \in Seq(Nat)
        /\ stops + 1 \in Nat
    BY <1>4 DEF TypeOK
  <2>4. UNCHANGED <<contents, present, cp, new_cp, log>>
    BY ONLY <1>2
  <2>5. /\ present' \subseteq DOMAIN contents' /\ DOMAIN contents' \subseteq Nat
        /\ \A id \in DOMAIN contents': contents'[id] \in [Keys -> Values]
        /\ cp' \in Checkpoint /\ new_cp' \in Checkpoint /\ log' \in Seq(Keys)
    BY ONLY <1>4, <2>4 DEF TypeOK
  <2>6. /\ n_merge_jobs' \in 0..MaxMergeJobs /\ n_processed' \in 0..MergeSteps
        /\ tree' \in [Keys -> Values]
    BY ONLY <1>2, <2>1
  <2>8. /\ files' \in Seq(FileInfo) /\ running' \in Seq(MergeJob) /\ defunct_files' \in Seq(Nat)
    BY ONLY <1>2, <2>2
  <2>9. {cp_first_entry_index', cp_n_entries', next_id', stops'} \subseteq Nat
    BY ONLY <1>2, <2>2
  <2>10. /\ possible' \subseteq Nat \X Nat /\ loaded' \subseteq Nat
         /\ stranded' \in BOOLEAN /\ cp_path' \in {"CP", "NEW_CP"}
    BY ONLY <1>2
  <2>7. /\ fault' \in {"none", "abort", "dangling", "missing", "lost"}
        /\ pc' \in {"user", "dump", "checkpoint", "rename", "defunct", "work1", "work2", "down"}
                    \cup Starting
    BY ONLY <1>1, <1>2
  <2>3. QED BY ONLY <2>5, <2>6, <2>7, <2>8, <2>9, <2>10 DEF TypeOK
<1>8. DownInv'
  BY <1>2 DEF DownInv
<1>9. QED BY <1>2, <1>6, <1>7, <1>8

(* Only the place of a file, its id and its range matter. *)
LEMMA HoldsAlike ==
  ASSUME NEW c, NEW l, NEW fs \in Seq(FileInfo), NEW g \in Seq(FileInfo), Len(g) = Len(fs),
         \A i \in 1..Len(fs): /\ g[i].id = fs[i].id /\ g[i].n_entries = fs[i].n_entries
                              /\ g[i].first_entry_index = fs[i].first_entry_index,
         Holds(c, l, fs)
  PROVE  Holds(c, l, g) /\ Total(g) = Total(fs) /\ Ids(g) = Ids(fs)
<1> DEFINE n == Len(fs)
<1>1. /\ n \in Nat /\ DOMAIN fs = 1..n /\ DOMAIN g = 1..n
      /\ \A i \in 1..n: /\ g[i].id = fs[i].id /\ g[i].n_entries = fs[i].n_entries
                        /\ g[i].first_entry_index = fs[i].first_entry_index
  OBVIOUS
<1> HIDE DEF n
<1>2. \A i \in 0..n: End(g, i) = End(fs, i)
  <2>1. \A i \in 0..n: i # 0 => i \in 1..n
    BY ONLY <1>1
  <2>2. QED BY ONLY <1>1, <2>1 DEF End
<1>3. Total(g) = Total(fs)
  <2>1. Total(g) = End(g, n) /\ Total(fs) = End(fs, n) /\ n \in 0..n
    BY <1>1 DEF Total, n
  <2>2. QED BY ONLY <1>2, <2>1
<1>4. \A i \in 1..n: i - 1 \in 0..n /\ i \in 0..n
  BY ONLY <1>1
<1>5. Ids(g) = Ids(fs)
  BY ONLY <1>1 DEF Ids
<1>6. Consecutive(g) /\ Distinct(g)
  BY <1>1, <1>2, <1>4 DEF Holds, Consecutive, Distinct
<1>7. \A i \in 1..n: \A k \in Keys: c[g[i].id][k] = LastIn(l, k, End(g, i - 1), End(g, i))
  BY <1>1, <1>2, <1>4 DEF Holds
<1>8. \A i \in 1..n: g[i].id \in DOMAIN c
  BY <1>1 DEF Holds
<1>9. Total(g) <= Len(l)
  BY <1>3 DEF Holds
<1>10. Holds(c, l, g)
  BY ONLY <1>1, <1>6, <1>7, <1>8, <1>9 DEF Holds
<1>11. QED BY ONLY <1>3, <1>5, <1>10

(* What replaying a journal puts in the tree *)
LEMMA ReplayedTyped ==
  ASSUME NEW journal \in Seq(Keys \X Values), NEW base \in Nat,
         \A i \in DOMAIN journal: journal[i] = <<log[base + i], base + i>>
  PROVE  Replayed(journal) \in [Keys -> Values]
<1>1. \A k \in Keys: Replayed(journal)[k] = LastIn(log, k, base, base + Len(journal))
  BY ReplayedIs
<1>2. /\ Len(journal) \in Nat /\ DOMAIN journal = 1..Len(journal)
      /\ \A i \in 1..Len(journal): journal[i] \in Keys \X Values
  OBVIOUS
<1>3. 0 \in Values
  BY TableAssumption DEF Values
<1>4. ASSUME NEW k \in Keys PROVE LastIn(log, k, base, base + Len(journal)) \in Values
  <2>1. PICK r: r = LastIn(log, k, base, base + Len(journal))
    OBVIOUS
  <2>2. base + Len(journal) \in Nat
    BY <1>2
  <2>3. r \in Nat /\ (r = 0 \/ r \in (base + 1)..(base + Len(journal)))
    BY <2>1, <2>2, LastIs DEF IsLast
  <2>4. CASE r = 0
    BY ONLY <1>3, <2>1, <2>4
  <2>5. CASE r # 0
    <3>1. r - base \in 1..Len(journal) /\ base + (r - base) = r
      BY ONLY <1>2, <2>3, <2>5, base \in Nat
    <3>2. journal[r - base] = <<log[base + (r - base)], base + (r - base)>>
      BY <1>2, <3>1
    <3>3. journal[r - base][2] \in Values
      BY ONLY <1>2, <3>1
    <3>4. journal[r - base][2] = base + (r - base)
      BY ONLY <3>2
    <3>5. QED BY ONLY <2>1, <3>1, <3>3, <3>4
  <2>6. QED BY ONLY <2>4, <2>5
<1>5. PICK f: f = [k \in Keys |-> Replayed(journal)[k]]
  OBVIOUS
<1>6. Replayed(journal) = f
  BY <1>5 DEF Replayed
<1>7. f \in [Keys -> Values]
  BY ONLY <1>1, <1>4, <1>5
<1>8. QED BY ONLY <1>6, <1>7

(* The files the table opens: those of the checkpoint, now marked as used *)
LEMMA OpenedFilesAre ==
  ASSUME TypeOK, CheckpointInv, NEW g,
         g = [i \in 1..Len(cp.files) |-> [cp.files[i] EXCEPT !.used = TRUE]]
  PROVE  /\ g \in Seq(FileInfo) /\ Len(g) = Len(cp.files) /\ DOMAIN g = 1..Len(cp.files)
         /\ Len(cp.files) \in Nat
         /\ \A i \in 1..Len(cp.files): g[i].used /\ g[i].id = cp.files[i].id
         /\ Holds(contents, log, g) /\ Total(g) = Total(cp.files) /\ Ids(g) = Ids(cp.files)
         /\ Ids(cp.files) \subseteq Nat /\ \A i \in 1..Len(cp.files): cp.files[i].id \in Ids(cp.files)
<1>1. cp \in Checkpoint
  BY DEF TypeOK
<1>2. PICK fs: fs = cp.files
  OBVIOUS
<1>3. fs \in Seq(FileInfo)
  BY ONLY <1>1, <1>2 DEF Checkpoint
<1> DEFINE n == Len(fs)
<1>4. n \in Nat /\ DOMAIN fs = 1..n /\ \A i \in 1..n: fs[i] \in FileInfo
  BY ONLY <1>3
<1>5. g = [i \in 1..n |-> [fs[i] EXCEPT !.used = TRUE]]
  BY <1>2
<1> HIDE DEF n
<1>6. ASSUME NEW x \in FileInfo
      PROVE  /\ [x EXCEPT !.used = TRUE] \in FileInfo /\ x.id \in Nat
             /\ [x EXCEPT !.used = TRUE].id = x.id
             /\ [x EXCEPT !.used = TRUE].n_entries = x.n_entries
             /\ [x EXCEPT !.used = TRUE].first_entry_index = x.first_entry_index
             /\ [x EXCEPT !.used = TRUE].used
  BY ONLY x \in FileInfo DEF FileInfo
<1>7. \A i \in 1..n: g[i] = [fs[i] EXCEPT !.used = TRUE]
  BY ONLY <1>5
<1>8. \A i \in 1..n: /\ g[i] \in FileInfo /\ fs[i].id \in Nat
                     /\ g[i].id = fs[i].id /\ g[i].n_entries = fs[i].n_entries
                     /\ g[i].first_entry_index = fs[i].first_entry_index
                     /\ g[i].used
  <2> SUFFICES ASSUME NEW i \in 1..n
               PROVE  /\ g[i] \in FileInfo /\ fs[i].id \in Nat
                      /\ g[i].id = fs[i].id /\ g[i].n_entries = fs[i].n_entries
                      /\ g[i].first_entry_index = fs[i].first_entry_index
                      /\ g[i].used
    OBVIOUS
  <2>1. PICK x \in FileInfo: x = fs[i]
    BY ONLY <1>4, i \in 1..n
  <2>2. g[i] = [x EXCEPT !.used = TRUE]
    BY ONLY <1>7, <2>1, i \in 1..n
  <2>3. QED BY ONLY <1>6, <2>1, <2>2
<1>9. g \in Seq(FileInfo) /\ Len(g) = n /\ DOMAIN g = 1..n
  <2>1. DOMAIN g = 1..n
    BY ONLY <1>5
  <2>2. g \in [1..n -> FileInfo]
    BY ONLY <1>5, <1>7, <1>8
  <2>3. QED BY ONLY <1>4, <2>1, <2>2
<1>10. PICK c, l: c = contents /\ l = log
  OBVIOUS
<1>11. Holds(c, l, fs)
  BY <1>2, <1>10 DEF CheckpointInv
<1>12. Holds(c, l, g) /\ Total(g) = Total(fs) /\ Ids(g) = Ids(fs)
  <2>1. Len(g) = Len(fs)
    BY <1>9 DEF n
  <2>2. \A i \in 1..Len(fs): /\ g[i].id = fs[i].id /\ g[i].n_entries = fs[i].n_entries
                             /\ g[i].first_entry_index = fs[i].first_entry_index
    BY <1>8 DEF n
  <2>3. QED BY ONLY <1>3, <1>9, <1>11, <2>1, <2>2, HoldsAlike
<1>13. Ids(fs) \subseteq Nat /\ \A i \in 1..n: fs[i].id \in Ids(fs)
  BY ONLY <1>4, <1>8 DEF Ids
<1>14. QED BY ONLY <1>2, <1>4, <1>8, <1>9, <1>10, <1>12, <1>13 DEF n

LEMMA NextIdIs ==
  ASSUME TypeOK, CheckpointInv
  PROVE  NextId \in Nat /\ \A id \in Ids(cp.files): id < NextId
<1>1. cp \in Checkpoint
  BY DEF TypeOK
<1>2. PICK fs: fs = cp.files
  OBVIOUS
<1>3. fs \in Seq(FileInfo)
  BY ONLY <1>1, <1>2 DEF Checkpoint
<1>4. \A i \in DOMAIN fs: fs[i].id \in Nat
  <2>1. \A i \in DOMAIN fs: fs[i] \in FileInfo
    BY ONLY <1>3
  <2>2. QED BY ONLY <2>1 DEF FileInfo
<1>5. PICK S: S = Ids(fs)
  OBVIOUS
<1>6. S \in SUBSET Nat
  BY ONLY <1>4, <1>5 DEF Ids
<1>7. PICK b \in Nat: \A id \in S: id < b
  BY <1>2, <1>5 DEF CheckpointInv
<1>8. \A id \in S: id <= b
  BY ONLY <1>6, <1>7
<1>9. CASE fs = <<>>
  <2>1. S = {}
    BY ONLY <1>5, <1>9 DEF Ids
  <2>2. NextId = 0
    BY ONLY <1>2, <1>9 DEF NextId
  <2>3. QED BY ONLY <1>2, <1>5, <2>1, <2>2
<1>10. CASE fs # <<>>
  <2>1. S # {}
    <3>1. 1 \in DOMAIN fs
      BY ONLY <1>3, <1>10
    <3>2. QED BY ONLY <1>5, <3>1 DEF Ids
  <2>2. NextId = Max(S) + 1
    BY ONLY <1>2, <1>5, <1>10 DEF NextId
  <2>3. Max(S) \in S /\ \A id \in S: id <= Max(S)
    BY ONLY <1>6, <1>8, <2>1, b \in Nat, MaxIs
  <2>4. QED BY ONLY <1>2, <1>5, <1>6, <2>2, <2>3
<1>11. QED BY ONLY <1>9, <1>10

LEMMA OpenKeeps ==
  ASSUME TableInv, Open PROVE TableInv'
<1>1. SUFFICES ASSUME fault' = "none" PROVE Up'
  BY DEF TableInv, Up
<1>2. PICK n: n = Len(cp.files)
  OBVIOUS
<1>3. /\ pc = "down" /\ fault = "none"
      /\ files' = [i \in 1..Len(cp.files) |-> [cp.files[i] EXCEPT !.used = TRUE]]
      /\ tree' = Replayed(cp.journal)
      /\ cp_n_entries' = Len(cp.journal)
      /\ cp_first_entry_index'
           = IF n = 0 THEN 0 ELSE cp.files[n].first_entry_index + cp.files[n].n_entries
      /\ next_id' = NextId
      /\ possible' = {<<cp.files[i].id, cp.files[i + 1].id>>: i \in 1..(n - 1)}
      /\ loaded' = Ids(cp.files)
      /\ Ids(cp.files) \subseteq present
      /\ pc' = "start0"
      /\ UNCHANGED <<contents, present, cp, new_cp, running, n_merge_jobs, defunct_files, cp_path,
                     n_processed, log, stranded, stops>>
  BY <1>1, <1>2 DEF Open, diskVars
<1>4. TypeOK /\ CheckpointInv
  BY <1>3 DEF TableInv
<1>5. running = <<>> /\ defunct_files = <<>> /\ cp_path = "CP" /\ ~stranded
  BY <1>3 DEF TableInv, DownInv
<1>6. /\ files' \in Seq(FileInfo) /\ Len(files') = n /\ DOMAIN files' = 1..n
      /\ n \in Nat
      /\ \A i \in 1..n: files'[i].used /\ files'[i].id = cp.files[i].id
      /\ Holds(contents, log, files') /\ Total(files') = Total(cp.files)
      /\ Ids(files') = Ids(cp.files)
      /\ Ids(cp.files) \subseteq Nat /\ \A i \in 1..n: cp.files[i].id \in Ids(cp.files)
  <2>1. PICK g: g = [i \in 1..Len(cp.files) |-> [cp.files[i] EXCEPT !.used = TRUE]]
    OBVIOUS
  <2>2. /\ g \in Seq(FileInfo) /\ Len(g) = Len(cp.files) /\ DOMAIN g = 1..Len(cp.files)
        /\ Len(cp.files) \in Nat
        /\ \A i \in 1..Len(cp.files): g[i].used /\ g[i].id = cp.files[i].id
        /\ Holds(contents, log, g) /\ Total(g) = Total(cp.files) /\ Ids(g) = Ids(cp.files)
        /\ Ids(cp.files) \subseteq Nat /\ \A i \in 1..Len(cp.files): cp.files[i].id \in Ids(cp.files)
    BY ONLY <1>4, <2>1, OpenedFilesAre
  <2>3. files' = g
    BY ONLY <1>3, <2>1
  <2>4. QED BY ONLY <1>2, <2>2, <2>3
<1>7. next_id' \in Nat /\ \A id \in Ids(cp.files): id < next_id'
  BY ONLY <1>3, <1>4, NextIdIs
<1>8. cp_first_entry_index' = Total(cp.files)
  BY ONLY <1>2, <1>3 DEF Total, End
<1>9. /\ Total(cp.files) \in Nat /\ Len(cp.journal) \in Nat /\ Len(log) \in Nat
      /\ \A k \in Keys: Replayed(cp.journal)[k]
              = LastIn(log, k, Total(cp.files), Total(cp.files) + Len(cp.journal))
  BY ONLY <1>4, RecoveredIs
<1>10. Total(cp.files) + Len(cp.journal) = Len(log)
  BY <1>4, <1>5 DEF CheckpointInv
<1>11. tree' \in [Keys -> Values]
  <2>1. cp.journal \in Seq(Keys \X Values)
    <3>1. cp \in Checkpoint
      BY <1>4 DEF TypeOK
    <3>2. QED BY ONLY <3>1 DEF Checkpoint
  <2>2. PICK base \in Nat: base = Total(cp.files)
    BY <1>9
  <2>3. \A i \in DOMAIN cp.journal: cp.journal[i] = <<log[base + i], base + i>>
    BY <1>4, <2>2 DEF CheckpointInv
  <2>4. PICK journal: journal = cp.journal
    OBVIOUS
  <2>5. Replayed(journal) \in [Keys -> Values]
    BY ONLY <2>1, <2>3, <2>4, base \in Nat, ReplayedTyped
  <2>6. QED BY ONLY <1>3, <2>4, <2>5
<1>12. \A i \in 1..(n - 1): i \in 1..n /\ i + 1 \in 1..n
  BY ONLY <1>6
<1>13. TypeOK'
  <2>1. possible' \subseteq Nat \X Nat
    BY ONLY <1>3, <1>6, <1>12
  <2>2. /\ loaded' \subseteq Nat /\ {cp_first_entry_index', cp_n_entries', next_id'} \subseteq Nat
    BY ONLY <1>3, <1>6, <1>7, <1>8, <1>9
  <2>3. pc' \in Starting
    BY ONLY <1>3 DEF Starting
  <2>4. UNCHANGED <<contents, present, cp, new_cp, running, n_merge_jobs, defunct_files, cp_path,
                    n_processed, log, stranded, stops>>
    BY ONLY <1>3
  <2>5. files' \in Seq(FileInfo)
    BY ONLY <1>6
  <2>6. QED BY ONLY <1>1, <1>4, <1>11, <2>1, <2>2, <2>3, <2>4, <2>5 DEF TypeOK
<1>14. CheckpointInv'
  BY <1>3, <1>4 DEF CheckpointInv
<1>15. FilesInv'
  <2>1. \A k \in Keys: tree'[k] = LastIn(log, k, Total(cp.files), Len(log))
    BY ONLY <1>3, <1>9, <1>10
  <2>2. cp_first_entry_index' + cp_n_entries' = Len(log)
    BY ONLY <1>3, <1>8, <1>10
  <2>3. QED BY <1>3, <1>6, <1>8, <2>1, <2>2 DEF FilesInv
<1>16. IdsInv'
  <2>1. ToSet(defunct_files) = {}
    BY ONLY <1>5 DEF ToSet
  <2>2. QED BY <1>3, <1>6, <1>7, <2>1 DEF IdsInv
<1>17. JobsInv'
  <2>1. running' = <<>>
    BY ONLY <1>3, <1>5
  <2>2. ToSet(running') = {} /\ Injective(running')
    BY ONLY <2>1 DEF ToSet, Injective
  <2>3. QED BY ONLY <2>2 DEF JobsInv
<1>18. PairsInv'
  <2>1. running' = <<>>
    BY ONLY <1>3, <1>5
  <2>2. ToSet(running') = {}
    BY ONLY <2>1 DEF ToSet
  <2>3. \A i \in 1..(n - 1): /\ <<files'[i].id, files'[i + 1].id>> \in possible'
                             /\ files'[i].id = cp.files[i].id
                             /\ files'[i + 1].id = cp.files[i + 1].id
    <3> SUFFICES ASSUME NEW i \in 1..(n - 1)
                 PROVE  /\ <<files'[i].id, files'[i + 1].id>> \in possible'
                        /\ files'[i].id = cp.files[i].id
                        /\ files'[i + 1].id = cp.files[i + 1].id
      OBVIOUS
    <3>1. files'[i].id = cp.files[i].id /\ files'[i + 1].id = cp.files[i + 1].id
      BY ONLY <1>6, <1>12, i \in 1..(n - 1)
    <3>2. <<cp.files[i].id, cp.files[i + 1].id>> \in possible'
      BY ONLY <1>3, i \in 1..(n - 1)
    <3>3. QED BY ONLY <3>1, <3>2
  <2>4. ASSUME NEW q \in possible' PROVE Neighbours(files', q[1], q[2])
    <3>1. PICK i \in 1..(n - 1): q = <<cp.files[i].id, cp.files[i + 1].id>>
      BY ONLY <1>3, <2>4
    <3>2. q[1] = files'[i].id /\ q[2] = files'[i + 1].id
      BY ONLY <2>3, <3>1
    <3>3. QED BY ONLY <1>6, <3>1, <3>2 DEF Neighbours
  <2>5. QED BY ONLY <1>6, <2>2, <2>3, <2>4 DEF PairsInv
<1>19. StepInv'
  BY <1>3, <1>5 DEF StepInv
<1>20. QED BY <1>1, <1>3, <1>13, <1>14, <1>15, <1>16, <1>17, <1>18, <1>19 DEF Up

-----------------------------------------------------------------------------
(* The invariant holds *)

LEMMA InitTableInv == ASSUME Init PROVE TableInv
<1>1. /\ contents = [id \in {} |-> Empty] /\ present = {}
      /\ cp = NoCheckpoint /\ new_cp = NoCheckpoint
      /\ log = <<>> /\ files = <<>> /\ tree = Empty
      /\ cp_path = "CP" /\ cp_first_entry_index = 0 /\ cp_n_entries = 0 /\ next_id = 1
      /\ possible = {} /\ running = <<>> /\ n_merge_jobs = 0 /\ defunct_files = <<>>
      /\ pc = "user" /\ n_processed = 0
      /\ loaded = {} /\ stranded = FALSE /\ stops = 0 /\ fault = "none"
  BY DEF Init
<1>2. /\ NoCheckpoint \in Checkpoint /\ NoCheckpoint.files = <<>> /\ NoCheckpoint.journal = <<>>
  BY DEF NoCheckpoint, Checkpoint
<1>3. /\ 0 \in 0..MaxMergeJobs /\ 0 \in 0..MergeSteps /\ Empty \in [Keys -> Values]
      /\ \A k \in Keys: Empty[k] = 0
  BY TableAssumption DEF Empty, None, Values
<1>4. TypeOK
  <2>1. DOMAIN contents = {}
    BY ONLY <1>1
  <2>2. /\ <<>> \in Seq(Keys) /\ <<>> \in Seq(FileInfo) /\ <<>> \in Seq(MergeJob) /\ <<>> \in Seq(Nat)
    OBVIOUS
  <2>3. /\ DOMAIN contents \subseteq Nat /\ \A id \in DOMAIN contents: contents[id] \in [Keys -> Values]
        /\ present \subseteq DOMAIN contents
    BY ONLY <1>1, <2>1
  <2>4. /\ cp \in Checkpoint /\ new_cp \in Checkpoint /\ log \in Seq(Keys)
        /\ files \in Seq(FileInfo) /\ running \in Seq(MergeJob) /\ defunct_files \in Seq(Nat)
    BY ONLY <1>1, <1>2, <2>2
  <2>5. /\ tree \in [Keys -> Values] /\ n_merge_jobs \in 0..MaxMergeJobs
        /\ n_processed \in 0..MergeSteps
        /\ {cp_first_entry_index, cp_n_entries, next_id, stops} \subseteq Nat
    BY ONLY <1>1, <1>3
  <2>6. /\ possible \subseteq Nat \X Nat /\ loaded \subseteq Nat /\ stranded \in BOOLEAN
        /\ cp_path \in {"CP", "NEW_CP"}
    BY ONLY <1>1
  <2>7. /\ pc \in {"user", "dump", "checkpoint", "rename", "defunct", "work1", "work2", "down"}
                    \cup Starting
        /\ fault \in {"none", "abort", "dangling", "missing", "lost"}
    BY ONLY <1>1
  <2>8. QED BY ONLY <2>3, <2>4, <2>5, <2>6, <2>7 DEF TypeOK
<1>5. /\ Holds(contents, log, <<>>) /\ Total(<<>>) = 0 /\ Ids(<<>>) = {} /\ ToSet(<<>>) = {}
  <2>1. Len(log) = 0 /\ DOMAIN <<>> = {} /\ Len(<<>>) = 0
    BY ONLY <1>1
  <2>2. Total(<<>>) = 0
    BY ONLY <2>1 DEF Total, End
  <2>3. Ids(<<>>) = {} /\ ToSet(<<>>) = {}
    BY DEF Ids, ToSet
  <2>4. Consecutive(<<>>) /\ Distinct(<<>>)
    BY ONLY <2>1 DEF Consecutive, Distinct
  <2>5. QED BY ONLY <2>1, <2>2, <2>3, <2>4 DEF Holds
<1>6. Len(log) = 0 /\ Len(cp.journal) = 0 /\ DOMAIN cp.journal = {} /\ cp.files = <<>>
  BY ONLY <1>1, <1>2
<1>7. CheckpointInv
  <2>1. \E b \in Nat: \A id \in Ids(cp.files): id < b
    BY ONLY <1>5, <1>6
  <2>2. Total(cp.files) + Len(cp.journal) = Len(log) /\ Total(cp.files) + Len(cp.journal) <= Len(log)
    BY ONLY <1>5, <1>6
  <2>3. QED BY ONLY <1>5, <1>6, <2>1, <2>2 DEF CheckpointInv
<1>8. FilesInv
  <2>1. \A k \in Keys: LastIn(log, k, 0, 0) = 0
    BY LastOfNothing DEF None
  <2>2. QED BY ONLY <1>1, <1>3, <1>5, <1>6, <2>1 DEF FilesInv
<1>9. IdsInv
  BY ONLY <1>1, <1>5, <1>6 DEF IdsInv
<1>10. JobsInv
  <2>1. Injective(<<>>)
    BY DEF Injective
  <2>2. QED BY ONLY <1>1, <1>5, <2>1 DEF JobsInv
<1>11. PairsInv
  <2>1. 1..(Len(files) - 1) = {}
    BY ONLY <1>1
  <2>2. QED BY ONLY <1>1, <2>1 DEF PairsInv
<1>12. StepInv
  BY ONLY <1>1 DEF StepInv
<1>13. QED BY ONLY <1>1, <1>4, <1>7, <1>8, <1>9, <1>10, <1>11, <1>12 DEF TableInv

LEMMA UpIs == Up <=> TableInv /\ pc # "down" /\ fault = "none"
BY DEF Up, TableInv

LEMMA MergeFailsKeeps ==
  ASSUME MergeFails PROVE TableInv'
BY DEF MergeFails, TableInv

LEMMA CallKeeps ==
  ASSUME Up, Call PROVE TableInv'
<1>1. CASE DumpTree
  BY <1>1, DumpTreeKeeps DEF Up, TableInv
<1>2. CASE DumpTreeFails
  BY <1>2, DumpTreeFailsKeeps DEF Up, TableInv
<1>3. CASE WriteCheckpoint
  BY <1>3, WriteCheckpointKeeps DEF Up, TableInv
<1>4. CASE WriteCheckpointFails
  BY <1>4, WriteCheckpointFailsKeeps DEF Up, TableInv
<1>5. CASE RenameCheckpoint
  BY <1>5, RenameCheckpointKeeps DEF Up, TableInv
<1>6. CASE RenameCheckpointFails
  BY <1>6, RenameCheckpointFailsKeeps DEF Up, TableInv
<1>7. CASE DeleteDefunct
  BY <1>7, DeleteDefunctKeeps DEF Up, TableInv
<1>8. CASE MergeEntry
  BY <1>8, MergeEntryKeeps DEF Up, TableInv
<1>9. CASE MergeRepeats
  BY <1>9, MergeRepeatsKeeps DEF Up, TableInv
<1>10. CASE FinishMerge
  BY <1>10, FinishMergeKeeps DEF Up, TableInv
<1>11. CASE MergeFails
  BY <1>11, MergeFailsKeeps
<1>12. CASE WorkDone
  BY <1>12, WorkDoneKeeps DEF Up, TableInv
<1>13. CASE \E p \in possible: StartMerge(p)
  BY <1>13, StartMergeKeeps DEF Up, TableInv
<1>14. CASE StartsDone
  BY <1>14, StartsDoneKeeps DEF Up, TableInv
<1>15. QED
  BY <1>1, <1>2, <1>3, <1>4, <1>5, <1>6, <1>7, <1>8, <1>9, <1>10, <1>11, <1>12, <1>13, <1>14
  DEF Call, InsertSteps, MergeWork, Starts

(* Every step asks for a pc other than "down", but for Open. *)
LEMMA NotDown ==
  ASSUME (\E k \in Keys: Insert(k)) \/ Call \/ Stop
  PROVE  pc # "down"
<1>1. "down" \notin Starting
  BY DEF Starting
<1>2. QED BY <1>1 DEF Insert, Call, Stop, InsertSteps, MergeWork, Starts, DumpTree, DumpTreeFails,
       WriteCheckpoint, WriteCheckpointFails, RenameCheckpoint, RenameCheckpointFails, DeleteDefunct,
       MergeEntry, MergeRepeats, FinishMerge, MergeFails, MergeAtEnd, WorkDone, StartMerge, StartsDone

LEMMA NextKeeps ==
  ASSUME TableInv, [Next]_vars PROVE TableInv'
<1>1. CASE \E k \in Keys: Insert(k)
  <2>1. PICK k \in Keys: Insert(k)
    BY <1>1
  <2>2. Up
    BY <1>1, <2>1, NotDown, UpIs DEF Insert
  <2>3. QED BY <2>1, <2>2, InsertKeeps DEF Up, TableInv
<1>2. CASE Call
  BY <1>2, CallKeeps, NotDown, UpIs DEF Call
<1>3. CASE fault = "none" /\ Stop
  BY <1>3, StopKeeps, NotDown, UpIs
<1>4. CASE Open
  BY <1>4, OpenKeeps
<1>5. CASE UNCHANGED vars
  <2>1. UNCHANGED <<contents, present, cp, new_cp, log, files, tree, cp_path,
                    cp_first_entry_index, cp_n_entries, next_id, possible, running, n_merge_jobs,
                    defunct_files, pc, n_processed, loaded, stranded, stops, fault>>
    BY <1>5 DEF vars, diskVars, mergeVars, cpVars, ghostVars
  <2>2. CASE fault # "none"
    BY <2>1, <2>2 DEF TableInv
  <2>3. CASE fault = "none"
    <3>1. TypeOK'
      BY <2>1, <2>3 DEF TableInv, TypeOK
    <3>2. CheckpointInv'
      BY <2>1, <2>3 DEF TableInv, CheckpointInv
    <3>3. DownInv => DownInv'
      BY <2>1 DEF DownInv
    <3>4. (FilesInv => FilesInv') /\ (IdsInv => IdsInv')
      BY <2>1 DEF FilesInv, IdsInv
    <3>5. (JobsInv => JobsInv') /\ (PairsInv => PairsInv') /\ (StepInv => StepInv')
      BY <2>1 DEF JobsInv, JobKept, PairsInv, Merging, StepInv
    <3>6. QED BY <2>1, <2>3, <3>1, <3>2, <3>3, <3>4, <3>5 DEF TableInv
  <2>4. QED BY <2>2, <2>3
<1>6. QED BY <1>1, <1>2, <1>3, <1>4, <1>5 DEF Next

(* As long as the run stays within the model, the invariant of files, merges *)
(* and checkpoint holds after every step of dsk_table_insert, of the merges, *)
(* of a stop and of dsk_table_new. *)
THEOREM TableInvHolds == Spec => []TableInv
<1>1. Init => TableInv
  BY InitTableInv
<1>2. TableInv /\ [Next]_vars => TableInv'
  BY NextKeeps
<1>3. QED BY <1>1, <1>2, PTL DEF Spec

-----------------------------------------------------------------------------
(* What follows from it *)

LEMMA LookupsFollow == ASSUME TableInv PROVE LookupsSeeLatest
<1>1. SUFFICES ASSUME Running, NEW k \in Keys
               PROVE  /\ LookupNewestFirst(tree, files, k) = Inserted(k)
                      /\ LookupChronological(tree, files, k) = Inserted(k)
  BY DEF LookupsSeeLatest
<1>2. Up
  BY <1>1, UpIs DEF Running
<1>3. /\ files \in Seq(FileInfo) /\ log \in Seq(Keys) /\ Len(log) \in Nat
      /\ Holds(contents, log, files)
  BY <1>2, FilesAreTyped DEF Up, TypeOK, FilesInv
<1>4. PICK b, fs, t: b = Len(log) /\ fs = files /\ t = tree
  OBVIOUS
<1>5. t[k] = LastIn(log, k, Total(fs), b)
  BY <1>2, <1>4 DEF Up, FilesInv
<1>6. Total(fs) <= b
  BY <1>3, <1>4 DEF Holds
<1>7. /\ LookupNewestFirst(t, fs, k) = LastIn(log, k, 0, b)
      /\ LookupChronological(t, fs, k) = LastIn(log, k, 0, b)
  <2>1. b \in Nat /\ fs \in Seq(FileInfo) /\ log \in Seq(Keys) /\ Holds(contents, log, fs)
    BY ONLY <1>3, <1>4
  <2>2. QED BY ONLY <1>5, <1>6, <2>1, k \in Keys, LookupIs
<1>8. Inserted(k) = LastIn(log, k, 0, b)
  BY <1>4, LastOfIs DEF Inserted
<1>9. QED BY ONLY <1>4, <1>7, <1>8

LEMMA RestartFollows == ASSUME TableInv PROVE RestartLosesNothing
<1>1. ASSUME fault = "none", ~stranded, NEW k \in Keys PROVE Checkpointed(k) = Inserted(k)
  <2>1. TypeOK /\ CheckpointInv
    BY <1>1 DEF TableInv
  <2>2. Total(cp.files) + Len(cp.journal) = Len(log)
    BY <1>1, <2>1 DEF CheckpointInv
  <2>3. Checkpointed(k) = LastIn(log, k, 0, Total(cp.files) + Len(cp.journal))
    BY ONLY <2>1, k \in Keys, RecoveredIs
  <2>4. Inserted(k) = LastIn(log, k, 0, Len(log))
    BY LastOfIs DEF Inserted
  <2>5. QED BY ONLY <2>2, <2>3, <2>4
<1>2. ASSUME Running PROVE (loaded \cup Ids(files)) \cap Ids(cp.files) \subseteq present
  BY <1>2, UpIs DEF Running, Up, IdsInv, FilesInv
<1>3. QED BY <1>1, <1>2 DEF RestartLosesNothing, Recovered

LEMMA FilesFollow == ASSUME TableInv PROVE FilesHoldTheirEntries
<1> SUFFICES ASSUME Running
             PROVE  /\ TypeOK /\ Ids(files) \subseteq present
                    /\ \A id \in Ids(files) \cup Ids(cp.files) \cup {m.out: m \in ToSet(running)}:
                         id < next_id
                    /\ \A i \in DOMAIN files:
                         files[i].first_entry_index =
                           IF i = 1 THEN 0 ELSE files[i - 1].first_entry_index + files[i - 1].n_entries
                    /\ cp_first_entry_index =
                         IF files = <<>> THEN 0
                         ELSE Last(files).first_entry_index + Last(files).n_entries
                    /\ cp_first_entry_index + cp_n_entries = Len(log)
                    /\ \A i \in DOMAIN files: \A k \in Keys:
                         contents[files[i].id][k] =
                           LastOf(k, files[i].first_entry_index,
                                  files[i].first_entry_index + files[i].n_entries)
  BY DEF FilesHoldTheirEntries
<1>1. Up
  BY UpIs DEF Running
<1>2. TypeOK /\ Ids(files) \subseteq present /\ cp_first_entry_index + cp_n_entries = Len(log)
  BY <1>1 DEF Up, FilesInv
<1>3. \A id \in Ids(files) \cup Ids(cp.files) \cup {m.out: m \in ToSet(running)}: id < next_id
  BY <1>1, JobIs DEF Up, IdsInv
<1>4. /\ Len(files) \in Nat /\ DOMAIN files = 1..Len(files)
      /\ files = <<>> <=> Len(files) = 0
  BY <1>1, FilesAreTyped DEF Up, TypeOK
<1>5. Holds(contents, log, files) /\ cp_first_entry_index = Total(files)
  BY <1>1 DEF Up, FilesInv
<1>6. ASSUME NEW i \in DOMAIN files
      PROVE  /\ End(files, i) = files[i].first_entry_index + files[i].n_entries
             /\ files[i].first_entry_index = End(files, i - 1)
             /\ End(files, i - 1) = IF i = 1 THEN 0
                                    ELSE files[i - 1].first_entry_index + files[i - 1].n_entries
  <2>1. i # 0 /\ (i - 1 = 0 <=> i = 1)
    BY ONLY <1>4, i \in DOMAIN files
  <2>2. files[i].first_entry_index = End(files, i - 1)
    BY ONLY <1>5, i \in DOMAIN files DEF Holds, Consecutive
  <2>3. QED BY ONLY <2>1, <2>2 DEF End
<1>7. Total(files) = IF files = <<>> THEN 0
                     ELSE Last(files).first_entry_index + Last(files).n_entries
  BY ONLY <1>4 DEF Total, End, Last
<1>8. ASSUME NEW i \in DOMAIN files, NEW k \in Keys
      PROVE  contents[files[i].id][k] =
               LastOf(k, files[i].first_entry_index, files[i].first_entry_index + files[i].n_entries)
  <2>1. contents[files[i].id][k] = LastIn(log, k, End(files, i - 1), End(files, i))
    BY ONLY <1>5, i \in DOMAIN files, k \in Keys DEF Holds
  <2>2. LastOf(k, End(files, i - 1), End(files, i)) = LastIn(log, k, End(files, i - 1), End(files, i))
    BY LastOfIs
  <2>3. QED BY ONLY <1>6, <2>1, <2>2, i \in DOMAIN files
<1>9. \A i \in DOMAIN files:
        files[i].first_entry_index =
          IF i = 1 THEN 0 ELSE files[i - 1].first_entry_index + files[i - 1].n_entries
  BY ONLY <1>6
<1>10. cp_first_entry_index =
         IF files = <<>> THEN 0 ELSE Last(files).first_entry_index + Last(files).n_entries
  BY ONLY <1>5, <1>7
<1>11. QED BY <1>2, <1>3, <1>8, <1>9, <1>10

LEMMA PairsFollow == ASSUME TableInv PROVE NoPairForgotten
BY UpIs DEF NoPairForgotten, Running, Up, PairsInv

(* In dsk_table_lookup, in either order, a lookup between two calls finds *)
(* the last value inserted under its key: for any keys, flush period, *)
(* merge limits and number of restarts. *)
THEOREM LookupsHold == Spec => []LookupsSeeLatest
<1>1. TableInv => LookupsSeeLatest
  BY LookupsFollow
<1>2. QED BY <1>1, TableInvHolds, PTL

(* A process that ends between any two steps of dsk_table_insert has lost *)
(* nothing when dsk_table_new replays the journal, if the last rename of *)
(* NEW_CP succeeded and the files that CP names are there.  One that is *)
(* not was replaced in the table's list by a merge since CP was written, *)
(* and was not named by CP when the table was opened. *)
THEOREM RestartHolds == Spec => []RestartLosesNothing
<1>1. TableInv => RestartLosesNothing
  BY RestartFollows
<1>2. QED BY <1>1, TableInvHolds, PTL

(* However often run_first_merge_job joined them, the files and the journal *)
(* divide the insertions without gap or overlap, and each file exists and *)
(* holds the last value of every key in its range. *)
THEOREM FilesHold == Spec => []FilesHoldTheirEntries
<1>1. TableInv => FilesHoldTheirEntries
  BY FilesFollow
<1>2. QED BY <1>1, TableInvHolds, PTL

(* create_possible_merge is called for every pair of neighbours that *)
(* DumpTree, a finished merge or dsk_table_new makes: none is forgotten. *)
THEOREM PairsHold == Spec => []NoPairForgotten
<1>1. TableInv => NoPairForgotten
  BY PairsFollow
<1>2. QED BY <1>1, TableInvHolds, PTL
=============================================================================
