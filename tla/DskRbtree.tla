------------------------------ MODULE DskRbtree ------------------------------
(***************************************************************************)
(* The intrusive red-black tree of dsk/dsk-rbtree-macros.h, as the         *)
(* dispatch uses it for its timers.  A tree is a value: the top pointer    *)
(* and the child, parent and colour fields of every node.  The macros get  *)
(* the mirror image of an algorithm by swapping their `left' and `right'   *)
(* arguments; here the same is done with a side.  A counted tree (the      *)
(* RBCTREE macros) keeps with each node the size of its subtree; rotations *)
(* carry the counts along, which in a plain tree stay what they were made. *)
(*                                                                         *)
(* Nodes are addresses.  The comparator is TIMERS_COMPARE of               *)
(* dsk-dispatch.c: by key, and by address between nodes of equal key.      *)
(***************************************************************************)
EXTENDS Naturals, FiniteSets

CONSTANT Nodes          \* the addresses a node can have

ASSUME NodesAssumption == Nodes \subseteq Nat \ {0} /\ IsFiniteSet(Nodes)

NULL == 0
Sides == {"left", "right"}
Mirror(s) == IF s = "left" THEN "right" ELSE "left"

Trees == [top: Nodes \cup {NULL},
          child: [Sides -> [Nodes -> Nodes \cup {NULL}]],
          parent: [Nodes -> Nodes \cup {NULL}],
          is_red: [Nodes -> BOOLEAN],
          count: [Nodes -> 0..Cardinality(Nodes)]]

EmptyTree == [top |-> NULL,
              child |-> [s \in Sides |-> [n \in Nodes |-> NULL]],
              parent |-> [n \in Nodes |-> NULL],
              is_red |-> [n \in Nodes |-> FALSE],
              count |-> [n \in Nodes |-> 0]]

(* A loop of the macros: Step, which is the identity once the loop's       *)
(* condition is false, iterated as often as any loop of this file can run. *)
(* At[i] holds the one state after i turns. *)
Loop(Step(_), init) ==
  LET At[i \in 0..Cardinality(Nodes)] ==
        IF i = 0 THEN {init} ELSE {Step(st): st \in At[i - 1]}
  IN  CHOOSE st \in At[Cardinality(Nodes)]: TRUE

(* Pointer assignments. *)
SetChild(t, n, s, c) == [t EXCEPT !.child[s][n] = c]
SetParent(t, n, p)   == IF n = NULL THEN t ELSE [t EXCEPT !.parent[n] = p]
SetIsRed(t, n, red)  == IF n = NULL THEN t ELSE [t EXCEPT !.is_red[n] = red]

IsRed(t, n)  == n # NULL /\ t.is_red[n]
SideOf(t, n) == IF t.child["left"][t.parent[n]] = n THEN "left" ELSE "right"

(* Make whatever points down to n, its parent or top, point to c. *)
Replace(t, n, c) == IF t.parent[n] = NULL
                    THEN [t EXCEPT !.top = c]
                    ELSE SetChild(t, t.parent[n], SideOf(t, n), c)

Before(key, a, b) == key[a] < key[b] \/ (key[a] = key[b] /\ a < b)

(* The extreme node of the subtree of n on side s. *)
Extreme(t, n, s) ==
  Loop(LAMBDA at: IF t.child[s][at] = NULL THEN at ELSE t.child[s][at], n)

RbFirst(t) == IF t.top = NULL THEN NULL ELSE Extreme(t, t.top, "left")
RbLast(t) == IF t.top = NULL THEN NULL ELSE Extreme(t, t.top, "right")

RbNext(t, n) ==
  IF t.child["right"][n] # NULL
  THEN Extreme(t, t.child["right"][n], "left")
  ELSE LET Climb(st) == IF st.par # NULL /\ st.at = t.child["right"][st.par]
                        THEN [at |-> st.par, par |-> t.parent[st.par]]
                        ELSE st
       IN  Loop(Climb, [at |-> n, par |-> t.parent[n]]).par

Count(t, n) == IF n = NULL THEN 0 ELSE t.count[n]

(* Mutant: the subtree that changes sides keeps its parent. *)
RotateKeepsParent(t, x, s) ==
  LET y  == t.child[Mirror(s)][x]
      t1 == Replace(SetChild(t, x, Mirror(s), t.child[s][y]), x, y)
  IN  SetParent(SetChild(SetParent(t1, y, t.parent[x]), y, s, x), x, y)

(* y, risen over x, counts what x did; x counts no longer y and its side. *)
CarryCounts(t, x, y, outer) ==
  IF t.count[x] = 0 THEN t
  ELSE [t EXCEPT !.count[x] = @ - Count(t, outer) - 1, !.count[y] = t.count[x]]

(* Rotate x down to side s; its child on the other side takes its place. *)
Rotate(t, x, s) ==
  LET y  == t.child[Mirror(s)][x]
      b  == t.child[s][y]
      t1 == SetParent(SetChild(t, x, Mirror(s), b), b, x)
      t2 == Replace(t1, x, y)
      t3 == SetParent(t2, y, t.parent[x])
  IN  CarryCounts(SetParent(SetChild(t3, y, s, x), x, y), x, y, t.child[Mirror(s)][y])

-----------------------------------------------------------------------------
(* DSK_RBTREE_INSERT *)

(* Where the descent from the top ends: the node the new one hangs from    *)
(* and the side.                                                           *)
InsertPoint(t, key, n) ==
  LET Descend(st) ==
        IF st.at = NULL THEN st
        ELSE LET s == IF Before(key, n, st.at) THEN "left" ELSE "right"
             IN  [at |-> t.child[s][st.at], last |-> st.at, side |-> s]
  IN  Loop(Descend, [at |-> t.top, last |-> NULL, side |-> "right"])

(* A node on the inner side is first rotated to the outer side. *)
Outward(t, p, s, at) ==
  IF at = t.child[Mirror(s)][p] THEN [tree |-> Rotate(t, p, s), at |-> p, p |-> at]
  ELSE [tree |-> t, at |-> at, p |-> p]

(* The red parent rises over the grandparent. *)
Raise(o, g, s) ==
  [at |-> o.at,
   tree |-> Rotate(SetIsRed(SetIsRed(o.tree, o.p, FALSE), g, TRUE), g, Mirror(s))]

FixRedParent(t, at, p, g, s) ==
  LET uncle == t.child[Mirror(s)][g]
  IN  IF IsRed(t, uncle)
      THEN [at |-> g,
            tree |-> SetIsRed(SetIsRed(SetIsRed(t, p, FALSE), uncle, FALSE), g, TRUE)]
      ELSE Raise(Outward(t, p, s, at), g, s)

InsertFixup(st) ==
  LET p == st.tree.parent[st.at]
  IN  IF st.tree.top = st.at \/ ~IsRed(st.tree, p) THEN st
      ELSE FixRedParent(st.tree, st.at, p, st.tree.parent[p], SideOf(st.tree, p))

BlackTop(t) == SetIsRed(t, t.top, FALSE)

(* n, with no children, hangs from the insertion point and is red. *)
Hang(t, n, pt) ==
  LET bare == [t EXCEPT !.child["left"][n] = NULL, !.child["right"][n] = NULL,
                        !.parent[n] = pt.last]
  IN  SetIsRed(IF pt.last = NULL THEN [bare EXCEPT !.top = n]
               ELSE SetChild(bare, pt.last, pt.side, n), n, TRUE)

Restored(t, n) == BlackTop(Loop(InsertFixup, [tree |-> t, at |-> n]).tree)

RbInsert(t, key, n) == Restored(Hang(t, n, InsertPoint(t, key, n)), n)

(* n hangs from a node the caller has found. *)
RbInsertAt(t, last, side, n) == Restored(Hang(t, n, [last |-> last, side |-> side]), n)

(* n and all above it count one node more. *)
CountIn(t, n) ==
  LET Up(st) == IF st.at = NULL THEN st
                ELSE [at |-> st.tree.parent[st.at], tree |-> [st.tree EXCEPT !.count[st.at] = @ + 1]]
  IN  Loop(Up, [at |-> n, tree |-> [t EXCEPT !.count[n] = 0]]).tree

CountedInsert(t, key, n) == Restored(CountIn(Hang(t, n, InsertPoint(t, key, n)), n), n)

-----------------------------------------------------------------------------
(* DSK_RBTREE_REMOVE *)

Sibling(t, par, s) == t.child[Mirror(s)][par]

(* A red sibling is rotated above, so that the new one is black. *)
BlackSibling(t, par, s, w) ==
  IF IsRed(t, w) THEN Rotate(SetIsRed(SetIsRed(t, w, FALSE), par, TRUE), par, s) ELSE t

(* The far child of the black sibling w is made the red one. *)
RedFarChild(t, w, s) ==
  IF IsRed(t, t.child[Mirror(s)][w]) THEN t
  ELSE Rotate(SetIsRed(SetIsRed(t, t.child[s][w], FALSE), w, TRUE), w, Mirror(s))

(* The sibling rises to the parent's place and takes its colour. *)
RaiseSibling(t, par, s, w) ==
  Rotate(SetIsRed(SetIsRed(SetIsRed(t, w, t.is_red[par]), par, FALSE),
                  t.child[Mirror(s)][w], FALSE), par, s)

AtTop(t) == [x |-> t.top, par |-> NULL, tree |-> t]

AddBlack(t, par, s, w) ==
  IF \A side \in Sides: ~IsRed(t, t.child[side][w])
  THEN [x |-> par, par |-> t.parent[par], tree |-> SetIsRed(t, w, TRUE)]
  ELSE LET Rise(u) == RaiseSibling(u, par, s, Sibling(u, par, s))
       IN  AtTop(Rise(RedFarChild(t, w, s)))

(* One turn of the delete fixup: x, possibly NULL, is short of one black   *)
(* node; par is its parent.                                                *)
RemoveFixup(st) ==
  LET s == IF st.x = st.tree.child["left"][st.par] THEN "left" ELSE "right"
      Fix(t) == AddBlack(t, st.par, s, Sibling(t, st.par, s))
  IN  IF st.x = st.tree.top \/ IsRed(st.tree, st.x) THEN st
      ELSE Fix(BlackSibling(st.tree, st.par, s, Sibling(st.tree, st.par, s)))

(* y, already unlinked, takes the place of z. *)
TakePlace(t, z, y) ==
  LET Adopt(u, s) == SetParent(SetChild(u, y, s, t.child[s][z]), t.child[s][z], y)
  IN  [Adopt(Adopt(Replace(SetIsRed(t, y, t.is_red[z]), z, y), "left"), "right")
         EXCEPT !.parent[y] = t.parent[z]]

(* From n upwards, what the children count and one. *)
FixCountAndUp(t, n) ==
  LET Fix(u, at) == [u EXCEPT !.count[at] = Count(u, u.child["left"][at])
                                            + Count(u, u.child["right"][at]) + 1]
      Up(st) == IF st.at = NULL THEN st
                ELSE [at |-> st.tree.parent[st.at], tree |-> Fix(st.tree, st.at)]
  IN  Loop(Up, [at |-> n, tree |-> t]).tree

Isolate(t, z) == [t EXCEPT !.child["left"][z] = NULL, !.child["right"][z] = NULL,
                           !.parent[z] = NULL, !.is_red[z] = FALSE, !.count[z] = 0]

(* y is unlinked and x, its only child or NULL, hangs in its place; Recount *)
(* is what a counted tree does at the place y has left, then at its new one. *)
Splice(t, z, y, x, Recount(_, _)) ==
  LET unlinked == Recount(SetParent(Replace(t, y, x), x, t.parent[y]), t.parent[y])
      moved == IF y = z THEN unlinked ELSE Recount(TakePlace(unlinked, z, y), y)
      par == IF y # z /\ t.parent[y] = z THEN y ELSE t.parent[y]
      Blacken(st) == SetIsRed(st.tree, st.x, FALSE)
  IN  Isolate(IF t.is_red[y] THEN moved
              ELSE Blacken(Loop(RemoveFixup, [tree |-> moved, x |-> x, par |-> par])), z)

SplicedOut(t, z) ==
  IF t.child["left"][z] = NULL \/ t.child["right"][z] = NULL THEN z ELSE RbNext(t, z)
OnlyChild(t, y) == IF t.child["left"][y] # NULL THEN t.child["left"][y] ELSE t.child["right"][y]

RbRemove(t, z) ==
  LET y == SplicedOut(t, z)
  IN  Splice(t, z, y, OnlyChild(t, y), LAMBDA u, n: u)

CountedRemove(t, z) ==
  LET y == SplicedOut(t, z)
  IN  Splice(t, z, y, OnlyChild(t, y), FixCountAndUp)

(* DSK_RBTREE_REPLACE_NODE: n takes the place of old, which keeps its links. *)
RbReplaceNode(t, old, n) == TakePlace(t, old, n)

-----------------------------------------------------------------------------
(* Looking up *)

(* The descent for k: to the left when ToLeft says so of the node at hand, *)
(* which is kept as the answer when Fits does.                             *)
Search(t, ToLeft(_), Fits(_)) ==
  LET Descend(st) ==
        IF st.at = NULL THEN st
        ELSE [at |-> t.child[IF ToLeft(st.at) THEN "left" ELSE "right"][st.at],
              found |-> IF Fits(st.at) THEN st.at ELSE st.found]
  IN  Loop(Descend, [at |-> t.top, found |-> NULL]).found

RbLookup(t, key, k) ==
  LET Descend(at) == IF at = NULL \/ key[at] = k THEN at
                     ELSE t.child[IF k < key[at] THEN "left" ELSE "right"][at]
  IN  Loop(Descend, t.top)
RbLookupOrNext(t, key, k) ==
  Search(t, LAMBDA n: k <= key[n], LAMBDA n: k <= key[n])
RbLookupOrPrev(t, key, k) ==
  Search(t, LAMBDA n: k < key[n], LAMBDA n: key[n] <= k)

(* The node with index others before it, and back. *)
GetByIndexUnchecked(t, index) ==
  LET Descend(st) ==
        LET before == Count(t, t.child["left"][st.at])
        IN  IF st.index = before THEN st
            ELSE IF st.index < before THEN [st EXCEPT !.at = t.child["left"][st.at]]
            ELSE [at |-> t.child["right"][st.at], index |-> st.index - before - 1]
  IN  Loop(Descend, [at |-> t.top, index |-> index]).at

GetByIndex(t, index) ==
  IF t.top = NULL \/ index >= Count(t, t.top) THEN NULL ELSE GetByIndexUnchecked(t, index)

GetNodeIndex(t, n) ==
  LET Passed(at) == IF SideOf(t, at) = "left" THEN 0
                    ELSE Count(t, t.child["left"][t.parent[at]]) + 1
      Climb(st) == IF t.parent[st.at] = NULL THEN st
                   ELSE [at |-> t.parent[st.at], index |-> st.index + Passed(st.at)]
  IN  Loop(Climb, [at |-> n, index |-> Count(t, t.child["left"][n])]).index

-----------------------------------------------------------------------------
(* What a tree holds and what makes it well formed. *)

(* The nodes hanging from the top. *)
Members(t) ==
  IF t.top = NULL THEN {}
  ELSE Loop(LAMBDA S: S \cup {m \in Nodes: \E n \in S, s \in Sides: t.child[s][n] = m}, {t.top})

(* The ancestors of n, n included. *)
Ancestors(t, n) ==
  Loop(LAMBDA S: S \cup ({t.parent[m] : m \in S} \ {NULL}), {n})

Counted(t) == \A n \in Members(t): t.count[n] = Cardinality({m \in Members(t): n \in Ancestors(t, m)})

Linked(t) == \A n \in Members(t):
                /\ n = t.top <=> t.parent[n] = NULL
                /\ \A s \in Sides: t.child[s][n] # NULL => t.parent[t.child[s][n]] = n

Ordered(t, key) == \A n \in Members(t): \A s \in Sides: \A m \in Members(t):
                      t.child[s][n] # NULL /\ t.child[s][n] \in Ancestors(t, m)
                        => IF s = "left" THEN Before(key, m, n) ELSE Before(key, n, m)

BlackHeight(t, n) == Cardinality({m \in Ancestors(t, n): ~t.is_red[m]})

Balanced(t) ==
  /\ ~IsRed(t, t.top)
  /\ \A n \in Members(t): \A s \in Sides: IsRed(t, n) => ~IsRed(t, t.child[s][n])
  /\ \A m, n \in {k \in Members(t): \E s \in Sides: t.child[s][k] = NULL}:
        BlackHeight(t, m) = BlackHeight(t, n)
=============================================================================
