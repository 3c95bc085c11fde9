----------------------------- MODULE MCDskRbtree -----------------------------
(***************************************************************************)
(* Every sequence of insertions and removals on a tree of dsk-rbtree-      *)
(* macros.h over a few nodes, compared with the set it stands for.         *)
(***************************************************************************)
EXTENDS DskRbtree

(* Two neighbours have the same key each; keys fall where addresses rise.  *)
KeyOf(n) == (Cardinality(Nodes) + 2 - n) \div 2
Keys == {KeyOf(n) : n \in Nodes}

VARIABLES tree,         \* the tree
          held,         \* history: the nodes inserted and not removed
          key,          \* the key of each held node, 0 for the others
          counted       \* it is an RBCTREE

vars == <<tree, held, key, counted>>

Init ==
  /\ tree = EmptyTree /\ held = {} /\ key = [n \in Nodes |-> 0]
  /\ counted \in BOOLEAN

InsertNode(n) ==
  /\ n \notin held
  /\ key' = [key EXCEPT ![n] = KeyOf(n)]
  /\ tree' = IF counted THEN CountedInsert(tree, key', n) ELSE RbInsert(tree, key', n)
  /\ held' = held \cup {n}
  /\ UNCHANGED counted

(* The caller has found where the new node belongs: behind the last one. *)
AppendNode(n) ==
  /\ ~counted /\ n \notin held /\ held # {}
  /\ key' = [key EXCEPT ![n] = KeyOf(n)]
  /\ \A m \in held: Before(key', m, n)
  /\ tree' = RbInsertAt(tree, RbLast(tree), "right", n)
  /\ held' = held \cup {n}
  /\ UNCHANGED counted

RemoveNode(n) ==
  /\ n \in held
  /\ tree' = IF counted THEN CountedRemove(tree, n) ELSE RbRemove(tree, n)
  /\ held' = held \ {n}
  /\ key' = [key EXCEPT ![n] = 0]
  /\ UNCHANGED counted

(* One node for another that has the same neighbours. *)
ReplaceNode(old, n) ==
  /\ ~counted /\ old \in held /\ n \notin held
  /\ key' = [key EXCEPT ![n] = KeyOf(n), ![old] = 0]
  /\ \A m \in held \ {old}: Before(key, m, old) <=> Before(key', m, n)
  /\ tree' = Isolate(RbReplaceNode(tree, old, n), old)
  /\ held' = (held \ {old}) \cup {n}
  /\ UNCHANGED counted

Next == \E n \in Nodes:
          \/ InsertNode(n) \/ AppendNode(n) \/ RemoveNode(n)
          \/ \E m \in Nodes: ReplaceNode(m, n)

Spec == Init /\ [][Next]_vars

TypeOK == tree \in Trees /\ held \subseteq Nodes /\ key \in [Nodes -> Keys \cup {0}]

(* FIRST and NEXT visit the held nodes in key order, each once.            *)
WalkIsSorted ==
  /\ held # {} => RbFirst(tree) \in held
  /\ \A n \in held: ~Before(key, n, RbFirst(tree))
  /\ \A n \in held:
       LET later == {m \in held: Before(key, n, m)}
       IN  IF later = {} THEN RbNext(tree, n) = NULL
           ELSE /\ RbNext(tree, n) \in later
                /\ \A m \in later: ~Before(key, m, RbNext(tree, n))

(* The searches for a key find a node that has it, or the one next to it.  *)
LookupsFind ==
  \A k \in Keys \cup {0}:
    LET below == {n \in held: key[n] <= k}
        above == {n \in held: key[n] >= k}
        prev == RbLookupOrPrev(tree, key, k)
        next == RbLookupOrNext(tree, key, k)
    IN  /\ IF below = {} THEN prev = NULL ELSE prev \in below /\ \A n \in below: ~Before(key, prev, n)
        /\ IF above = {} THEN next = NULL ELSE next \in above /\ \A n \in above: ~Before(key, n, next)
        /\ IF below \cap above = {} THEN RbLookup(tree, key, k) = NULL
           ELSE RbLookup(tree, key, k) \in below \cap above

(* In a counted tree, a node's index is the number of nodes before it.     *)
IndexesAgree ==
  counted => /\ Counted(tree)
             /\ \A i \in 0..Cardinality(Nodes):
                  LET n == GetByIndex(tree, i)
                  IN  IF i >= Cardinality(held) THEN n = NULL
                      ELSE n \in held /\ GetNodeIndex(tree, n) = i
                           /\ Cardinality({m \in held: Before(key, m, n)}) = i

(* The tree holds exactly the nodes inserted and not removed, its parent   *)
(* and child pointers agree, and an in-order walk is sorted: no rotation   *)
(* of the insert or delete fixup loses or misplaces a node.                *)
HoldsTheSet ==
  Members(tree) = held /\ Linked(tree) /\ Ordered(tree, key) /\ WalkIsSorted
  /\ LookupsFind /\ IndexesAgree

(* No red node has a red child and every path to a leaf has the same       *)
(* number of black nodes, after any sequence of fixups.                    *)
StaysBalanced == Balanced(tree)

=============================================================================
