------------------------------ MODULE DskTimers ------------------------------
(***************************************************************************)
(* The timers and idle functions of a DskDispatch (dsk/dsk-dispatch.c),    *)
(* and the public members a main loop reads before it sleeps: has_idle,    *)
(* has_timeout and the time of the timeout.                                *)
(*                                                                         *)
(* A timer is its address, a node of the red-black tree of DskRbtree.      *)
(* Times are single numbers: (secs, usecs) pairs compare like them.  The   *)
(* recycling lists are abstracted: a new timer may take any address that   *)
(* is not in use.  An idle function is the identity of its handle.         *)
(***************************************************************************)
EXTENDS DskRbtree, Sequences, SequencesExt

CONSTANTS Idles,        \* handles of idle functions
          MaxTime       \* bound: the clock and every timeout are at most this

ASSUME MaxTimeAssumption == MaxTime \in Nat

Times == 0..MaxTime

VARIABLES
  timer_tree,     \* the tree of timers waiting
  timeout,        \* timeout_secs, timeout_usecs of each timer
  func_set,       \* whether timer->func is non-NULL
  expired,        \* the list of due timers dsk_dispatch_dispatch works on
  has_timeout, base_timeout,    \* public members of DskDispatch
  idles,          \* first_idle .. last_idle
  has_idle        \* public member of DskDispatch

timerVars == <<timer_tree, timeout, func_set, expired, has_timeout, base_timeout>>
idleVars  == <<idles, has_idle>>

TimerInit ==
  /\ timer_tree = EmptyTree
  /\ timeout = [t \in Nodes |-> 0]
  /\ func_set = [t \in Nodes |-> FALSE]
  /\ expired = <<>>
  /\ has_timeout = FALSE /\ base_timeout = 0
  /\ idles = <<>> /\ has_idle = FALSE

TimerTypeOK ==
  /\ timer_tree \in Trees
  /\ timeout \in [Nodes -> Times]
  /\ func_set \in [Nodes -> BOOLEAN]
  /\ expired \in Seq(Nodes)
  /\ has_timeout \in BOOLEAN /\ base_timeout \in Times
  /\ idles \in Seq(Idles) /\ has_idle \in BOOLEAN

InTree    == Members(timer_tree)
IsExpired(t) == t \in ToSet(expired)

(* The walk dsk_dispatch_add_timer makes to see whether the new timer is   *)
(* the first: up from it, until some node is a right child.  The timer is  *)
(* taken for the first when the walk passes the top.                       *)
OnLeftSpine(t, n) ==
  \A m \in Ancestors(t, n): t.parent[m] # NULL => SideOf(t, m) = "left"

(* dsk_dispatch_add_timer, the new timer being at address t *)
AddTimer(t, when) ==
  /\ timeout' = [timeout EXCEPT ![t] = when]
  /\ func_set' = [func_set EXCEPT ![t] = TRUE]
  /\ timer_tree' = RbInsert(timer_tree, timeout', t)
  /\ IF OnLeftSpine(timer_tree', t)
     THEN has_timeout' = TRUE /\ base_timeout' = when
     ELSE UNCHANGED <<has_timeout, base_timeout>>
  /\ UNCHANGED expired

(* dsk_dispatch_adjust_timer of a timer in the tree.  It looks at the idle *)
(* functions, not at the timers, to decide whether there is a first.       *)
AdjustTimer(t, when) ==
  LET was_first == idles = <<>> /\ RbFirst(timer_tree) = t
      first == RbFirst(timer_tree')
  IN  /\ timeout' = [timeout EXCEPT ![t] = when]
      /\ timer_tree' = RbInsert(RbRemove(timer_tree, t), timeout', t)
      /\ base_timeout' = IF idles = <<>> /\ (was_first \/ first = t)
                         THEN timeout'[first] ELSE base_timeout
      /\ UNCHANGED <<func_set, expired, has_timeout>>

(* dsk_dispatch_remove_timer of a timer that is due and not yet run (or is *)
(* running): it stays on the list and is passed over. *)
RemoveExpiredTimer(t) ==
  /\ func_set' = [func_set EXCEPT ![t] = FALSE]
  /\ UNCHANGED <<timer_tree, timeout, expired, has_timeout, base_timeout>>

(* Mutant: removing the first timer leaves the loop without a timeout. *)
RemoveWaitingTimerForgets(t) ==
  /\ timer_tree' = RbRemove(timer_tree, t)
  /\ has_timeout' = (has_timeout /\ base_timeout # timeout[t])
  /\ func_set' = [func_set EXCEPT ![t] = FALSE]
  /\ timeout' = [timeout EXCEPT ![t] = 0]
  /\ UNCHANGED <<expired, base_timeout>>

(* dsk_dispatch_remove_timer of a timer in the tree *)
RemoveWaitingTimer(t) ==
  LET may_be_first == base_timeout = timeout[t]
  IN  /\ timer_tree' = RbRemove(timer_tree, t)
      /\ has_timeout' = (has_timeout /\ ~(may_be_first /\ timer_tree'.top = NULL))
      /\ base_timeout' = IF may_be_first /\ timer_tree'.top # NULL
                         THEN timeout[RbFirst(timer_tree')] ELSE base_timeout
      /\ func_set' = [func_set EXCEPT ![t] = FALSE]
      /\ timeout' = [timeout EXCEPT ![t] = 0]
      /\ UNCHANGED expired

(* The first loop of dsk_dispatch_dispatch over the timers: every timer    *)
(* due at `now' moves to the front of the list of expired ones.            *)
ExpireTimers(now) ==
  LET Expire(st, first) == IF first # NULL /\ timeout[first] <= now
                           THEN [tree |-> RbRemove(st.tree, first),
                                 list |-> <<first>> \o st.list]
                           ELSE st
      Step(st) == Expire(st, RbFirst(st.tree))
      Settle(end) == timer_tree' = end.tree /\ expired' = end.list
  IN  /\ Settle(Loop(Step, [tree |-> timer_tree, list |-> <<>>]))
      /\ has_timeout' = (has_timeout \/ timer_tree'.top # NULL)
      /\ base_timeout' = IF timer_tree'.top = NULL THEN base_timeout
                         ELSE timeout[RbFirst(timer_tree')]
      /\ UNCHANGED <<timeout, func_set>>

(* free_timer *)
FreeTimer(t) ==
  /\ func_set' = [func_set EXCEPT ![t] = FALSE]
  /\ timeout' = [timeout EXCEPT ![t] = 0]

(* dsk_dispatch_add_idle, dsk_dispatch_remove_idle of a function waiting *)
AddIdle(i) == idles' = Append(idles, i) /\ has_idle' = TRUE

RemoveIdle(i) ==
  /\ idles' = RemoveFirst(idles, i)
  /\ has_idle' = (has_idle /\ idles' # <<>>)
=============================================================================
