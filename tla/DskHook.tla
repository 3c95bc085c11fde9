------------------------------- MODULE DskHook -------------------------------
(***************************************************************************)
(* Hooks (dsk/dsk-hook.h, dsk/dsk-hook.c): the objects through which the   *)
(* library tells its users that something became readable, writable or     *)
(* finished.  A hook has a main trap inside it and a list of further ones; *)
(* dsk_hook_notify calls them in turn, and a callback may call back: trap, *)
(* block, destroy, clear, or notify another hook.  The hook whose count of *)
(* active traps leaves or reaches zero tells its object (set_poll) and     *)
(* joins or leaves the list of hooks notified when the loop is idle.       *)
(*                                                                         *)
(* A trap is named by its registration: one call of dsk_hook_trap.  A      *)
(* program uses its handle until the trap was destroyed, its callback      *)
(* returned false, or the hook was cleared.                                *)
(***************************************************************************)
EXTENDS Naturals, Sequences, FiniteSets, SequencesExt

CONSTANTS
  Hooks, Traps,
  NULL,           \* no trap
  Guard,          \* idle_notify_guard of run_idle_notifications
  Owns,           \* traps that have a callback_data_destroy
  Careful,        \* whether callbacks avoid the two things of MayEnd
  CountMod,       \* trap_count is below this: 2^16
  MaxBlocks,      \* bound: blocks of one trap
  MaxCalls        \* bound: calls of the program

ASSUME NullAssumption == NULL \notin Traps /\ Guard \notin Hooks
ASSUME OwnsAssumption == Owns \subseteq Traps /\ Careful \in BOOLEAN
ASSUME BoundsAssumption == CountMod \in Nat \ {0, 1} /\ MaxBlocks \in Nat /\ MaxCalls \in Nat

VARIABLES
  hook,           \* the flags, the main trap and the list of each hook
  trap,           \* what is known of each registration
  trap_count,     \* number of traps that want notification
  polled,         \* what set_poll was last told
  idle_list,      \* dsk_hook_idle_first .. dsk_hook_idle_last
  idle_handler,   \* whether run_idle_notifications waits in the dispatch
  stack,          \* the calls of dsk_hook_notify in progress, innermost last
  destroyed,      \* times a callback_data_destroy got the data of each trap
  calls           \* bound: calls made so far

countVars == <<trap_count, polled, idle_list, idle_handler>>
vars == <<hook, trap, countVars, stack, destroyed, calls>>

Stages == {"main", "in_main", "drop_main", "list", "in_list", "drop_list"}

Frames == [stage: {"idle"}] \cup [stage: Stages, hook: Hooks, at: Traps \cup {NULL}]

TypeOK ==
  /\ hook \in [Hooks -> [is_idle_notify: BOOLEAN, is_cleared: BOOLEAN, is_notifying: BOOLEAN,
                         clear_in_notify: BOOLEAN, main: Traps \cup {NULL}, list: Seq(Traps)]]
  /\ trap \in [Traps -> [status: {"new", "live", "ended"}, block_count: 0..MaxBlocks,
                         is_notifying: BOOLEAN, destroy_in_notify: BOOLEAN]]
  /\ trap_count \in [Hooks -> 0..(CountMod - 1)]
  /\ polled \in [Hooks -> BOOLEAN]
  /\ idle_list \in Seq(Hooks \cup {Guard}) /\ idle_handler \in BOOLEAN
  /\ stack \in Seq(Frames)
  /\ destroyed \in [Traps -> Nat] /\ calls \in 0..MaxCalls

Init ==
  /\ hook = [h \in Hooks |-> [is_idle_notify |-> FALSE, is_cleared |-> FALSE,
                              is_notifying |-> FALSE, clear_in_notify |-> FALSE,
                              main |-> NULL, list |-> <<>>]]
  /\ trap = [r \in Traps |-> [status |-> "new", block_count |-> 0,
                              is_notifying |-> FALSE, destroy_in_notify |-> FALSE]]
  /\ trap_count = [h \in Hooks |-> 0]
  /\ polled = [h \in Hooks |-> FALSE]
  /\ idle_list = <<>> /\ idle_handler = FALSE
  /\ stack = <<>>
  /\ destroyed = [r \in Traps |-> 0] /\ calls = 0

Live(r) == trap[r].status = "live"
OnHook(r, h) == r = hook[h].main \/ r \in ToSet(hook[h].list)

Index(list, x) == CHOOSE i \in DOMAIN list: list[i] = x
Without(list, x) == IF x \in ToSet(list) THEN RemoveAt(list, Index(list, x)) ELSE list
Destroyed(R) == [r \in Traps |-> destroyed[r] + IF r \in R \cap Owns THEN 1 ELSE 0]

-----------------------------------------------------------------------------
(* The count of active traps, and its edges. *)

JoinIdleList(h) == idle_list' = Append(idle_list, h) /\ idle_handler' = TRUE
LeaveIdleList(h) == idle_list' = Without(idle_list, h) /\ UNCHANGED idle_handler

TrapCountNonzero(h) ==
  /\ IF hook[h].is_idle_notify THEN JoinIdleList(h) ELSE UNCHANGED <<idle_list, idle_handler>>
  /\ polled' = [polled EXCEPT ![h] = TRUE]

TrapCountZero(h) ==
  /\ IF hook[h].is_idle_notify THEN LeaveIdleList(h) ELSE UNCHANGED <<idle_list, idle_handler>>
  /\ polled' = [polled EXCEPT ![h] = FALSE]

IncrTrapCount(h) ==
  /\ trap_count[h] < CountMod - 1         \* _dsk_inline_assert
  /\ trap_count' = [trap_count EXCEPT ![h] = @ + 1]
  /\ IF trap_count[h] = 0 THEN TrapCountNonzero(h)
     ELSE UNCHANGED <<polled, idle_list, idle_handler>>

(* An unsigned short: it wraps below zero. *)
DecrTrapCount(h) ==
  /\ trap_count' = [trap_count EXCEPT ![h] = (@ + CountMod - 1) % CountMod]
  /\ IF trap_count[h] = 1 THEN TrapCountZero(h)
     ELSE UNCHANGED <<polled, idle_list, idle_handler>>

-----------------------------------------------------------------------------
(* Calls of the program: from outside, or from a callback in progress. *)

Top == Last(stack)
SetTop(frame) == stack' = Append(Front(stack), frame)

InCallback == /\ stack # <<>>
              /\ \/ Top.stage \in {"in_main", "in_list"}
                 \/ Top.stage \in {"drop_main", "drop_list"} /\ Top.at \in Owns

CanCall == (stack = <<>> \/ InCallback) /\ calls < MaxCalls
Called == calls' = calls + 1

(* dsk_hook_trap *)
Trap(h, r) ==
  /\ CanCall /\ Called
  /\ ~hook[h].is_cleared /\ trap[r].status = "new"
  /\ hook' = IF hook[h].main = NULL THEN [hook EXCEPT ![h].main = r]
             ELSE [hook EXCEPT ![h].list = Append(@, r)]
  /\ trap' = [trap EXCEPT ![r].status = "live"]
  /\ IncrTrapCount(h)
  /\ UNCHANGED <<stack, destroyed>>

Usable(h, r) == ~hook[h].is_cleared /\ OnHook(r, h) /\ Live(r) /\ ~trap[r].destroy_in_notify

(* A callback that ends its own trap - by its return value or by           *)
(* dsk_hook_trap_destroy - meets two cases the code gets wrong: a main     *)
(* trap that is blocked then is counted out twice, and for a trap of the   *)
(* list the destroy function is called with the data of the main trap.     *)
(* The callbacks of the library avoid both. *)
MayEnd(h, r) == Careful => trap[r].block_count = 0 /\ (r \in ToSet(hook[h].list) => r \notin Owns)

(* Mutant: a blocked trap is counted out again. *)
TrapDestroyBlocked(h, r) ==
  /\ CanCall /\ Called
  /\ Usable(h, r)
  /\ IF trap[r].is_notifying
     THEN /\ MayEnd(h, r)
          /\ trap' = [trap EXCEPT ![r].destroy_in_notify = TRUE]
          /\ UNCHANGED <<hook, countVars, destroyed>>
     ELSE /\ DecrTrapCount(h)
          /\ trap' = [trap EXCEPT ![r].status = "ended"]
          /\ hook' = IF hook[h].main = r THEN [hook EXCEPT ![h].main = NULL]
                     ELSE [hook EXCEPT ![h].list = Without(@, r)]
          /\ destroyed' = Destroyed({r})
  /\ UNCHANGED stack

(* dsk_hook_trap_destroy: of the trap whose callback runs it is put off *)
TrapDestroy(h, r) ==
  /\ CanCall /\ Called
  /\ Usable(h, r)
  /\ IF trap[r].is_notifying
     THEN /\ MayEnd(h, r)
          /\ trap' = [trap EXCEPT ![r].destroy_in_notify = TRUE]
          /\ UNCHANGED <<hook, countVars, destroyed>>
     ELSE /\ IF trap[r].block_count = 0 THEN DecrTrapCount(h) ELSE UNCHANGED countVars
          /\ trap' = [trap EXCEPT ![r].status = "ended"]
          /\ hook' = IF hook[h].main = r THEN [hook EXCEPT ![h].main = NULL]
                     ELSE [hook EXCEPT ![h].list = Without(@, r)]
          /\ destroyed' = Destroyed({r})
  /\ UNCHANGED stack

(* dsk_hook_trap_block, dsk_hook_trap_unblock *)
TrapBlock(h, r) ==
  /\ CanCall /\ Called
  /\ Usable(h, r) /\ trap[r].block_count < MaxBlocks
  /\ trap' = [trap EXCEPT ![r].block_count = @ + 1]
  /\ IF trap[r].block_count = 0 THEN DecrTrapCount(h) ELSE UNCHANGED countVars
  /\ UNCHANGED <<hook, stack, destroyed>>

TrapUnblock(h, r) ==
  /\ CanCall /\ Called
  /\ Usable(h, r) /\ trap[r].block_count > 0
  /\ trap' = [trap EXCEPT ![r].block_count = @ - 1]
  /\ IF trap[r].block_count = 1 THEN IncrTrapCount(h) ELSE UNCHANGED countVars
  /\ UNCHANGED <<hook, stack, destroyed>>

(* Mutant: the handler is not asked for when the hook joins the list. *)
SetIdleNotifySilent(h) ==
  /\ CanCall /\ Called
  /\ ~hook[h].is_cleared
  /\ hook' = [hook EXCEPT ![h].is_idle_notify = ~@]
  /\ idle_list' = IF trap_count[h] = 0 THEN idle_list
                  ELSE IF hook[h].is_idle_notify THEN Without(idle_list, h)
                  ELSE Append(idle_list, h)
  /\ UNCHANGED <<trap, trap_count, polled, idle_handler, stack, destroyed>>

(* dsk_hook_set_idle_notify, to the other value than it has *)
SetIdleNotify(h) ==
  /\ CanCall /\ Called
  /\ ~hook[h].is_cleared
  /\ hook' = [hook EXCEPT ![h].is_idle_notify = ~@]
  /\ IF trap_count[h] = 0 THEN UNCHANGED <<idle_list, idle_handler>>
     ELSE IF hook[h].is_idle_notify THEN LeaveIdleList(h) ELSE JoinIdleList(h)
  /\ UNCHANGED <<trap, trap_count, polled, stack, destroyed>>

(* What dsk_hook_clear does to a hook with these traps; the destroy        *)
(* functions do not call back. *)
ClearNow(h, cleared) ==
  LET own == {r \in Traps: Live(r) /\ OnHook(r, h)}
  IN  /\ hook' = [cleared EXCEPT ![h].is_cleared = TRUE, ![h].main = NULL, ![h].list = <<>>]
      /\ trap' = [r \in Traps |-> IF r \in own THEN [trap[r] EXCEPT !.status = "ended"]
                                  ELSE trap[r]]
      /\ destroyed' = Destroyed(own)
      /\ trap_count' = [trap_count EXCEPT ![h] = 0]
      /\ IF trap_count[h] > 0 THEN TrapCountZero(h)
         ELSE UNCHANGED <<polled, idle_list, idle_handler>>

(* Mutant: a hook is cleared under the callbacks that run. *)
ClearUnderway(h) ==
  /\ CanCall /\ Called
  /\ ~hook[h].is_cleared
  /\ ClearNow(h, hook)
  /\ UNCHANGED stack

(* dsk_hook_clear: of a hook that is notifying it is put off *)
Clear(h) ==
  /\ CanCall /\ Called
  /\ ~hook[h].is_cleared
  /\ IF hook[h].is_notifying
     THEN /\ hook' = [hook EXCEPT ![h].clear_in_notify = TRUE]
          /\ UNCHANGED <<trap, countVars, destroyed>>
     ELSE ClearNow(h, hook)
  /\ UNCHANGED stack

(* dsk_hook_notify, called on a hook that is not notifying or cleared: the *)
(* other calls return at once. *)
StartNotify(h) ==
  /\ hook' = [hook EXCEPT ![h].is_notifying = TRUE]
  /\ stack' = Append(stack, [stage |-> "main", hook |-> h, at |-> NULL])

Notify(h) ==
  /\ CanCall /\ Called
  /\ ~hook[h].is_notifying /\ ~hook[h].is_cleared
  /\ StartNotify(h)
  /\ UNCHANGED <<trap, countVars, destroyed>>

Call ==
  \/ \E h \in Hooks, r \in Traps: Trap(h, r) \/ TrapDestroy(h, r) \/ TrapBlock(h, r)
                                  \/ TrapUnblock(h, r)
  \/ \E h \in Hooks: SetIdleNotify(h) \/ Clear(h) \/ Notify(h)

-----------------------------------------------------------------------------
(* dsk_hook_notify *)

At(stage) == stack # <<>> /\ Top.stage = stage

CallMain ==
  LET r == hook[Top.hook].main IN
  /\ At("main")
  /\ IF r # NULL /\ trap[r].block_count = 0
     THEN /\ trap' = [trap EXCEPT ![r].is_notifying = TRUE]
          /\ SetTop([stage |-> "in_main", hook |-> Top.hook, at |-> r])
     ELSE UNCHANGED trap /\ SetTop([Top EXCEPT !.stage = "list"])
  /\ UNCHANGED <<hook, countVars, destroyed, calls>>

(* A trap ends when its callback returns false or has destroyed it. *)
Ends(r, again) == ~again \/ trap[r].destroy_in_notify

(* The main callback returns; if the trap ends, its destroy function runs. *)
MainReturns(again) ==
  LET r == Top.at IN
  /\ At("in_main")
  /\ IF Ends(r, again)
     THEN /\ MayEnd(Top.hook, r)
          /\ trap' = [trap EXCEPT ![r].status = "ended"]
          /\ hook' = [hook EXCEPT ![Top.hook].main = NULL]
          /\ destroyed' = Destroyed({r})
          /\ SetTop([Top EXCEPT !.stage = "drop_main"])
     ELSE /\ trap' = [trap EXCEPT ![r].is_notifying = FALSE]
          /\ SetTop([Top EXCEPT !.stage = "list", !.at = NULL])
          /\ UNCHANGED <<hook, destroyed>>
  /\ UNCHANGED <<countVars, calls>>

MainDropped ==
  /\ At("drop_main")
  /\ trap' = [trap EXCEPT ![Top.at].is_notifying = FALSE, ![Top.at].destroy_in_notify = FALSE]
  /\ DecrTrapCount(Top.hook)
  /\ SetTop([Top EXCEPT !.stage = "list", !.at = NULL])
  /\ UNCHANGED <<hook, destroyed, calls>>

(* The traps of the list not yet called: those behind the one at hand. *)
Behind(list, r) == IF r = NULL THEN list ELSE SubSeq(list, Index(list, r) + 1, Len(list))

CallNext ==
  LET behind == Behind(hook[Top.hook].list, Top.at) IN
  /\ At("list") /\ behind # <<>>
  /\ trap' = [trap EXCEPT ![Head(behind)].is_notifying = TRUE]
  /\ SetTop([Top EXCEPT !.stage = "in_list", !.at = Head(behind)])
  /\ UNCHANGED <<hook, countVars, destroyed, calls>>

(* A callback of the list returns. *)
ListReturns(again) ==
  LET r == Top.at
      main == hook[Top.hook].main
  IN  /\ At("in_list")
      /\ IF Ends(r, again)
         THEN /\ MayEnd(Top.hook, r)
              /\ IF trap[r].block_count = 0 THEN DecrTrapCount(Top.hook)
                 ELSE UNCHANGED countVars
              /\ trap' = [trap EXCEPT ![r].status = "ended"]
              /\ destroyed' = IF r \in Owns /\ main # NULL
                              THEN [destroyed EXCEPT ![main] = @ + 1] ELSE destroyed
              /\ SetTop([Top EXCEPT !.stage = "drop_list"])
         ELSE /\ trap' = [trap EXCEPT ![r].is_notifying = FALSE]
              /\ SetTop([Top EXCEPT !.stage = "list"])
              /\ UNCHANGED <<countVars, destroyed>>
      /\ UNCHANGED <<hook, calls>>

ListDropped ==
  /\ At("drop_list")
  /\ trap' = [trap EXCEPT ![Top.at].is_notifying = FALSE]
  /\ SetTop([Top EXCEPT !.stage = "list"])
  /\ UNCHANGED <<hook, countVars, destroyed, calls>>

(* The traps of the list that are live, in their order. *)
Pruned(list) ==
  LET kept == {i \in DOMAIN list: Live(list[i])}
      Rank(i) == Cardinality({j \in kept: j <= i})
  IN  [k \in 1..Cardinality(kept) |-> list[CHOOSE i \in kept: Rank(i) = k]]

(* The end of dsk_hook_notify: traps that ended leave the list, and a      *)
(* dsk_hook_clear that was put off is done. *)
NotifyDone ==
  LET h == Top.hook
      pruned == [hook EXCEPT ![h].list = Pruned(@), ![h].is_notifying = FALSE]
  IN  /\ At("list") /\ Behind(hook[h].list, Top.at) = <<>>
      /\ IF hook[h].clear_in_notify
         THEN ClearNow(h, pruned)
         ELSE hook' = pruned /\ UNCHANGED <<trap, countVars, destroyed>>
      /\ stack' = Front(stack)
      /\ UNCHANGED calls

-----------------------------------------------------------------------------
(* run_idle_notifications *)

RunIdle ==
  /\ stack = <<>> /\ idle_handler
  /\ idle_handler' = FALSE
  /\ IF idle_list = <<>> THEN UNCHANGED <<idle_list, stack>>
     ELSE /\ idle_list' = Append(idle_list, Guard)
          /\ stack' = <<[stage |-> "idle"]>>
  /\ UNCHANGED <<hook, trap, trap_count, polled, destroyed, calls>>

(* Mutant: the hook stays at the head of the list. *)
IdleNextInPlace ==
  /\ At("idle") /\ Head(idle_list) # Guard
  /\ StartNotify(Head(idle_list))
  /\ UNCHANGED <<idle_list, trap, trap_count, polled, idle_handler, destroyed, calls>>

IdleNext ==
  /\ At("idle") /\ Head(idle_list) # Guard
  /\ idle_list' = Append(Tail(idle_list), Head(idle_list))
  /\ StartNotify(Head(idle_list))
  /\ UNCHANGED <<trap, trap_count, polled, idle_handler, destroyed, calls>>

IdleDone ==
  /\ At("idle") /\ Head(idle_list) = Guard
  /\ idle_list' = Tail(idle_list)
  /\ idle_handler' = (idle_handler \/ idle_list' # <<>>)
  /\ stack' = <<>>
  /\ UNCHANGED <<hook, trap, trap_count, polled, destroyed, calls>>

Step == \/ CallMain \/ MainDropped \/ CallNext \/ ListDropped \/ NotifyDone
        \/ IdleNext \/ IdleDone
        \/ \E again \in BOOLEAN: MainReturns(again) \/ ListReturns(again)

Next == Call \/ Step \/ RunIdle

Spec == Init /\ [][Next]_vars

(* Callbacks return, and the dispatch runs the idle functions it was given *)
(* (IdlesRun of DskDispatch). *)
FairSpec == Spec /\ WF_vars(Step) /\ WF_vars(RunIdle)

-----------------------------------------------------------------------------
(* What should hold. *)

(* The main trap whose destroy function runs is still counted. *)
Counted(h) ==
  {r \in Traps: OnHook(r, h) /\ Live(r) /\ trap[r].block_count = 0}
    \cup {r \in Traps: trap[r].block_count = 0
                        /\ [stage |-> "drop_main", hook |-> h, at |-> r] \in ToSet(stack)}

(* "If the trap is active, we should decrement the trap count" (dsk-hook.c *)
(* :120): through every order of trapping, blocking and ending, by the     *)
(* program or by a callback, the count is of the traps that are active,    *)
(* and the object is asked for events exactly while there is one. *)
CountsActive ==
  /\ TypeOK
  /\ \A h \in Hooks:
       /\ trap_count[h] = Cardinality(Counted(h))
       /\ polled[h] <=> Counted(h) # {}

(* The list of hooks to notify when idle has each that wants it once, also *)
(* while run_idle_notifications walks it and its callbacks change it; and  *)
(* while there is one, the dispatch has been asked to run. *)
IdleListExact ==
  /\ \A h \in Hooks: Cardinality({i \in DOMAIN idle_list: idle_list[i] = h})
                       = IF hook[h].is_idle_notify /\ Counted(h) # {} THEN 1 ELSE 0
  /\ (\E i \in DOMAIN stack: stack[i].stage = "idle") <=> Guard \in ToSet(idle_list)
  /\ idle_list # <<>> => idle_handler \/ Guard \in ToSet(idle_list)

(* Whatever is trapped, destroyed or cleared by a callback, the trap that  *)
(* dsk_hook_notify is at keeps its place and its memory until the call     *)
(* that runs is over, and no hook is notified twice over. *)
StandsOnItsTrap ==
  /\ \A h \in Hooks: Cardinality({i \in DOMAIN stack: stack[i].stage # "idle" /\ stack[i].hook = h})
                       = IF hook[h].is_notifying THEN 1 ELSE 0
  /\ \A f \in ToSet(stack):
        /\ f.stage = "in_main" => hook[f.hook].main = f.at
        /\ (f.stage \in {"list", "in_list", "drop_list"} /\ f.at # NULL)
             => f.at \in ToSet(hook[f.hook].list)

(* The data of a trap is destroyed when the trap ends: once, not before,   *)
(* and no other's in its place. *)
DestroyedOnce ==
  \A r \in Traps: destroyed[r] = IF r \in Owns /\ trap[r].status = "ended" THEN 1 ELSE 0

(* Both: no callback is left on a trap, or with data, that are gone. *)
TrapsOutliveCalls == StandsOnItsTrap /\ DestroyedOnce

(* A hook on the idle list is notified, or leaves the list. *)
IdleHooksNotified ==
  \A h \in Hooks: (h \in ToSet(idle_list))
                     ~> (hook[h].is_notifying \/ h \notin ToSet(idle_list))
=============================================================================
