----------------------------- MODULE DskDispatch -----------------------------
(***************************************************************************)
(* The event loop: dsk_dispatch_run and dsk_dispatch_dispatch of           *)
(* dsk/dsk-dispatch.c over the tables of DskFds and DskTimers, with the    *)
(* poll(2) build.  The loop is single-threaded; what makes it hard is that *)
(* every callback may call back into the dispatch, in the middle of each   *)
(* of its loops, and that descriptors are reused as soon as they close.    *)
(*                                                                         *)
(* One turn of the loop is: poll; the callbacks of the descriptors that    *)
(* are ready (pc = "notify"); the idle functions ("idle"); the timers that *)
(* are due ("timer"); back to the program ("user").  While a callback      *)
(* runs, `running' says which, and the program's calls are steps.          *)
(***************************************************************************)
EXTENDS DskFds, DskTimers

CONSTANT MaxCalls       \* bound: calls of the program into the dispatch

ASSUME MaxCallsAssumption == MaxCalls \in Nat

(* Descriptors and callbacks are alike. *)
FdSymmetry == Permutations(Fds) \cup Permutations(Funcs)

VARIABLES
  pc,             \* where dsk_dispatch_run is
  notifies,       \* what poll reported and is not yet handled: [fd, events]
  running,        \* the callback in progress
  now,            \* last_dispatch_secs, last_dispatch_usecs
  fault,          \* "none", "assert" (aborted), "corrupt" (tree broken)
  calls           \* bound: calls made so far

loopVars == <<pc, notifies, running, now, fault, calls>>
vars == <<fdVars, timerVars, idleVars, loopVars>>

NoCallback == [kind |-> "none"]
Callbacks == {NoCallback}
        \cup [kind: {"fd"}, fd: Fds, events: EventSets \ {{}}, func: Funcs]
        \cup [kind: {"idle"}, idle: Idles]
        \cup [kind: {"timer"}, timer: Nodes]

Init ==
  /\ FdInit /\ TimerInit
  /\ pc = "user" /\ notifies = <<>> /\ running = NoCallback
  /\ now = 0 /\ fault = "none" /\ calls = 0

LoopTypeOK ==
  /\ pc \in {"user", "notify", "idle", "timer"}
  /\ notifies \in Seq([fd: Fds, events: EventSets])
  /\ running \in Callbacks
  /\ now \in Times
  /\ fault \in {"none", "assert", "corrupt"}
  /\ calls \in 0..MaxCalls

TypeOK == FdTypeOK /\ TimerTypeOK /\ LoopTypeOK

RunningTimer(t) == running = [kind |-> "timer", timer |-> t]
RunningIdle(i)  == running = [kind |-> "idle", idle |-> i]

(* The handles a program may still use: until it has removed the timer or  *)
(* idle function, or the function has returned. *)
LiveTimer(t) == t \in InTree \/ (func_set[t] /\ (IsExpired(t) \/ RunningTimer(t)))
LiveIdle(i)  == i \in ToSet(idles) \/ RunningIdle(i)

(* Mutant: removing a timer that is due frees it at once. *)
InUseUnlessRemoved(t) == t \in InTree \/ RunningTimer(t) \/ (IsExpired(t) /\ func_set[t])

(* Its memory is in use: dsk_dispatch_add_timer cannot take it. *)
InUse(t) == t \in InTree \/ IsExpired(t) \/ RunningTimer(t)

-----------------------------------------------------------------------------
(* Calls of the program, from outside the loop or from a callback. *)

CanCall == fault = "none" /\ (pc = "user" \/ running # NoCallback) /\ calls < MaxCalls

Called(result) ==
  /\ calls' = calls + 1
  /\ fault' = result
  /\ UNCHANGED <<pc, notifies, running, now>>

CallWatchFd(fd, events, func) ==
  /\ CanCall
  /\ WatchFd(fd, events, func)
  /\ Called("none")
  /\ UNCHANGED <<timerVars, idleVars>>

CallUnwatchFd(fd) ==
  /\ CanCall
  /\ UnwatchFd(fd)
  /\ Called("none")
  /\ UNCHANGED <<timerVars, idleVars>>

(* dsk_dispatch_close_fd; the descriptor may be opened and watched again *)
CallFdClosed(fd) ==
  /\ CanCall
  /\ IF DeallocateChangeAsserts(fd)
     THEN FdClosed(fd) /\ Called("none")
     ELSE Called("assert") /\ UNCHANGED fdVars
  /\ UNCHANGED <<timerVars, idleVars>>

CallAddTimer(t, when) ==
  /\ CanCall
  /\ ~InUse(t)
  /\ AddTimer(t, when)
  /\ Called("none")
  /\ UNCHANGED <<fdVars, idleVars>>

(* Adjusting a timer that is due and not in the tree any more removes it   *)
(* from the tree all the same. *)
CallAdjustTimer(t, when) ==
  /\ CanCall
  /\ LiveTimer(t)
  /\ IF t \in InTree
     THEN AdjustTimer(t, when) /\ Called("none")
     ELSE Called("corrupt") /\ UNCHANGED timerVars
  /\ UNCHANGED <<fdVars, idleVars>>

CallRemoveTimer(t) ==
  /\ CanCall
  /\ LiveTimer(t)
  /\ IF t \in InTree THEN RemoveWaitingTimer(t) ELSE RemoveExpiredTimer(t)
  /\ Called("none")
  /\ UNCHANGED <<fdVars, idleVars>>

CallAddIdle(i) ==
  /\ CanCall
  /\ ~LiveIdle(i)
  /\ AddIdle(i)
  /\ Called("none")
  /\ UNCHANGED <<fdVars, timerVars>>

(* Removing the idle function that runs does nothing: its func is NULL. *)
CallRemoveIdle(i) ==
  /\ CanCall
  /\ LiveIdle(i)
  /\ IF RunningIdle(i) THEN UNCHANGED idleVars ELSE RemoveIdle(i)
  /\ Called("none")
  /\ UNCHANGED <<fdVars, timerVars>>

Call ==
  \/ \E fd \in Fds, events \in EventSets, func \in Funcs: CallWatchFd(fd, events, func)
  \/ \E fd \in Fds: CallUnwatchFd(fd) \/ CallFdClosed(fd)
  \/ \E t \in Nodes, when \in Times: CallAddTimer(t, when) \/ CallAdjustTimer(t, when)
  \/ \E t \in Nodes: CallRemoveTimer(t)
  \/ \E i \in Idles: CallAddIdle(i) \/ CallRemoveIdle(i)

-----------------------------------------------------------------------------
(* dsk_dispatch_run *)

(* What poll can report for an entry: the events asked for, and POLLHUP,   *)
(* which comes unasked and reads as DSK_EVENT_READABLE. *)
Reportable(entry) == entry.events \cup ({"readable"} \cap Events)

(* How long the loop may sleep: dsk_dispatch_run passes poll a timeout of  *)
(* 0, of the time left, or none.  Without an event it sleeps that long. *)
WakesAt(time) == has_idle \/ (has_timeout /\ time >= base_timeout)

(* `ready' is what poll reports, of some entries, in their order. *)
Run(time, ready) ==
  /\ fault = "none" /\ pc = "user"
  /\ time >= now
  /\ ready # <<>> \/ WakesAt(time)
  /\ IF ClearChangesAsserts
     THEN /\ ClearChanges
          /\ notifies' = ready
          /\ closed_since_notify_started' =
               [fd \in Fds |-> closed_since_notify_started[fd]
                               /\ \A i \in DOMAIN ready: ready[i].fd # fd]
          /\ pc' = "notify" /\ now' = time /\ fault' = fault
     ELSE /\ fault' = "assert"
          /\ UNCHANGED <<changes, change_index, closed_since_notify_started,
                         notifies, pc, now>>
  /\ UNCHANGED <<notifies_desired, notify_desired_index, timerVars, idleVars,
                 running, calls>>

(* Which entries of notifies_desired poll reports, and what for each. *)
Places == UNION {{p \in [1..n -> DOMAIN notifies_desired]: \A j, k \in 1..n: j < k => p[j] < p[k]}:
                 n \in 0..Len(notifies_desired)}
EventsAt(place) ==
  {e \in [DOMAIN place -> EventSets \ {{}}]:
     \A k \in DOMAIN place: e[k] \subseteq Reportable(notifies_desired[place[k]])}
Reports ==
  UNION {{[k \in DOMAIN place |-> [fd |-> notifies_desired[place[k]].fd, events |-> e[k]]]:
            e \in EventsAt(place)}: place \in Places}

-----------------------------------------------------------------------------
(* dsk_dispatch_dispatch *)

AtLoop(l) == fault = "none" /\ pc = l /\ running = NoCallback

(* Mutant: the closed flag is not looked at. *)
DeliverableIfWatched(n) == IsWatched(n.fd) /\ EntryOf(n.fd).events \cap n.events # {}

(* Whether the callback of a reported descriptor is run *)
Deliverable(n) ==
  /\ ~closed_since_notify_started[n.fd]
  /\ IsWatched(n.fd)
  /\ EntryOf(n.fd).events \cap n.events # {}

Notify ==
  LET n == Head(notifies) IN
  /\ AtLoop("notify") /\ notifies # <<>>
  /\ notifies' = Tail(notifies)
  /\ running' = IF Deliverable(n)
                THEN [kind |-> "fd", fd |-> n.fd,
                      events |-> EntryOf(n.fd).events \cap n.events,
                      func |-> EntryOf(n.fd).func]
                ELSE NoCallback
  /\ UNCHANGED <<fdVars, timerVars, idleVars, pc, now, fault, calls>>

NotifyDone ==
  /\ AtLoop("notify") /\ notifies = <<>>
  /\ ClearChanges
  /\ pc' = "idle"
  /\ UNCHANGED <<notifies_desired, notify_desired_index, closed_since_notify_started,
                 timerVars, idleVars, notifies, running, now, fault, calls>>

RunIdle ==
  /\ AtLoop("idle") /\ idles # <<>>
  /\ running' = [kind |-> "idle", idle |-> Head(idles)]
  /\ idles' = Tail(idles)
  /\ UNCHANGED <<fdVars, timerVars, has_idle, pc, notifies, now, fault, calls>>

IdleDone ==
  /\ AtLoop("idle") /\ idles = <<>>
  /\ has_idle' = FALSE
  /\ ExpireTimers(now)
  /\ pc' = "timer"
  /\ UNCHANGED <<fdVars, idles, notifies, running, now, fault, calls>>

(* Mutant: a timer on the list is run even if it has been removed. *)
RunTimerRemovedToo ==
  LET t == Head(expired) IN
  /\ AtLoop("timer") /\ expired # <<>>
  /\ expired' = Tail(expired)
  /\ running' = [kind |-> "timer", timer |-> t]
  /\ UNCHANGED <<fdVars, func_set, timeout, timer_tree, has_timeout, base_timeout, idleVars,
                 pc, notifies, now, fault, calls>>

RunTimer ==
  LET t == Head(expired) IN
  /\ AtLoop("timer") /\ expired # <<>>
  /\ expired' = Tail(expired)
  /\ IF func_set[t]
     THEN /\ running' = [kind |-> "timer", timer |-> t]
          /\ UNCHANGED <<func_set, timeout>>
     ELSE FreeTimer(t) /\ UNCHANGED running
  /\ UNCHANGED <<fdVars, timer_tree, has_timeout, base_timeout, idleVars,
                 pc, notifies, now, fault, calls>>

(* Mutant: has_idle is cleared at the end of the turn, after the timers. *)
TimerDoneClearsIdle ==
  /\ AtLoop("timer") /\ expired = <<>>
  /\ has_timeout' = (has_timeout /\ timer_tree.top # NULL)
  /\ has_idle' = FALSE
  /\ pc' = "user"
  /\ UNCHANGED <<fdVars, timer_tree, timeout, func_set, expired, base_timeout,
                 idles, notifies, running, now, fault, calls>>

TimerDone ==
  /\ AtLoop("timer") /\ expired = <<>>
  /\ has_timeout' = (has_timeout /\ timer_tree.top # NULL)
  /\ pc' = "user"
  /\ UNCHANGED <<fdVars, timer_tree, timeout, func_set, expired, base_timeout,
                 idleVars, notifies, running, now, fault, calls>>

Return ==
  /\ fault = "none" /\ running # NoCallback
  /\ running' = NoCallback
  /\ IF running.kind = "timer" THEN FreeTimer(running.timer)
     ELSE UNCHANGED <<func_set, timeout>>
  /\ UNCHANGED <<fdVars, timer_tree, expired, has_timeout, base_timeout, idleVars,
                 pc, notifies, now, fault, calls>>

Dispatch == Notify \/ NotifyDone \/ RunIdle \/ IdleDone \/ RunTimer \/ TimerDone

Next == Call \/ Dispatch \/ Return \/ \E time \in Times, ready \in Reports: Run(time, ready)

Spec == Init /\ [][Next]_vars

(* Callbacks return, the loop goes on (dsk_main_run calls dsk_dispatch_run *)
(* for ever), and time passes: the loop cannot come round for ever, woken  *)
(* by descriptors, before the clock reaches the timeout.  Nothing says     *)
(* that a descriptor ever becomes ready. *)
TimedRun == \E time \in Times: WakesAt(time) /\ \E ready \in Reports: Run(time, ready)

Fairness == WF_vars(Dispatch) /\ WF_vars(Return) /\ SF_vars(TimedRun)

FairSpec == Spec /\ Fairness
-----------------------------------------------------------------------------
(* What should hold. *)

Only(kinds) == IF running.kind \in kinds THEN running ELSE NoCallback

(* The swap-with-last tables and the closed flag give every callback of a  *)
(* descriptor exactly what the program asked for and has not taken back,   *)
(* whatever callbacks do while dsk_dispatch_dispatch is in the middle of   *)
(* its loop over what poll reported: a descriptor closed, opened again and *)
(* watched again in one turn gets nothing of its earlier life. *)
Watching == INSTANCE WatchContract WITH
  watch <- [fd \in Fds |-> IF IsWatched(fd)
                           THEN [events |-> EntryOf(fd).events, func |-> EntryOf(fd).func]
                           ELSE [events |-> {}]],
  ready <- {n \in ToSet(notifies): ~closed_since_notify_started[n.fd]},
  running <- Only({"fd"})

KeepsWatchContract == Watching!Spec

(* The timer tree, the list of expired timers and the idle list run what   *)
(* the program asked for once, not early, and never after it was taken     *)
(* back, even by a callback of the same turn. *)
Timing == INSTANCE TimerContract WITH
  Timers <- Nodes,
  pending <- {[timer |-> t, due |-> timeout[t]] :
                t \in InTree \cup {u \in ToSet(expired): func_set[u]}},
  idling <- ToSet(idles),
  running <- Only({"idle", "timer"}),
  clock <- now

KeepsTimerContract == Timing!Spec

(* A timer is at one place at a time - the tree, once on the list of       *)
(* expired ones, or running - even when callbacks remove expired timers    *)
(* and new ones reuse their memory; and the tree stays a search tree. *)
TimersInOnePlace ==
  /\ TypeOK
  /\ \A i, j \in DOMAIN expired: expired[i] = expired[j] => i = j
  /\ \A i \in DOMAIN expired: expired[i] \notin InTree /\ ~RunningTimer(expired[i])
  /\ \A t \in InTree: func_set[t] /\ ~RunningTimer(t)
  /\ Linked(timer_tree) /\ Ordered(timer_tree, timeout)

(* Before it sleeps the loop knows of work to do: has_idle while an idle   *)
(* function waits, has_timeout while a timer does.  Otherwise poll could   *)
(* sleep for ever with work waiting. *)
NeverSleepsOnWork ==
  /\ idles # <<>> => has_idle
  /\ timer_tree.top # NULL => has_timeout

(* Every timer in the tree is taken out of it, by the loop or the program: *)
(* a wrong base_timeout can make it late but not lose it. *)
TimersFire == \A t \in Nodes: (t \in InTree) ~> (t \notin InTree \/ fault # "none")

(* Every idle function that waits is run or removed. *)
IdlesRun == \A i \in Idles: (i \in ToSet(idles)) ~> (i \notin ToSet(idles) \/ fault # "none")

(* Nothing that the program asked the loop for is forgotten. *)
WorkIsDone == TimersFire /\ IdlesRun

(* "is this the first element in the tree ... yes, so set the public       *)
(* members" (dsk-dispatch.c:913): a loop about to sleep, with no idle      *)
(* function, wakes up in time for the first timer. *)
WakesForFirstTimer ==
  (pc = "user" /\ ~has_idle /\ timer_tree.top # NULL)
    => base_timeout <= timeout[RbFirst(timer_tree)]

(* The assertions of dsk_dispatch_clear_changes and                        *)
(* deallocate_change_index, which say that fd_map and changes agree. *)
ChangesAgree == fault # "assert"
=============================================================================
