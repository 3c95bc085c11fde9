---------------------------- MODULE TimerContract ----------------------------
(***************************************************************************)
(* What the event loop of dsk/dsk-dispatch.c promises about timers and     *)
(* idle functions, without its tree and its lists: which are still to run, *)
(* and when.  A call of the program changes the one it names; a function   *)
(* runs once for each time it was added, not after it was removed, and a   *)
(* timer not before its time.  One function runs at a time.                *)
(***************************************************************************)
EXTENDS Naturals

CONSTANTS Timers, Idles, Times, NoCallback

VARIABLES
  pending,    \* timers to run: set of [timer, due]
  idling,     \* idle functions to run
  running,    \* the timer or idle function in progress
  clock       \* when the loop last woke up

vars == <<pending, idling, running, clock>>

Init ==
  /\ pending = {} /\ idling = {}
  /\ running = NoCallback
  /\ clock = 0

Without(t) == {p \in pending: p.timer # t}

SetTimer(t, due) ==
  /\ pending' = Without(t) \cup {[timer |-> t, due |-> due]}
  /\ UNCHANGED <<idling, running, clock>>

CancelTimer(t) ==
  /\ pending' = Without(t)
  /\ UNCHANGED <<idling, running, clock>>

SetIdle(i) ==
  /\ idling' = idling \cup {i}
  /\ UNCHANGED <<pending, running, clock>>

CancelIdle(i) ==
  /\ idling' = idling \ {i}
  /\ UNCHANGED <<pending, running, clock>>

(* The loop comes round and reads the clock. *)
WakeUp ==
  /\ running = NoCallback
  /\ clock' \in Times /\ clock' >= clock
  /\ UNCHANGED <<pending, idling, running>>

RunIdle(i) ==
  /\ running = NoCallback
  /\ running' = [kind |-> "idle", idle |-> i]
  /\ idling' = idling \ {i}
  /\ UNCHANGED <<pending, clock>>

RunTimer(p) ==
  /\ running = NoCallback
  /\ p.due <= clock
  /\ running' = [kind |-> "timer", timer |-> p.timer]
  /\ pending' = pending \ {p}
  /\ UNCHANGED <<idling, clock>>

Return ==
  /\ running # NoCallback
  /\ running' = NoCallback
  /\ UNCHANGED <<pending, idling, clock>>

Next ==
  \/ \E t \in Timers: CancelTimer(t) \/ \E due \in Times: SetTimer(t, due)
  \/ \E i \in Idles: SetIdle(i) \/ CancelIdle(i)
  \/ WakeUp
  \/ \E i \in idling: RunIdle(i)
  \/ \E p \in pending: RunTimer(p)
  \/ Return

Spec == Init /\ [][Next]_vars
=============================================================================
