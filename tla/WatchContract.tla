---------------------------- MODULE WatchContract ----------------------------
(***************************************************************************)
(* What the event loop of dsk/dsk-dispatch.c promises about descriptors,   *)
(* without its tables: which function watches which descriptor for what,   *)
(* and which reported events are still to be handled.  A call of the       *)
(* program changes the one descriptor it names; a callback is given events *)
(* that were reported, that are wanted when it starts, and that are not    *)
(* from before the descriptor was closed; nothing wanted is dropped.       *)
(***************************************************************************)
EXTENDS Naturals

CONSTANTS Fds, Events, Funcs, NoCallback

VARIABLES
  watch,      \* descriptor -> what it is watched for, and by which function
  ready,      \* reported and not handled: set of [fd, events]
  running     \* the descriptor callback in progress

vars == <<watch, ready, running>>

NotWatched == [events |-> {}]

Init ==
  /\ watch = [fd \in Fds |-> NotWatched]
  /\ ready = {}
  /\ running = NoCallback

Watch(fd, events, func) ==
  /\ watch' = [watch EXCEPT ![fd] = [events |-> events, func |-> func]]
  /\ UNCHANGED <<ready, running>>

Unwatch(fd) ==
  /\ watch' = [watch EXCEPT ![fd] = NotWatched]
  /\ UNCHANGED <<ready, running>>

(* What was reported for a descriptor is void once it is closed, even if   *)
(* the number is in use again. *)
Close(fd) ==
  /\ watch' = [watch EXCEPT ![fd] = NotWatched]
  /\ ready' = {r \in ready: r.fd # fd}
  /\ UNCHANGED running

(* The system reports events, of watched descriptors, each at most once. *)
Report ==
  /\ running = NoCallback /\ ready = {}
  /\ ready' \subseteq [fd: {fd \in Fds: watch[fd] # NotWatched}, events: SUBSET Events]
  /\ \A r, s \in ready': r.fd = s.fd => r = s
  /\ UNCHANGED <<watch, running>>

Wanted(r) == watch[r.fd].events \cap r.events

Handle(r) ==
  /\ running = NoCallback
  /\ ready' = ready \ {r}
  /\ running' = IF Wanted(r) = {} THEN NoCallback
                ELSE [kind |-> "fd", fd |-> r.fd, events |-> Wanted(r),
                      func |-> watch[r.fd].func]
  /\ UNCHANGED watch

Return ==
  /\ running' = NoCallback
  /\ UNCHANGED <<watch, ready>>

Next ==
  \/ \E fd \in Fds: Unwatch(fd) \/ Close(fd)
  \/ \E fd \in Fds, events \in SUBSET Events, func \in Funcs: Watch(fd, events, func)
  \/ Report
  \/ \E r \in ready: Handle(r)
  \/ Return

Spec == Init /\ [][Next]_vars
=============================================================================
