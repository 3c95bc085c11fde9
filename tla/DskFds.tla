------------------------------- MODULE DskFds -------------------------------
(***************************************************************************)
(* The file-descriptor half of a DskDispatch (dsk/dsk-dispatch.c): the     *)
(* complete set of events wanted, the changes to it since the main loop    *)
(* last looked, and the fd_map that finds both by descriptor.              *)
(*                                                                         *)
(* An index i of a C array is i + 1 here and the index -1 is 0.  The       *)
(* fields of FDMap are one function each.  callbacks[], which "parallels   *)
(* notifies_desired", is the field func of its entries.  Array capacity    *)
(* is left out: the arrays and fd_map double when they fill up.            *)
(***************************************************************************)
EXTENDS Naturals, Sequences

CONSTANTS Fds,          \* the descriptors the program can have open
          Events,       \* DSK_EVENT_READABLE, DSK_EVENT_WRITABLE
          Funcs         \* the functions it can pass to dsk_dispatch_watch_fd

VARIABLES
  notifies_desired,       \* sequence of [fd, events, func]
  changes,                \* sequence of [fd, old_events, events]
  notify_desired_index,   \* fd_map: position in notifies_desired, or 0
  change_index,           \* fd_map: position in changes, or 0
  closed_since_notify_started   \* fd_map

fdVars == <<notifies_desired, changes, notify_desired_index, change_index,
            closed_since_notify_started>>

EventSets == SUBSET Events
Desired   == [fd: Fds, events: EventSets \ {{}}, func: Funcs]
Changes   == [fd: Fds, old_events: EventSets, events: EventSets]

FdInit ==
  /\ notifies_desired = <<>>
  /\ changes = <<>>
  /\ notify_desired_index = [fd \in Fds |-> 0]
  /\ change_index = [fd \in Fds |-> 0]
  /\ closed_since_notify_started = [fd \in Fds |-> TRUE]    \* memset 255

FdTypeOK ==
  /\ notifies_desired \in Seq(Desired)
  /\ changes \in Seq(Changes)
  /\ notify_desired_index \in [Fds -> Nat]
  /\ change_index \in [Fds -> Nat]
  /\ closed_since_notify_started \in [Fds -> BOOLEAN]

(* The last element moves into place i and the sequence loses its end. *)
FillHole(s, i) == SubSeq([s EXCEPT ![i] = s[Len(s)]], 1, Len(s) - 1)

(* Mutant: the mistake of deallocate_change_index, below, made here. *)
DeallocateNotifyDesiredStale(fd) ==
  LET i == notify_desired_index[fd]
      from == Len(notifies_desired)
      unset == [notify_desired_index EXCEPT ![fd] = 0]
  IN  /\ notify_desired_index' =
           IF i = from THEN unset ELSE [unset EXCEPT ![notifies_desired[i].fd] = i]
      /\ notifies_desired' = FillHole(notifies_desired, i)

(* deallocate_notify_desired_index *)
DeallocateNotifyDesired(fd) ==
  LET i == notify_desired_index[fd]
      from == Len(notifies_desired)
      unset == [notify_desired_index EXCEPT ![fd] = 0]
  IN  /\ notify_desired_index' =
           IF i = from THEN unset
           ELSE [unset EXCEPT ![notifies_desired[from].fd] = i]
      /\ notifies_desired' = FillHole(notifies_desired, i)

(* deallocate_change_index.  The code looks up the descriptor of the entry *)
(* that goes (changes[ch_ind]), not of the one that moves (changes[from]). *)
DeallocateChange(fd) ==
  LET i == change_index[fd]
      from == Len(changes)
      unset == [change_index EXCEPT ![fd] = 0]
  IN  /\ change_index' = IF i = from THEN unset
                         ELSE [unset EXCEPT ![changes[i].fd] = i]
      /\ changes' = FillHole(changes, i)

(* Its assertion, ch_ind < n_changes. *)
DeallocateChangeAsserts(fd) == change_index[fd] <= Len(changes)

(* The change entry of dsk_dispatch_watch_fd.  A stale change_index can    *)
(* point past n_changes: that slot is written and overwritten unread.      *)
RecordChange(fd, old_events, events) ==
  IF change_index[fd] = 0
  THEN /\ change_index' = [change_index EXCEPT ![fd] = Len(changes) + 1]
       /\ changes' = Append(changes, [fd |-> fd, old_events |-> old_events,
                                      events |-> events])
  ELSE /\ change_index' = change_index
       /\ changes' = IF change_index[fd] > Len(changes) THEN changes
                     ELSE [changes EXCEPT ![change_index[fd]].fd = fd,
                                          ![change_index[fd]].events = events]

OldEvents(fd) == IF notify_desired_index[fd] = 0 THEN {}
                 ELSE notifies_desired[notify_desired_index[fd]].events

(* dsk_dispatch_watch_fd with events to wait for *)
WatchFd(fd, events, func) ==
  LET entry == [fd |-> fd, events |-> events, func |-> func]
      i == notify_desired_index[fd]
  IN  /\ events # {}
      /\ IF i = 0
         THEN /\ notify_desired_index' =
                   [notify_desired_index EXCEPT ![fd] = Len(notifies_desired) + 1]
              /\ notifies_desired' = Append(notifies_desired, entry)
         ELSE /\ notify_desired_index' = notify_desired_index
              /\ notifies_desired' = [notifies_desired EXCEPT ![i] = entry]
      /\ RecordChange(fd, OldEvents(fd), events)
      /\ UNCHANGED closed_since_notify_started

(* dsk_dispatch_watch_fd with no events: stop watching *)
UnwatchFd(fd) ==
  /\ IF notify_desired_index[fd] = 0
     THEN UNCHANGED <<notify_desired_index, notifies_desired>>
     ELSE DeallocateNotifyDesired(fd)
  /\ RecordChange(fd, OldEvents(fd), {})
  /\ UNCHANGED closed_since_notify_started

(* dsk_dispatch_fd_closed *)
FdClosed(fd) ==
  /\ closed_since_notify_started' = [closed_since_notify_started EXCEPT ![fd] = TRUE]
  /\ IF change_index[fd] = 0 THEN UNCHANGED <<change_index, changes>>
     ELSE DeallocateChange(fd)
  /\ IF notify_desired_index[fd] = 0
     THEN UNCHANGED <<notify_desired_index, notifies_desired>>
     ELSE DeallocateNotifyDesired(fd)

ChangedFds == {changes[i].fd : i \in DOMAIN changes}

(* The list of changes is emptied, by dsk_dispatch_clear_changes and by    *)
(* dsk_dispatch_dispatch after the descriptor callbacks.                   *)
ClearChanges ==
  /\ change_index' = [fd \in Fds |-> IF fd \in ChangedFds THEN 0 ELSE change_index[fd]]
  /\ changes' = <<>>

(* The assertion of dsk_dispatch_clear_changes. *)
ClearChangesAsserts == \A i \in DOMAIN changes: change_index[changes[i].fd] = i

(* The entry dsk_dispatch_dispatch finds for a descriptor, if any. *)
IsWatched(fd) == notify_desired_index[fd] # 0
EntryOf(fd)   == notifies_desired[notify_desired_index[fd]]

(* notifies_desired lists every watched descriptor once, and fd_map sends  *)
(* each descriptor to its own entry and no other: the table that           *)
(* dsk_dispatch_run polls and the table that dsk_dispatch_dispatch looks   *)
(* callbacks up in never disagree, whatever order descriptors go in.       *)
FdMapConsistent ==
  /\ \A i \in DOMAIN notifies_desired:
        notify_desired_index[notifies_desired[i].fd] = i
  /\ \A fd \in Fds: IsWatched(fd) =>
        /\ notify_desired_index[fd] \in DOMAIN notifies_desired
        /\ EntryOf(fd).fd = fd
=============================================================================
