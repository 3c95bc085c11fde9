-------------------------- MODULE DskDispatchProofs --------------------------
(***************************************************************************)
(* The event loop of DskDispatch, for any descriptors, timers, idle        *)
(* functions and times, and any number of calls.                           *)
(*                                                                         *)
(* First the descriptors: their tables stay well typed and agree with each *)
(* other (FdTypesHold, FdMapStaysConsistent), and the loop implements      *)
(* WatchContract (ImplementsWatchContract).                                *)
(*                                                                         *)
(* Then the red-black tree of DskRbtree that holds the timers.  A tree is  *)
(* described by the set of nodes below each node, and by black heights,    *)
(* instead of by recursion: that a loop of the macros keeps a set of       *)
(* states, and gets to its end, follows by the least number of turns that  *)
(* would be wrong.  RbInsertIs and RbRemoveIs say that the macros put the  *)
(* one node in or take it out and leave a red-black tree of the others;    *)
(* GoodTreeFacts says what that is to a caller.                            *)
(*                                                                         *)
(* Then the timers and idle functions: the inductive invariant DispatchInv *)
(* gives NeverSleepsOnItsWork, TimersStayInOnePlace and                    *)
(* TimersStayBalanced, and that the loop implements TimerContract          *)
(* (TimerContractKept).                                                    *)
(***************************************************************************)
EXTENDS DskDispatch, ListFacts

(* Removing entry i by moving the last one into its place. *)
LEMMA FillHoleFacts ==
  ASSUME NEW S, NEW s \in Seq(S), NEW i \in DOMAIN s
  PROVE  /\ FillHole(s, i) \in Seq(S)
         /\ Len(FillHole(s, i)) = Len(s) - 1
         /\ DOMAIN FillHole(s, i) = 1..(Len(s) - 1)
         /\ \A j \in 1..(Len(s) - 1):
               FillHole(s, i)[j] = IF j = i THEN s[Len(s)] ELSE s[j]
<1> DEFINE moved == [s EXCEPT ![i] = s[Len(s)]]
<1>1. /\ Len(s) \in Nat /\ DOMAIN s = 1..Len(s)
      /\ i \in 1..Len(s) /\ Len(s) >= 1
  OBVIOUS
<1>2. moved \in Seq(S) /\ Len(moved) = Len(s)
  <2>1. s[Len(s)] \in S
    BY <1>1, ElementOfSeq
  <2>2. QED BY <2>1, <1>1, ExceptSeq
<1>3. \A j \in 1..Len(s): moved[j] = IF j = i THEN s[Len(s)] ELSE s[j]
  BY <1>1
<1> HIDE DEF moved
<1>4. /\ SubSeq(moved, 1, Len(s) - 1) \in Seq(S)
      /\ Len(SubSeq(moved, 1, Len(s) - 1)) = Len(s) - 1
      /\ \A j \in 1..(Len(s) - 1): SubSeq(moved, 1, Len(s) - 1)[j] = moved[j]
  BY <1>1, <1>2
<1>5. FillHole(s, i) = SubSeq(moved, 1, Len(s) - 1)
  BY DEF FillHole, moved
<1>6. QED BY <1>1, <1>3, <1>4, <1>5

LEMMA DesiredFields ==
  ASSUME NEW e \in Desired
  PROVE  e.fd \in Fds /\ e.events \in EventSets
BY DEF Desired

LEMMA ChangesFields ==
  ASSUME NEW e \in Changes
  PROVE  e.fd \in Fds
BY DEF Changes

(* The invariant that is inductive: consistency needs the types, since an *)
(* index outside the table would say nothing about its entry. *)
FdInv == FdTypeOK /\ FdMapConsistent

(* The swap with the last entry in deallocate_notify_desired_index keeps *)
(* the table and the map in step. *)
LEMMA DeallocateKeepsConsistency ==
  ASSUME FdTypeOK, FdMapConsistent, NEW fd \in Fds, notify_desired_index[fd] # 0,
         DeallocateNotifyDesired(fd)
  PROVE  /\ notifies_desired' \in Seq(Desired)
         /\ notify_desired_index' \in [Fds -> Nat]
         /\ FdMapConsistent'
<1> DEFINE nd == notifies_desired
           ix == notify_desired_index
           i == ix[fd]
           last == nd[Len(nd)]
<1>1. /\ nd \in Seq(Desired) /\ ix \in [Fds -> Nat]
      /\ i \in DOMAIN nd /\ nd[i].fd = fd
      /\ DOMAIN nd = 1..Len(nd) /\ Len(nd) \in Nat /\ Len(nd) \in DOMAIN nd
  BY DEF FdTypeOK, FdMapConsistent, IsWatched, EntryOf
<1>2. \A j \in DOMAIN nd: nd[j] \in Desired /\ nd[j].fd \in Fds /\ ix[nd[j].fd] = j
  <2>1. \A j \in DOMAIN nd: nd[j] \in Desired
    BY <1>1, ElementOfSeq
  <2>2. \A j \in DOMAIN nd: nd[j].fd \in Fds
    BY <2>1, DesiredFields
  <2>3. QED BY <2>1, <2>2 DEF FdMapConsistent
<1>3. \A g \in Fds: ix[g] # 0 => ix[g] \in DOMAIN nd /\ nd[ix[g]].fd = g
  BY DEF FdMapConsistent, IsWatched, EntryOf
<1>4. /\ nd' = FillHole(nd, i)
      /\ nd' \in Seq(Desired) /\ DOMAIN nd' = 1..(Len(nd) - 1)
      /\ \A j \in DOMAIN nd': nd'[j] = IF j = i THEN last ELSE nd[j]
  <2>1. nd' = FillHole(nd, i)
    BY DEF DeallocateNotifyDesired
  <2>2. /\ FillHole(nd, i) \in Seq(Desired)
        /\ DOMAIN FillHole(nd, i) = 1..(Len(nd) - 1)
        /\ \A j \in 1..(Len(nd) - 1): FillHole(nd, i)[j] = IF j = i THEN last ELSE nd[j]
    BY <1>1, FillHoleFacts
  <2>3. QED BY <2>1, <2>2
<1>5. \A g \in Fds: ix'[g] = IF i # Len(nd) /\ g = last.fd THEN i
                             ELSE IF g = fd THEN 0 ELSE ix[g]
  BY <1>1, <1>2 DEF DeallocateNotifyDesired
<1>6. ix' \in [Fds -> Nat]
  BY <1>1, <1>2 DEF DeallocateNotifyDesired
<1>7. ASSUME NEW j \in DOMAIN nd'
      PROVE  nd'[j].fd \in Fds /\ ix'[nd'[j].fd] = j
  <2>1. CASE j = i
    <3>1. nd'[j] = last /\ i # Len(nd)
      BY <1>1, <1>4, <2>1
    <3>2. last.fd \in Fds
      BY <1>1, <1>2
    <3>3. ix'[last.fd] = i
      BY <1>5, <3>1, <3>2
    <3>4. QED BY <2>1, <3>1, <3>2, <3>3
  <2>2. CASE j # i
    <3>1. nd'[j] = nd[j] /\ j \in DOMAIN nd /\ j # Len(nd)
      BY <1>1, <1>4, <2>2
    <3>2. PICK g: g = nd[j].fd /\ g \in Fds /\ ix[g] = j
      BY <1>2, <3>1
    <3>3. g # fd /\ g # last.fd
      BY <1>1, <1>2, <2>2, <3>1, <3>2
    <3>4. ix'[g] = j
      BY <1>5, <3>2, <3>3
    <3>5. QED BY <3>1, <3>2, <3>4
  <2>3. QED BY <2>1, <2>2
<1>8. ASSUME NEW g \in Fds, ix'[g] # 0
      PROVE  ix'[g] \in DOMAIN nd' /\ nd'[ix'[g]].fd = g
  <2>1. CASE i # Len(nd) /\ g = last.fd
    BY <2>1, <1>1, <1>4, <1>5
  <2>2. CASE ~(i # Len(nd) /\ g = last.fd)
    <3>1. g # fd /\ ix'[g] = ix[g] /\ ix[g] \in DOMAIN nd /\ nd[ix[g]].fd = g
      BY <2>2, <1>8, <1>3, <1>5
    <3>2. ix[g] # i /\ ix[g] # Len(nd)
      BY <3>1, <2>2, <1>1
    <3>3. QED BY <3>1, <3>2, <1>1, <1>4
  <2>3. QED BY <2>1, <2>2
<1>9. QED BY <1>4, <1>6, <1>7, <1>8 DEF FdMapConsistent, IsWatched, EntryOf

(* The list of changes stays a list of changes, whatever indices it is *)
(* used with. *)
LEMMA RecordChangeTypes ==
  ASSUME FdTypeOK, NEW fd \in Fds, NEW old \in EventSets, NEW events \in EventSets,
         RecordChange(fd, old, events)
  PROVE  changes' \in Seq(Changes) /\ change_index' \in [Fds -> Nat]
<1>1. changes \in Seq(Changes) /\ change_index \in [Fds -> Nat] /\ Len(changes) \in Nat
  BY DEF FdTypeOK
<1>2. CASE change_index[fd] = 0
  <2> DEFINE entry == [fd |-> fd, old_events |-> old, events |-> events]
  <2>1. entry \in Changes
    BY DEF Changes
  <2>2. /\ changes' = Append(changes, entry)
        /\ change_index' = [change_index EXCEPT ![fd] = Len(changes) + 1]
    BY <1>2 DEF RecordChange
  <2> HIDE DEF entry
  <2>3. QED BY <1>1, <2>1, <2>2
<1>3. CASE change_index[fd] # 0 /\ change_index[fd] > Len(changes)
  BY <1>1, <1>3 DEF RecordChange
<1>4. CASE change_index[fd] # 0 /\ ~(change_index[fd] > Len(changes))
  <2> DEFINE c == change_index[fd]
             entry == [changes[c] EXCEPT !.fd = fd, !.events = events]
  <2>1. c \in 1..Len(changes)
    BY <1>1, <1>4
  <2>2. changes[c] \in Changes
    BY <1>1, <2>1, ElementOfSeq
  <2>3. entry \in Changes
    BY <2>2 DEF Changes
  <2>4. changes' = [changes EXCEPT ![c] = entry] /\ change_index' = change_index
    BY <1>1, <1>4, <2>1, <2>2 DEF RecordChange, Changes
  <2>5. QED BY <1>1, <2>1, <2>3, <2>4, ExceptSeq
<1>5. QED BY <1>2, <1>3, <1>4

LEMMA OldEventsType ==
  ASSUME FdTypeOK, FdMapConsistent, NEW fd \in Fds
  PROVE  OldEvents(fd) \in EventSets
<1>1. CASE notify_desired_index[fd] = 0
  BY <1>1 DEF OldEvents, EventSets
<1>2. CASE notify_desired_index[fd] # 0
  <2>1. notifies_desired[notify_desired_index[fd]] \in Desired
    BY <1>2, ElementOfSeq DEF FdTypeOK, FdMapConsistent, IsWatched
  <2>2. QED BY <1>2, <2>1, DesiredFields DEF OldEvents
<1>3. QED BY <1>1, <1>2

LEMMA DeallocateChangeTypes ==
  ASSUME FdTypeOK, NEW fd \in Fds, change_index[fd] # 0,
         DeallocateChangeAsserts(fd), DeallocateChange(fd)
  PROVE  changes' \in Seq(Changes) /\ change_index' \in [Fds -> Nat]
<1>1. /\ changes \in Seq(Changes) /\ change_index \in [Fds -> Nat]
      /\ change_index[fd] \in DOMAIN changes
      /\ changes[change_index[fd]].fd \in Fds
  <2>1. /\ changes \in Seq(Changes) /\ change_index \in [Fds -> Nat]
        /\ change_index[fd] \in DOMAIN changes
    BY DEF FdTypeOK, DeallocateChangeAsserts
  <2>2. changes[change_index[fd]] \in Changes
    BY <2>1, ElementOfSeq
  <2>3. QED BY <2>1, <2>2, ChangesFields
<1>2. changes' \in Seq(Changes)
  BY <1>1, FillHoleFacts DEF DeallocateChange
<1>3. change_index' \in [Fds -> Nat]
  BY <1>1 DEF DeallocateChange
<1>4. QED BY <1>2, <1>3

LEMMA ClearChangesTypes ==
  ASSUME FdTypeOK, ClearChanges
  PROVE  changes' \in Seq(Changes) /\ change_index' \in [Fds -> Nat]
BY DEF FdTypeOK, ClearChanges

-----------------------------------------------------------------------------
(* One lemma for each operation on the tables. *)

LEMMA InitFdInv == Init => FdInv
BY DEF Init, FdInit, FdInv, FdTypeOK, FdMapConsistent, IsWatched

LEMMA WatchFdKeepsFdInv ==
  ASSUME FdInv, NEW fd \in Fds, NEW events \in EventSets, NEW func \in Funcs,
         WatchFd(fd, events, func)
  PROVE  FdInv'
<1> DEFINE nd == notifies_desired
           ix == notify_desired_index
           entry == [fd |-> fd, events |-> events, func |-> func]
<1> USE DEF FdInv
<1>1. /\ nd \in Seq(Desired) /\ ix \in [Fds -> Nat] /\ entry \in Desired
      /\ DOMAIN nd = 1..Len(nd) /\ Len(nd) \in Nat
      /\ \A j \in DOMAIN nd: nd[j].fd \in Fds /\ ix[nd[j].fd] = j
      /\ \A g \in Fds: ix[g] # 0 => ix[g] \in DOMAIN nd /\ nd[ix[g]].fd = g
  <2>1. nd \in Seq(Desired) /\ ix \in [Fds -> Nat]
    BY DEF FdTypeOK
  <2>2. entry \in Desired
    BY DEF WatchFd, Desired
  <2>3. \A j \in DOMAIN nd: nd[j].fd \in Fds
    BY <2>1, ElementOfSeq, DesiredFields
  <2>4. QED BY <2>1, <2>2, <2>3 DEF FdMapConsistent, IsWatched, EntryOf
<1>2. changes' \in Seq(Changes) /\ change_index' \in [Fds -> Nat]
  BY OldEventsType, RecordChangeTypes DEF WatchFd
<1>3. closed_since_notify_started' \in [Fds -> BOOLEAN]
  BY DEF WatchFd, FdTypeOK
<1>4. CASE ix[fd] = 0
  <2>1. /\ nd' = Append(nd, entry)
        /\ ix' = [ix EXCEPT ![fd] = Len(nd) + 1]
    BY <1>4 DEF WatchFd
  <2>2. /\ nd' \in Seq(Desired) /\ ix' \in [Fds -> Nat]
        /\ DOMAIN nd' = 1..(Len(nd) + 1)
        /\ \A j \in DOMAIN nd': nd'[j] = IF j = Len(nd) + 1 THEN entry ELSE nd[j]
    BY <1>1, <2>1
  <2>3. FdMapConsistent'
    BY <1>1, <1>4, <2>1, <2>2 DEF FdMapConsistent, IsWatched, EntryOf
  <2>4. QED BY <1>2, <1>3, <2>2, <2>3 DEF FdTypeOK
<1>5. CASE ix[fd] # 0
  <2>1. nd' = [nd EXCEPT ![ix[fd]] = entry] /\ ix' = ix
    BY <1>5 DEF WatchFd
  <2>2. /\ nd' \in Seq(Desired) /\ DOMAIN nd' = DOMAIN nd
        /\ \A j \in DOMAIN nd': nd'[j] = IF j = ix[fd] THEN entry ELSE nd[j]
    BY <1>1, <1>5, <2>1
  <2>3. FdMapConsistent'
    BY <1>1, <1>5, <2>1, <2>2 DEF FdMapConsistent, IsWatched, EntryOf
  <2>4. QED BY <1>1, <1>2, <1>3, <2>1, <2>2, <2>3 DEF FdTypeOK
<1>6. QED BY <1>4, <1>5

LEMMA UnwatchFdKeepsFdInv ==
  ASSUME FdInv, NEW fd \in Fds, UnwatchFd(fd)
  PROVE  FdInv'
<1> USE DEF FdInv
<1>1. changes' \in Seq(Changes) /\ change_index' \in [Fds -> Nat]
  <2>1. {} \in EventSets
    BY DEF EventSets
  <2>2. QED BY <2>1, OldEventsType, RecordChangeTypes DEF UnwatchFd
<1>2. closed_since_notify_started' \in [Fds -> BOOLEAN]
  BY DEF UnwatchFd, FdTypeOK
<1>3. CASE notify_desired_index[fd] = 0
  BY <1>1, <1>2, <1>3 DEF UnwatchFd, FdTypeOK, FdMapConsistent, IsWatched, EntryOf
<1>4. CASE notify_desired_index[fd] # 0
  BY <1>1, <1>2, <1>4, DeallocateKeepsConsistency DEF UnwatchFd, FdTypeOK
<1>5. QED BY <1>3, <1>4

LEMMA FdClosedKeepsFdInv ==
  ASSUME FdInv, NEW fd \in Fds, DeallocateChangeAsserts(fd), FdClosed(fd)
  PROVE  FdInv'
<1> USE DEF FdInv
<1>1. changes' \in Seq(Changes) /\ change_index' \in [Fds -> Nat]
  BY DeallocateChangeTypes DEF FdClosed, FdTypeOK
<1>2. closed_since_notify_started' \in [Fds -> BOOLEAN]
  BY DEF FdClosed, FdTypeOK
<1>3. CASE notify_desired_index[fd] = 0
  BY <1>1, <1>2, <1>3 DEF FdClosed, FdTypeOK, FdMapConsistent, IsWatched, EntryOf
<1>4. CASE notify_desired_index[fd] # 0
  BY <1>1, <1>2, <1>4, DeallocateKeepsConsistency DEF FdClosed, FdTypeOK
<1>5. QED BY <1>3, <1>4

LEMMA RunKeepsFdInv ==
  ASSUME FdInv, NEW time \in Times, NEW ready \in Reports, Run(time, ready)
  PROVE  FdInv'
<1> USE DEF FdInv
<1>1. /\ changes' \in Seq(Changes) /\ change_index' \in [Fds -> Nat]
      /\ closed_since_notify_started' \in [Fds -> BOOLEAN]
  <2>1. CASE ClearChangesAsserts
    BY <2>1, ClearChangesTypes DEF Run
  <2>2. CASE ~ClearChangesAsserts
    BY <2>2 DEF Run, FdTypeOK
  <2>3. QED BY <2>1, <2>2
<1>2. UNCHANGED <<notifies_desired, notify_desired_index>>
  BY DEF Run
<1>3. QED BY <1>1, <1>2 DEF FdTypeOK, FdMapConsistent, IsWatched, EntryOf

(* Steps that leave the tables alone. *)
LEMMA UnchangedKeepsFdInv ==
  ASSUME FdInv, UNCHANGED fdVars
  PROVE  FdInv'
BY DEF FdInv, fdVars, FdTypeOK, FdMapConsistent, IsWatched, EntryOf

-----------------------------------------------------------------------------

LEMMA CallKeepsFdInv ==
  ASSUME FdInv, Call
  PROVE  FdInv'
<1>1. CASE \E fd \in Fds, events \in EventSets, func \in Funcs: CallWatchFd(fd, events, func)
  BY <1>1, WatchFdKeepsFdInv DEF CallWatchFd
<1>2. CASE \E fd \in Fds: CallUnwatchFd(fd)
  BY <1>2, UnwatchFdKeepsFdInv DEF CallUnwatchFd
<1>3. CASE \E fd \in Fds: CallFdClosed(fd)
  BY <1>3, FdClosedKeepsFdInv, UnchangedKeepsFdInv DEF CallFdClosed
<1>4. CASE \E t \in Nodes, when \in Times: CallAddTimer(t, when) \/ CallAdjustTimer(t, when)
  BY <1>4, UnchangedKeepsFdInv DEF CallAddTimer, CallAdjustTimer
<1>5. CASE \E t \in Nodes: CallRemoveTimer(t)
  BY <1>5, UnchangedKeepsFdInv DEF CallRemoveTimer
<1>6. CASE \E i \in Idles: CallAddIdle(i) \/ CallRemoveIdle(i)
  BY <1>6, UnchangedKeepsFdInv DEF CallAddIdle, CallRemoveIdle
<1>7. QED BY <1>1, <1>2, <1>3, <1>4, <1>5, <1>6 DEF Call

LEMMA NotifyDoneKeepsFdInv ==
  ASSUME FdInv, NotifyDone
  PROVE  FdInv'
<1>1. changes' \in Seq(Changes) /\ change_index' \in [Fds -> Nat]
  BY ClearChangesTypes DEF NotifyDone, FdInv
<1>2. QED BY <1>1 DEF NotifyDone, FdInv, FdTypeOK, FdMapConsistent, IsWatched, EntryOf

LEMMA NextKeepsFdInv == FdInv /\ [Next]_vars => FdInv'
<1> SUFFICES ASSUME FdInv, [Next]_vars PROVE FdInv'
  OBVIOUS
<1>1. CASE Call
  BY <1>1, CallKeepsFdInv
<1>2. CASE NotifyDone
  BY <1>2, NotifyDoneKeepsFdInv
<1>3. CASE Notify \/ RunIdle \/ IdleDone \/ RunTimer \/ TimerDone \/ Return
  BY <1>3, UnchangedKeepsFdInv DEF Notify, RunIdle, IdleDone, RunTimer, TimerDone, Return
<1>4. CASE \E time \in Times, ready \in Reports: Run(time, ready)
  BY <1>4, RunKeepsFdInv
<1>5. CASE UNCHANGED vars
  BY <1>5, UnchangedKeepsFdInv DEF vars
<1>6. QED BY <1>1, <1>2, <1>3, <1>4, <1>5 DEF Next, Dispatch

(* In every state of the event loop the tables of descriptors have their *)
(* types: no operation, whatever stale index it meets in the list of *)
(* changes, puts anything else into them. *)
THEOREM FdTypesHold == Spec => []FdTypeOK
<1>1. Spec => []FdInv
  BY InitFdInv, NextKeepsFdInv, PTL DEF Spec
<1>2. FdInv => FdTypeOK
  BY DEF FdInv
<1>3. QED BY <1>1, <1>2, PTL

(* notifies_desired lists every watched descriptor once and fd_map finds *)
(* its entry, in every state of the event loop, between and during the *)
(* callbacks (dsk_dispatch_watch_fd, dsk_dispatch_fd_closed and *)
(* deallocate_notify_desired_index). *)
THEOREM FdMapStaysConsistent == Spec => []FdMapConsistent
<1>1. Spec => []FdInv
  BY InitFdInv, NextKeepsFdInv, PTL DEF Spec
<1>2. FdInv => FdMapConsistent
  BY DEF FdInv
<1>3. QED BY <1>1, <1>2, PTL

-----------------------------------------------------------------------------
(* The loop implements WatchContract: what the tables say of each *)
(* descriptor changes as the contract's own map does. *)

WatchOf == [fd \in Fds |-> IF IsWatched(fd)
                           THEN [events |-> EntryOf(fd).events, func |-> EntryOf(fd).func]
                           ELSE [events |-> {}]]
ReadyOf == {n \in ToSet(notifies): ~closed_since_notify_started[n.fd]}

Reported == [fd: Fds, events: EventSets]

(* What poll reported names each descriptor once, and is handled before *)
(* the loop goes on. *)
NotifyInv ==
  /\ notifies \in Seq(Reported)
  /\ \A i, j \in DOMAIN notifies: notifies[i].fd = notifies[j].fd => i = j
  /\ pc # "notify" => notifies = <<>>
  /\ pc = "user" => running = NoCallback
  /\ running.kind = "none" => running = NoCallback

WatchInv == FdInv /\ NotifyInv

LEMMA ReportedFields ==
  ASSUME NEW n \in Reported
  PROVE  n.fd \in Fds /\ n.events \in EventSets
BY DEF Reported

LEMMA TypeOfReports ==
  ASSUME NEW s \in Seq(Reported)
  PROVE  \A i \in DOMAIN s: s[i] \in Reported /\ s[i].fd \in Fds
BY ElementOfSeq, ReportedFields

LEMMA FunctionIsSeq ==
  ASSUME NEW T, NEW n \in Nat, NEW s \in [1..n -> T]
  PROVE  s \in Seq(T)
OBVIOUS

LEMMA EntriesOfWatched ==
  ASSUME FdInv, NEW fd \in Fds, IsWatched(fd)
  PROVE  /\ notify_desired_index[fd] \in DOMAIN notifies_desired
         /\ EntryOf(fd) \in Desired /\ EntryOf(fd).fd = fd
<1>1. /\ notify_desired_index[fd] \in DOMAIN notifies_desired /\ EntryOf(fd).fd = fd
      /\ notifies_desired \in Seq(Desired)
  BY DEF FdInv, FdTypeOK, FdMapConsistent
<1>2. QED BY <1>1, ElementOfSeq DEF EntryOf

LEMMA DeallocateKeepsOthers ==
  ASSUME FdInv, NEW fd \in Fds, notify_desired_index[fd] # 0, DeallocateNotifyDesired(fd)
  PROVE  /\ notify_desired_index'[fd] = 0
         /\ \A g \in Fds \ {fd}:
               /\ notify_desired_index'[g] # 0 <=> notify_desired_index[g] # 0
               /\ notify_desired_index[g] # 0 =>
                    notifies_desired'[notify_desired_index'[g]]
                      = notifies_desired[notify_desired_index[g]]
<1> DEFINE nd == notifies_desired
           ix == notify_desired_index
           i == ix[fd]
           last == nd[Len(nd)]
<1> USE DEF FdInv
<1>1. /\ nd \in Seq(Desired) /\ ix \in [Fds -> Nat]
      /\ i \in DOMAIN nd /\ nd[i].fd = fd
      /\ DOMAIN nd = 1..Len(nd) /\ Len(nd) \in Nat /\ Len(nd) \in DOMAIN nd
  BY DEF FdTypeOK, FdMapConsistent, IsWatched, EntryOf
<1>2. last.fd \in Fds /\ ix[last.fd] = Len(nd)
  <2>1. last \in Desired
    BY <1>1, ElementOfSeq
  <2>2. QED BY <1>1, <2>1, DesiredFields DEF FdMapConsistent
<1>3. \A g \in Fds: ix[g] # 0 => ix[g] \in DOMAIN nd /\ nd[ix[g]].fd = g
  BY DEF FdMapConsistent, IsWatched, EntryOf
<1>4. \A j \in 1..(Len(nd) - 1): nd'[j] = IF j = i THEN last ELSE nd[j]
  <2>1. \A j \in 1..(Len(nd) - 1): FillHole(nd, i)[j] = IF j = i THEN last ELSE nd[j]
    BY <1>1, FillHoleFacts
  <2>2. QED BY <2>1 DEF DeallocateNotifyDesired
<1>5. \A g \in Fds: ix'[g] = IF i # Len(nd) /\ g = last.fd THEN i
                             ELSE IF g = fd THEN 0 ELSE ix[g]
  BY <1>1, <1>2 DEF DeallocateNotifyDesired
<1>6. ix'[fd] = 0
  BY <1>1, <1>2, <1>5
<1>7. ASSUME NEW g \in Fds \ {fd}
      PROVE  (ix'[g] # 0 <=> ix[g] # 0) /\ (ix[g] # 0 => nd'[ix'[g]] = nd[ix[g]])
  <2>1. CASE i # Len(nd) /\ g = last.fd
    <3>1. ix'[g] = i /\ ix[g] = Len(nd) /\ i # 0 /\ Len(nd) # 0 /\ i \in 1..(Len(nd) - 1)
      BY <2>1, <1>1, <1>2, <1>5
    <3>2. QED BY <3>1, <1>4
  <2>2. CASE ~(i # Len(nd) /\ g = last.fd)
    <3>1. ix'[g] = ix[g]
      BY <2>2, <1>5
    <3>2. ix[g] # 0 => ix[g] \in 1..(Len(nd) - 1) /\ ix[g] # i
      BY <2>2, <1>1, <1>3
    <3>3. QED BY <3>1, <3>2, <1>4
  <2>3. QED BY <2>1, <2>2
<1>8. QED BY <1>6, <1>7

LEMMA WatchFdIsWatch ==
  ASSUME FdInv, NEW fd \in Fds, NEW events \in EventSets, NEW func \in Funcs,
         WatchFd(fd, events, func)
  PROVE  WatchOf' = [WatchOf EXCEPT ![fd] = [events |-> events, func |-> func]]
<1> DEFINE nd == notifies_desired
           ix == notify_desired_index
           entry == [fd |-> fd, events |-> events, func |-> func]
<1>1. /\ ix \in [Fds -> Nat] /\ Len(nd) \in Nat /\ DOMAIN nd = 1..Len(nd)
      /\ \A g \in Fds: ix[g] # 0 => ix[g] \in DOMAIN nd /\ nd[ix[g]].fd = g
      /\ nd \in Seq(Desired)
  BY DEF FdInv, FdTypeOK, FdMapConsistent, IsWatched, EntryOf
<1>2. /\ ix'[fd] # 0 /\ nd'[ix'[fd]] = entry
      /\ \A g \in Fds \ {fd}: ix'[g] = ix[g] /\ (ix[g] # 0 => nd'[ix[g]] = nd[ix[g]])
  <2>1. CASE ix[fd] = 0
    <3>1. nd' = Append(nd, entry) /\ ix' = [ix EXCEPT ![fd] = Len(nd) + 1]
      BY <2>1 DEF WatchFd
    <3>2. nd'[Len(nd) + 1] = entry /\ \A j \in DOMAIN nd: nd'[j] = nd[j]
      BY <3>1, <1>1
    <3>3. QED BY <3>1, <3>2, <1>1
  <2>2. CASE ix[fd] # 0
    <3>1. nd' = [nd EXCEPT ![ix[fd]] = entry] /\ ix' = ix
      BY <2>2 DEF WatchFd
    <3>2. QED BY <2>2, <3>1, <1>1
  <2>3. QED BY <2>1, <2>2
<1>3. \A g \in Fds: WatchOf'[g] = IF g = fd THEN [events |-> events, func |-> func] ELSE WatchOf[g]
  BY <1>2 DEF WatchOf, IsWatched, EntryOf
<1>4. QED BY <1>3 DEF WatchOf

LEMMA DeallocateIsUnwatch ==
  ASSUME FdInv, NEW fd \in Fds, notify_desired_index[fd] # 0, DeallocateNotifyDesired(fd)
  PROVE  WatchOf' = [WatchOf EXCEPT ![fd] = [events |-> {}]]
<1>1. \A g \in Fds: WatchOf'[g] = IF g = fd THEN [events |-> {}] ELSE WatchOf[g]
  BY DeallocateKeepsOthers DEF WatchOf, IsWatched, EntryOf
<1>2. QED BY <1>1 DEF WatchOf

(* dsk_dispatch_watch_fd with no events, and dsk_dispatch_fd_closed. *)
LEMMA UnwatchIsUnwatch ==
  ASSUME FdInv, NEW fd \in Fds,
         IF notify_desired_index[fd] = 0
         THEN UNCHANGED <<notify_desired_index, notifies_desired>>
         ELSE DeallocateNotifyDesired(fd)
  PROVE  WatchOf' = [WatchOf EXCEPT ![fd] = [events |-> {}]]
<1>1. CASE notify_desired_index[fd] = 0
  <2>1. WatchOf' = WatchOf
    BY <1>1 DEF WatchOf, IsWatched, EntryOf
  <2>2. WatchOf[fd] = [events |-> {}]
    BY <1>1 DEF WatchOf, IsWatched
  <2>3. QED BY <2>1, <2>2 DEF WatchOf
<1>2. CASE notify_desired_index[fd] # 0
  BY <1>2, DeallocateIsUnwatch
<1>3. QED BY <1>1, <1>2

(* What poll may report. *)
LEMMA ReportsFacts ==
  ASSUME FdInv, NEW ready \in Reports
  PROVE  /\ ready \in Seq(Reported)
         /\ \A i, j \in DOMAIN ready: ready[i].fd = ready[j].fd => i = j
         /\ \A k \in DOMAIN ready: IsWatched(ready[k].fd)
<1> DEFINE nd == notifies_desired
<1>1. PICK place \in Places: \E e \in EventsAt(place):
              ready = [k \in DOMAIN place |-> [fd |-> nd[place[k]].fd, events |-> e[k]]]
  BY DEF Reports
<1>2. PICK e \in EventsAt(place):
              ready = [k \in DOMAIN place |-> [fd |-> nd[place[k]].fd, events |-> e[k]]]
  BY <1>1
<1>3. PICK n \in 0..Len(nd): /\ place \in [1..n -> DOMAIN nd]
                             /\ \A j, k \in 1..n: j < k => place[j] < place[k]
  BY DEF Places
<1>4. e \in [1..n -> EventSets]
  BY <1>3 DEF EventsAt
<1>5. nd \in Seq(Desired) /\ Len(nd) \in Nat /\ DOMAIN nd = 1..Len(nd)
  BY DEF FdInv, FdTypeOK
<1>6. \A i \in DOMAIN nd: nd[i].fd \in Fds /\ notify_desired_index[nd[i].fd] = i
  BY <1>5, ElementOfSeq, DesiredFields DEF FdInv, FdMapConsistent
<1>7. /\ DOMAIN ready = 1..n /\ n \in Nat
      /\ \A k \in 1..n: ready[k] = [fd |-> nd[place[k]].fd, events |-> e[k]] /\ place[k] \in DOMAIN nd
  BY <1>2, <1>3, <1>5
<1>8. ready \in Seq(Reported)
  <2>1. ready \in [1..n -> Reported]
    BY <1>2, <1>3, <1>4, <1>6 DEF Reported
  <2>2. QED BY <2>1, <1>7, FunctionIsSeq
<1>9. ASSUME NEW i \in DOMAIN ready, NEW j \in DOMAIN ready, ready[i].fd = ready[j].fd
      PROVE  i = j
  <2>1. place[i] = place[j]
    BY <1>6, <1>7, <1>9
  <2>2. i \in 1..n /\ j \in 1..n /\ place[i] \in Nat
    BY <1>5, <1>7
  <2>3. ~(i < j) /\ ~(j < i)
    BY <2>1, <2>2, <1>3
  <2>4. QED BY <2>2, <2>3, <1>7
<1>10. \A k \in DOMAIN ready: IsWatched(ready[k].fd)
  BY <1>5, <1>6, <1>7 DEF IsWatched
<1>11. QED BY <1>8, <1>9, <1>10

LEMMA NextKeepsNotifyInv ==
  ASSUME WatchInv, [Next]_vars
  PROVE  NotifyInv'
<1> USE DEF WatchInv, NotifyInv
<1>1. CASE Call
  <2>1. UNCHANGED <<pc, notifies, running>>
    BY <1>1 DEF Call, Called, CallWatchFd, CallUnwatchFd, CallFdClosed, CallAddTimer,
       CallAdjustTimer, CallRemoveTimer, CallAddIdle, CallRemoveIdle
  <2>2. QED BY <2>1
<1>2. CASE Notify
  <2> DEFINE n == Head(notifies)
  <2>1. /\ notifies # <<>> /\ notifies' = Tail(notifies) /\ pc' = pc /\ pc = "notify"
        /\ running' = NoCallback \/ running'.kind = "fd"
    BY <1>2 DEF Notify, AtLoop
  <2>2. /\ Tail(notifies) \in Seq(Reported)
        /\ DOMAIN Tail(notifies) = 1..(Len(notifies) - 1)
        /\ \A i \in DOMAIN Tail(notifies): Tail(notifies)[i] = notifies[i + 1]
        /\ DOMAIN notifies = 1..Len(notifies) /\ Len(notifies) \in Nat
    BY <2>1
  <2>3. \A i, j \in DOMAIN notifies': notifies'[i].fd = notifies'[j].fd => i = j
    BY <2>1, <2>2
  <2>4. QED BY <2>1, <2>2, <2>3
<1>3. CASE NotifyDone \/ IdleDone
  BY <1>3 DEF NotifyDone, IdleDone, AtLoop
<1>4. CASE RunIdle \/ RunTimer
  BY <1>4 DEF RunIdle, RunTimer, AtLoop
<1>5. CASE TimerDone \/ Return
  BY <1>5 DEF TimerDone, Return, AtLoop
<1>6. CASE \E time \in Times, ready \in Reports: Run(time, ready)
  <2>1. PICK time \in Times, ready \in Reports: Run(time, ready)
    BY <1>6
  <2>2. CASE ClearChangesAsserts
    <3>1. pc' = "notify" /\ notifies' = ready /\ running' = running
      BY <2>1, <2>2 DEF Run
    <3>2. QED BY <3>1, ReportsFacts
  <2>3. CASE ~ClearChangesAsserts
    BY <2>1, <2>3 DEF Run
  <2>4. QED BY <2>2, <2>3
<1>7. CASE UNCHANGED vars
  BY <1>7 DEF vars, loopVars
<1>8. QED BY <1>1, <1>2, <1>3, <1>4, <1>5, <1>6, <1>7 DEF Next, Dispatch

LEMMA WatchInvHolds == Spec => []WatchInv
<1>1. Init => WatchInv
  <2>1. ASSUME Init PROVE NotifyInv
    BY <2>1 DEF Init, NotifyInv, NoCallback
  <2>2. QED BY <2>1, InitFdInv DEF WatchInv
<1>2. WatchInv /\ [Next]_vars => WatchInv'
  BY NextKeepsFdInv, NextKeepsNotifyInv DEF WatchInv
<1>3. QED BY <1>1, <1>2, PTL DEF Spec

-----------------------------------------------------------------------------
(* Each step is a step of the contract, or none. *)

LEMMA CallsRefine ==
  ASSUME WatchInv, Call
  PROVE  [Watching!Next]_(Watching!vars)
<1> USE DEF WatchInv
<1>1. ASSUME NEW fd \in Fds, NEW events \in EventSets, NEW func \in Funcs,
             CallWatchFd(fd, events, func)
      PROVE  Watching!Watch(fd, events, func)
  <2>1. WatchOf' = [WatchOf EXCEPT ![fd] = [events |-> events, func |-> func]]
    BY <1>1, WatchFdIsWatch DEF CallWatchFd
  <2>2. UNCHANGED <<closed_since_notify_started, notifies, running>>
    BY <1>1 DEF CallWatchFd, WatchFd, Called
  <2>3. QED BY <2>1, <2>2 DEF Watching!Watch, WatchOf, Only
<1>2. ASSUME NEW fd \in Fds, CallUnwatchFd(fd)
      PROVE  Watching!Unwatch(fd)
  <2>1. WatchOf' = [WatchOf EXCEPT ![fd] = [events |-> {}]]
    BY <1>2, UnwatchIsUnwatch DEF CallUnwatchFd, UnwatchFd
  <2>2. UNCHANGED <<closed_since_notify_started, notifies, running>>
    BY <1>2 DEF CallUnwatchFd, UnwatchFd, Called
  <2>3. QED BY <2>1, <2>2 DEF Watching!Unwatch, Watching!NotWatched, WatchOf, Only
<1>3. ASSUME NEW fd \in Fds, CallFdClosed(fd)
      PROVE  Watching!Close(fd) \/ UNCHANGED Watching!vars
  <2>1. CASE DeallocateChangeAsserts(fd)
    <3>1. FdClosed(fd) /\ UNCHANGED <<notifies, running>>
      BY <1>3, <2>1 DEF CallFdClosed, Called
    <3>2. WatchOf' = [WatchOf EXCEPT ![fd] = [events |-> {}]]
      BY <3>1, UnwatchIsUnwatch DEF FdClosed
    <3>3. ReadyOf' = {r \in ReadyOf: r.fd # fd}
      <4>1. closed_since_notify_started' = [closed_since_notify_started EXCEPT ![fd] = TRUE]
        BY <3>1 DEF FdClosed
      <4>2. \A n \in ToSet(notifies): n.fd \in Fds
        BY TypeOfReports DEF NotifyInv, ToSet
      <4>3. \A n \in ToSet(notifies): ~closed_since_notify_started'[n.fd]
                                        <=> ~closed_since_notify_started[n.fd] /\ n.fd # fd
        BY <4>1, <4>2 DEF FdInv, FdTypeOK
      <4>4. QED BY <3>1, <4>3 DEF ReadyOf, ToSet
    <3>4. QED BY <3>1, <3>2, <3>3 DEF Watching!Close, Watching!NotWatched, WatchOf, ReadyOf, Only
  <2>2. CASE ~DeallocateChangeAsserts(fd)
    BY <1>3, <2>2 DEF CallFdClosed, Called, fdVars, Watching!vars, Only, IsWatched, EntryOf
  <2>3. QED BY <2>1, <2>2
<1>4. ASSUME UNCHANGED fdVars, UNCHANGED <<notifies, running>>
      PROVE  UNCHANGED Watching!vars
  BY <1>4 DEF fdVars, Watching!vars, Only, IsWatched, EntryOf
<1>5. CASE \/ \E t \in Nodes, when \in Times: CallAddTimer(t, when) \/ CallAdjustTimer(t, when)
           \/ \E t \in Nodes: CallRemoveTimer(t)
           \/ \E i \in Idles: CallAddIdle(i) \/ CallRemoveIdle(i)
  <2>1. UNCHANGED fdVars /\ UNCHANGED <<notifies, running>>
    BY <1>5 DEF CallAddTimer, CallAdjustTimer, CallRemoveTimer, CallAddIdle, CallRemoveIdle, Called
  <2>2. QED BY <1>4, <2>1
<1>6. CASE \E fd \in Fds, events \in EventSets, func \in Funcs: CallWatchFd(fd, events, func)
  BY <1>1, <1>6 DEF Watching!Next, EventSets
<1>7. CASE \E fd \in Fds: CallUnwatchFd(fd) \/ CallFdClosed(fd)
  BY <1>2, <1>3, <1>7 DEF Watching!Next
<1>8. QED BY <1>5, <1>6, <1>7 DEF Call

LEMMA RunRefines ==
  ASSUME WatchInv, NEW time \in Times, NEW ready \in Reports, Run(time, ready)
  PROVE  Watching!Report \/ UNCHANGED Watching!vars
<1> USE DEF WatchInv
<1>1. /\ UNCHANGED <<notifies_desired, notify_desired_index, running>>
      /\ running = NoCallback /\ notifies = <<>>
  BY DEF Run, NotifyInv
<1>2. WatchOf' = WatchOf
  BY <1>1 DEF WatchOf, IsWatched, EntryOf
<1>3. CASE ClearChangesAsserts
  <2>1. /\ notifies' = ready
        /\ closed_since_notify_started' =
             [fd \in Fds |-> closed_since_notify_started[fd]
                             /\ \A i \in DOMAIN ready: ready[i].fd # fd]
    BY <1>3 DEF Run
  <2>2. /\ ready \in Seq(Reported)
        /\ \A i, j \in DOMAIN ready: ready[i].fd = ready[j].fd => i = j
        /\ \A k \in DOMAIN ready: IsWatched(ready[k].fd)
    BY ReportsFacts
  <2>3. \A k \in DOMAIN ready: ready[k] \in Reported
    BY <2>2, TypeOfReports
  <2>4. ReadyOf' \subseteq ToSet(ready)
    BY <2>1 DEF ReadyOf, ToSet
  <2>5. \A fd \in Fds: IsWatched(fd) => WatchOf[fd] # [events |-> {}]
    <3>1. ASSUME NEW fd \in Fds, IsWatched(fd) PROVE WatchOf[fd] # [events |-> {}]
      <4>1. EntryOf(fd).events # {}
        BY <3>1, EntriesOfWatched DEF Desired
      <4>2. WatchOf[fd].events = EntryOf(fd).events
        BY <3>1 DEF WatchOf
      <4>3. QED BY <4>1, <4>2
    <3>2. QED BY <3>1
  <2>6. ReadyOf' \subseteq [fd: {fd \in Fds: WatchOf[fd] # [events |-> {}]}, events: SUBSET Events]
    BY <2>2, <2>3, <2>4, <2>5 DEF ToSet, EventSets, Reported
  <2>7. \A r, s \in ReadyOf': r.fd = s.fd => r = s
    BY <2>2, <2>4 DEF ToSet
  <2>8. ReadyOf = {}
    BY <1>1 DEF ReadyOf, ToSet
  <2>9. QED BY <1>1, <1>2, <2>6, <2>7, <2>8
       DEF Watching!Report, Watching!NotWatched, WatchOf, ReadyOf, Only
<1>4. CASE ~ClearChangesAsserts
  BY <1>1, <1>2, <1>4 DEF Run, Watching!vars, WatchOf, Only
<1>5. QED BY <1>3, <1>4

(* A report that is handled is one that the contract has, unless the *)
(* descriptor was closed since. *)
LEMMA NotifyRefines ==
  ASSUME WatchInv, Notify
  PROVE  (\E r \in ReadyOf: Watching!Handle(r)) \/ UNCHANGED Watching!vars
<1> USE DEF WatchInv
<1>0. PICK n: n = Head(notifies)
  OBVIOUS
<1>1. /\ notifies # <<>> /\ running = NoCallback /\ notifies' = Tail(notifies)
      /\ UNCHANGED fdVars
      /\ running' = IF Deliverable(n)
                    THEN [kind |-> "fd", fd |-> n.fd,
                          events |-> EntryOf(n.fd).events \cap n.events,
                          func |-> EntryOf(n.fd).func]
                    ELSE NoCallback
  BY <1>0 DEF Notify, AtLoop
<1>2. /\ n = notifies[1] /\ n.fd \in Fds
      /\ DOMAIN notifies = 1..Len(notifies) /\ Len(notifies) \in Nat /\ 1 \in DOMAIN notifies
      /\ DOMAIN Tail(notifies) = 1..(Len(notifies) - 1)
      /\ \A i \in DOMAIN Tail(notifies): Tail(notifies)[i] = notifies[i + 1]
  <2>1. notifies \in Seq(Reported) /\ notifies # <<>>
    BY <1>1 DEF NotifyInv
  <2>2. /\ n = notifies[1]
        /\ DOMAIN notifies = 1..Len(notifies) /\ Len(notifies) \in Nat /\ 1 \in DOMAIN notifies
        /\ DOMAIN Tail(notifies) = 1..(Len(notifies) - 1)
        /\ \A i \in DOMAIN Tail(notifies): Tail(notifies)[i] = notifies[i + 1]
    BY <1>0, <2>1
  <2>3. QED BY <2>1, <2>2, TypeOfReports
<1>3. ToSet(notifies') = ToSet(notifies) \ {n}
  <2>1. \A i \in DOMAIN Tail(notifies): Tail(notifies)[i] # n
    BY <1>2 DEF NotifyInv
  <2>2. \A i \in DOMAIN notifies: i # 1 => /\ i - 1 \in DOMAIN Tail(notifies)
                                           /\ Tail(notifies)[i - 1] = notifies[i]
    BY <1>2
  <2>3. \A i \in DOMAIN Tail(notifies): i + 1 \in DOMAIN notifies
    BY <1>2
  <2>4. QED BY <1>1, <1>2, <2>1, <2>2, <2>3 DEF ToSet
<1>4. WatchOf' = WatchOf /\ closed_since_notify_started' = closed_since_notify_started
  BY <1>1 DEF fdVars, WatchOf, IsWatched, EntryOf
<1>5. ReadyOf' = ReadyOf \ {n}
  BY <1>3, <1>4 DEF ReadyOf
<1>6. Only({"fd"})' = running' /\ Only({"fd"}) = NoCallback
  BY <1>1 DEF Only, NoCallback
<1>7. CASE closed_since_notify_started[n.fd]
  <2>1. n \notin ReadyOf /\ running' = NoCallback
    BY <1>1, <1>7 DEF ReadyOf, Deliverable
  <2>2. QED BY <1>4, <1>5, <1>6, <2>1 DEF Watching!vars, WatchOf, ReadyOf
<1>8. CASE ~closed_since_notify_started[n.fd]
  <2>1. n \in ReadyOf
    BY <1>2, <1>8 DEF ReadyOf, ToSet
  <2>2. Deliverable(n) <=> WatchOf[n.fd].events \cap n.events # {}
    BY <1>2, <1>8 DEF Deliverable, WatchOf
  <2>3. Deliverable(n) => /\ WatchOf[n.fd].events = EntryOf(n.fd).events
                          /\ WatchOf[n.fd].func = EntryOf(n.fd).func
    BY <1>2 DEF Deliverable, WatchOf
  <2>4. running' = IF WatchOf[n.fd].events \cap n.events = {} THEN NoCallback
                   ELSE [kind |-> "fd", fd |-> n.fd,
                         events |-> WatchOf[n.fd].events \cap n.events,
                         func |-> WatchOf[n.fd].func]
    BY <1>1, <2>2, <2>3
  <2>5. Watching!Handle(n)
    BY <1>4, <1>5, <1>6, <2>4 DEF Watching!Handle, Watching!Wanted, WatchOf, ReadyOf
  <2>6. QED BY <2>1, <2>5
<1>9. QED BY <1>7, <1>8

LEMMA OthersRefine ==
  ASSUME WatchInv, NotifyDone \/ RunIdle \/ IdleDone \/ RunTimer \/ TimerDone \/ Return
  PROVE  Watching!Return \/ UNCHANGED Watching!vars
<1>1. UNCHANGED <<notifies_desired, notify_desired_index, closed_since_notify_started, notifies>>
  BY DEF NotifyDone, RunIdle, IdleDone, RunTimer, TimerDone, Return, fdVars
<1>2. WatchOf' = WatchOf /\ ReadyOf' = ReadyOf
  BY <1>1 DEF WatchOf, ReadyOf, IsWatched, EntryOf
<1>3. Only({"fd"})' = NoCallback \/ Only({"fd"})' = Only({"fd"})
  BY DEF Only, NotifyDone, RunIdle, IdleDone, RunTimer, TimerDone, Return, AtLoop, NoCallback
<1>4. QED BY <1>2, <1>3 DEF Watching!Return, Watching!vars, WatchOf, ReadyOf

(* The event loop does what WatchContract promises, for any descriptors, *)
(* events and functions and any number of calls: KeepsWatchContract. *)
THEOREM ImplementsWatchContract == Spec => KeepsWatchContract
<1>1. Init => Watching!Init
  BY DEF Init, FdInit, Watching!Init, Watching!NotWatched, IsWatched, Only, ToSet, NoCallback
<1>2. WatchInv /\ [Next]_vars => [Watching!Next]_(Watching!vars)
  <2> SUFFICES ASSUME WatchInv, [Next]_vars PROVE [Watching!Next]_(Watching!vars)
    OBVIOUS
  <2>1. CASE Call
    BY <2>1, CallsRefine
  <2>2. CASE Notify
    BY <2>2, NotifyRefines DEF Watching!Next, ReadyOf
  <2>3. CASE NotifyDone \/ RunIdle \/ IdleDone \/ RunTimer \/ TimerDone \/ Return
    BY <2>3, OthersRefine DEF Watching!Next
  <2>4. CASE \E time \in Times, ready \in Reports: Run(time, ready)
    BY <2>4, RunRefines DEF Watching!Next
  <2>5. CASE UNCHANGED vars
    BY <2>5 DEF vars, fdVars, loopVars, Watching!vars, Only, IsWatched, EntryOf
  <2>6. QED BY <2>1, <2>2, <2>3, <2>4, <2>5 DEF Next, Dispatch
<1>3. QED BY <1>1, <1>2, WatchInvHolds, PTL DEF Spec, KeepsWatchContract, Watching!Spec

-----------------------------------------------------------------------------
(* The red-black tree of DskRbtree: order and loops. *)

(* What is on side s of b in the order of the keys. *)
OnSide(key, s, a, b) == IF s = "left" THEN Before(key, a, b) ELSE Before(key, b, a)

(* The two sides, and the addresses. *)
LEMMA SideFacts ==
  /\ \A s \in Sides: Mirror(s) \in Sides /\ Mirror(s) # s /\ Mirror(Mirror(s)) = s
  /\ \A s, d \in Sides: d = s \/ d = Mirror(s)
  /\ NULL \notin Nodes /\ IsFiniteSet(Nodes)
BY NodesAssumption DEF Sides, Mirror, NULL

(* The comparator orders any two nodes one way, on each side the same. *)
LEMMA OrderFacts ==
  ASSUME NEW key \in [Nodes -> Nat]
  PROVE  \A s \in Sides: \A a, b, c \in Nodes:
           /\ OnSide(key, Mirror(s), a, b) <=> OnSide(key, s, b, a)
           /\ OnSide(key, s, a, b) /\ OnSide(key, s, b, c) => OnSide(key, s, a, c)
           /\ ~(OnSide(key, s, a, b) /\ OnSide(key, s, b, a))
           /\ a # b => OnSide(key, s, a, b) \/ OnSide(key, s, b, a)
           /\ ~OnSide(key, s, a, a)
<1> SUFFICES ASSUME NEW s \in Sides, NEW a \in Nodes, NEW b \in Nodes, NEW c \in Nodes
             PROVE  /\ OnSide(key, Mirror(s), a, b) <=> OnSide(key, s, b, a)
                    /\ OnSide(key, s, a, b) /\ OnSide(key, s, b, c) => OnSide(key, s, a, c)
                    /\ ~(OnSide(key, s, a, b) /\ OnSide(key, s, b, a))
                    /\ a # b => OnSide(key, s, a, b) \/ OnSide(key, s, b, a)
                    /\ ~OnSide(key, s, a, a)
  OBVIOUS
<1>1. /\ a \in Nat /\ b \in Nat /\ c \in Nat
      /\ key[a] \in Nat /\ key[b] \in Nat /\ key[c] \in Nat
  BY NodesAssumption
<1>2. s = "left" \/ s = "right"
  BY DEF Sides
<1>3. QED BY ONLY <1>1, <1>2 DEF OnSide, Before, Mirror

-----------------------------------------------------------------------------
(* Loops *)

(* What a loop runs through, its step being a function. *)
IsRun(g, S, F, x, n) ==
  g \in [0..n -> S] /\ g[0] = x /\ \A i \in 1..n: g[i] = F[g[i - 1]]

(* A step repeated n times runs through n states. *)
LEMMA RunExists ==
  ASSUME NEW S, NEW F \in [S -> S], NEW x \in S, NEW n \in Nat
  PROVE  \E g: IsRun(g, S, F, x, n)
<1> DEFINE Has(k) == \E g \in [0..k -> S]: g[0] = x /\ \A i \in 1..k: g[i] = F[g[i - 1]]
           Bad == {k \in Nat: ~Has(k)}
<1>1. Has(0)
  <2> DEFINE g == [i \in 0..0 |-> x]
  <2>1. g \in [0..0 -> S] /\ g[0] = x /\ \A i \in 1..0: g[i] = F[g[i - 1]]
    OBVIOUS
  <2>2. QED BY <2>1
<1>2. ASSUME NEW k \in Nat, Has(k) PROVE Has(k + 1)
  <2>1. PICK g \in [0..k -> S]: g[0] = x /\ \A i \in 1..k: g[i] = F[g[i - 1]]
    BY <1>2
  <2> DEFINE f == [i \in 0..(k + 1) |-> IF i = k + 1 THEN F[g[k]] ELSE g[i]]
  <2>2. \A i \in 0..k: f[i] = g[i] /\ i \in 0..(k + 1)
    OBVIOUS
  <2>3. f[k + 1] = F[g[k]] /\ g[k] \in S
    OBVIOUS
  <2>4. f \in [0..(k + 1) -> S]
    BY <2>3
  <2> HIDE DEF f
  <2>5. \A i \in 1..(k + 1): f[i] = F[f[i - 1]]
    <3> TAKE i \in 1..(k + 1)
    <3>1. i - 1 \in 0..k
      OBVIOUS
    <3>2. CASE i = k + 1
      BY <2>2, <2>3, <3>1, <3>2
    <3>3. CASE i # k + 1
      <4>1. i \in 1..k /\ i \in 0..k
        BY <3>3
      <4>2. QED BY <2>1, <2>2, <3>1, <4>1
    <3>4. QED BY <3>2, <3>3
  <2>6. f[0] = x
    BY <2>1, <2>2
  <2>7. QED BY <2>4, <2>5, <2>6
<1>3. Bad = {}
  <2> SUFFICES ASSUME Bad # {} PROVE FALSE
    OBVIOUS
  <2> HIDE DEF Has
  <2>1. Bad \in SUBSET Nat
    OBVIOUS
  <2>2. PICK m \in Bad: \A k \in Bad: m <= k
    <3> HIDE DEF Bad
    <3>1. QED BY <2>1, LeastNat
  <2>3. m \in Nat /\ m # 0
    BY <1>1
  <2>4. m - 1 \in Nat /\ (m - 1) + 1 = m /\ ~(m <= m - 1)
    BY <2>3
  <2>5. Has(m - 1)
    BY <2>2, <2>4
  <2>6. Has((m - 1) + 1)
    BY <1>2, <2>4, <2>5
  <2>7. QED BY <2>4, <2>6
<1>4. Has(n)
  <2> HIDE DEF Has
  <2>1. QED BY <1>3
<1>5. QED BY <1>4 DEF IsRun

(* A set that the step does not leave is not left. *)
LEMMA RunStays ==
  ASSUME NEW n \in Nat, NEW g, NEW T, g[0] \in T,
         \A i \in 1..n: g[i - 1] \in T => g[i] \in T
  PROVE  \A i \in 0..n: g[i] \in T
<1> DEFINE Bad == {i \in 0..n: g[i] \notin T}
<1> SUFFICES ASSUME Bad # {} PROVE FALSE
  OBVIOUS
<1>1. Bad \in SUBSET Nat
  OBVIOUS
<1>2. PICK m \in Bad: \A k \in Bad: m <= k
  <2> HIDE DEF Bad
  <2>1. QED BY <1>1, LeastNat
<1>3. m \in 0..n /\ m # 0 /\ g[m] \notin T
  OBVIOUS
<1>4. m \in 1..n /\ m - 1 \in 0..n /\ ~(m <= m - 1)
  BY <1>3
<1>5. g[m - 1] \in T
  BY <1>2, <1>4
<1>6. QED BY <1>3, <1>4, <1>5

(* The states g[0], ... g[n] of a loop: while one is not in T, left, which *)
(* is zero in T only, goes down in the next one; one after a state in T is *)
(* in T. *)
CountsDown(n, g, S, T, left) ==
  /\ n \in Nat /\ T \in SUBSET S /\ left \in [S -> Nat]
  /\ \A i \in 0..n: g[i] \in S
  /\ left[g[0]] <= n
  /\ \A i \in 1..n: (g[i - 1] \in T => g[i] \in T)
  /\ \A i \in 1..n: (g[i - 1] \notin T => g[i] \in T \/ left[g[i]] < left[g[i - 1]])
  /\ \A st \in S: (left[st] = 0 => st \in T)

(* A loop that counts down to what it looks for, and stays there, is there *)
(* after as many turns. *)
LEMMA RunArrives ==
  ASSUME NEW n, NEW g, NEW S, NEW T, NEW left, CountsDown(n, g, S, T, left)
  PROVE  g[n] \in T
<1>0. /\ n \in Nat /\ T \in SUBSET S /\ left \in [S -> Nat]
      /\ \A i \in 0..n: g[i] \in S
      /\ left[g[0]] <= n
      /\ \A i \in 1..n: (g[i - 1] \in T => g[i] \in T)
      /\ \A i \in 1..n: (g[i - 1] \notin T => g[i] \in T \/ left[g[i]] < left[g[i - 1]])
      /\ \A st \in S: (left[st] = 0 => st \in T)
  BY DEF CountsDown
<1> DEFINE U == {i \in 0..n: g[i] \in T \/ left[g[i]] + i <= n}
           Bad == {i \in 0..n: ~(g[i] \in T \/ left[g[i]] + i <= n)}
<1>1. Bad = {}
  <2> SUFFICES ASSUME Bad # {} PROVE FALSE
    OBVIOUS
  <2>1. Bad \in SUBSET Nat
    BY <1>0
  <2>2. PICK m \in Bad: \A k \in Bad: m <= k
    <3> HIDE DEF Bad
    <3>1. QED BY <2>1, LeastNat
  <2>3. m \in 0..n /\ g[m] \notin T /\ ~(left[g[m]] + m <= n)
    BY <1>0
  <2>4. m # 0
    <3>1. left[g[0]] \in Nat
      BY <1>0
    <3>2. QED BY <1>0, <2>3, <3>1
  <2>5. m \in 1..n /\ m - 1 \in 0..n /\ ~(m <= m - 1)
    BY <1>0, <2>3, <2>4
  <2>6. g[m - 1] \in T \/ left[g[m - 1]] + (m - 1) <= n
    BY <1>0, <2>2, <2>5
  <2>7. g[m - 1] \notin T /\ left[g[m]] < left[g[m - 1]]
    BY <1>0, <2>3, <2>5
  <2>8. left[g[m]] \in Nat /\ left[g[m - 1]] \in Nat
    BY <1>0, <2>5
  <2>9. QED BY <1>0, <2>3, <2>5, <2>6, <2>7, <2>8
<1>2. g[n] \in T \/ left[g[n]] + n <= n
  BY <1>0, <1>1
<1>3. g[n] \in S /\ left[g[n]] \in Nat
  BY <1>0
<1>4. QED BY <1>0, <1>2, <1>3

-----------------------------------------------------------------------------
(* Assignments to the fields of a tree. *)

(* The fields of a tree. *)
Kid(t, s, n) == t.child[s][n]
Par(t, n) == t.parent[n]
Red(t, n) == t.is_red[n]
Cnt(t, n) == t.count[n]
Top(t) == t.top

(* The types of a tree's fields. *)
LEMMA TreeFields ==
  ASSUME NEW t \in Trees
  PROVE  /\ Top(t) \in Nodes \cup {NULL}
         /\ \A s \in Sides, n \in Nodes: Kid(t, s, n) \in Nodes \cup {NULL}
         /\ \A n \in Nodes: /\ Par(t, n) \in Nodes \cup {NULL} /\ Red(t, n) \in BOOLEAN
                            /\ Cnt(t, n) \in 0..Cardinality(Nodes)
BY DEF Trees, Kid, Par, Red, Cnt, Top

(* What each assignment makes of a tree t. *)
ChildSet(t, r, n, s, c) ==
  /\ r \in Trees /\ Top(r) = Top(t)
  /\ \A d \in Sides, m \in Nodes: Kid(r, d, m) = IF d = s /\ m = n THEN c ELSE Kid(t, d, m)
  /\ \A m \in Nodes: Par(r, m) = Par(t, m)
  /\ \A m \in Nodes: Red(r, m) = Red(t, m) /\ Cnt(r, m) = Cnt(t, m)

ParentSet(t, r, n, p) ==
  /\ r \in Trees /\ Top(r) = Top(t)
  /\ \A d \in Sides, m \in Nodes: Kid(r, d, m) = Kid(t, d, m)
  /\ \A m \in Nodes: Par(r, m) = IF m = n THEN p ELSE Par(t, m)
  /\ \A m \in Nodes: Red(r, m) = Red(t, m) /\ Cnt(r, m) = Cnt(t, m)

ColourSet(t, r, n, red) ==
  /\ r \in Trees /\ Top(r) = Top(t)
  /\ \A d \in Sides, m \in Nodes: Kid(r, d, m) = Kid(t, d, m)
  /\ \A m \in Nodes: Par(r, m) = Par(t, m)
  /\ \A m \in Nodes: /\ Red(r, m) = IF m = n THEN red ELSE Red(t, m)
                     /\ Cnt(r, m) = Cnt(t, m)

Replaced(t, r, n, c) ==
  /\ r \in Trees /\ Top(r) = IF Par(t, n) = NULL THEN c ELSE Top(t)
  /\ \A d \in Sides, m \in Nodes:
       Kid(r, d, m) = IF m = Par(t, n) /\ d = SideOf(t, n) THEN c ELSE Kid(t, d, m)
  /\ \A m \in Nodes: Par(r, m) = Par(t, m)
  /\ \A m \in Nodes: Red(r, m) = Red(t, m) /\ Cnt(r, m) = Cnt(t, m)

Rotated(t, r, x, y, s) ==
  /\ r \in Trees /\ Top(r) = IF Par(t, x) = NULL THEN y ELSE Top(t)
  /\ \A d \in Sides: Kid(r, d, x) = IF d = s THEN Kid(t, s, x) ELSE Kid(t, s, y)
  /\ \A d \in Sides: Kid(r, d, y) = IF d = s THEN x ELSE Kid(t, d, y)
  /\ \A d \in Sides, n \in Nodes \ {x, y}:
       Kid(r, d, n) = IF n = Par(t, x) /\ d = SideOf(t, x) THEN y ELSE Kid(t, d, n)
  /\ \A n \in Nodes: Par(r, n) = IF n = y THEN Par(t, x) ELSE IF n = x THEN y
                                   ELSE IF n = Kid(t, s, y) THEN x ELSE Par(t, n)
  /\ \A m \in Nodes: Red(r, m) = Red(t, m) /\ Cnt(r, m) = Cnt(t, m)

(* What an assignment to a child pointer changes. *)
LEMMA SetChildIs ==
  ASSUME NEW t \in Trees, NEW n \in Nodes, NEW s \in Sides, NEW c \in Nodes \cup {NULL}
  PROVE  ChildSet(t, SetChild(t, n, s, c), n, s, c)
BY DEF Trees, SetChild, ChildSet, Kid, Par, Red, Cnt, Top

(* What an assignment to a parent pointer changes. *)
LEMMA SetParentIs ==
  ASSUME NEW t \in Trees, NEW n \in Nodes \cup {NULL}, NEW p \in Nodes \cup {NULL}
  PROVE  ParentSet(t, SetParent(t, n, p), n, p)
<1>1. CASE n = NULL
  BY <1>1, SideFacts DEF SetParent, ParentSet, Kid, Par, Red, Cnt, Top
<1>2. CASE n # NULL
  BY <1>2 DEF Trees, SetParent, ParentSet, Kid, Par, Red, Cnt, Top
<1>3. QED BY <1>1, <1>2

(* What colouring a node changes. *)
LEMMA SetIsRedIs ==
  ASSUME NEW t \in Trees, NEW n \in Nodes \cup {NULL}, NEW red \in BOOLEAN
  PROVE  ColourSet(t, SetIsRed(t, n, red), n, red)
<1>1. CASE n = NULL
  BY <1>1, SideFacts DEF SetIsRed, ColourSet, Kid, Par, Red, Cnt, Top
<1>2. CASE n # NULL
  BY <1>2 DEF Trees, SetIsRed, ColourSet, Kid, Par, Red, Cnt, Top
<1>3. QED BY <1>1, <1>2

(* A node is on one of the two sides. *)
LEMMA SideOfType ==
  ASSUME NEW t, NEW n
  PROVE  SideOf(t, n) \in Sides
BY DEF SideOf, Sides

(* What it is to make the pointer to a node point elsewhere. *)
LEMMA ReplaceIs ==
  ASSUME NEW t \in Trees, NEW n \in Nodes, NEW c \in Nodes \cup {NULL}
  PROVE  Replaced(t, Replace(t, n, c), n, c)
<1>1. CASE Par(t, n) = NULL
  BY <1>1, SideFacts DEF Replace, Replaced, Trees, Kid, Par, Red, Cnt, Top
<1>2. CASE Par(t, n) # NULL
  <2>1. PICK p \in Nodes, side \in Sides: p = Par(t, n) /\ side = SideOf(t, n)
    BY <1>2, TreeFields, SideOfType
  <2>2. Replace(t, n, c) = SetChild(t, p, side, c)
    BY <1>2, <2>1 DEF Replace, Par
  <2>3. ChildSet(t, SetChild(t, p, side, c), p, side, c)
    BY SetChildIs
  <2>4. QED BY ONLY <1>2, <2>1, <2>2, <2>3 DEF ChildSet, Replaced
<1>3. QED BY <1>1, <1>2

(* What a rotation does to the links, in a tree that does not count. *)
LEMMA RotateIs ==
  ASSUME NEW t \in Trees, NEW x \in Nodes, NEW s \in Sides, NEW y \in Nodes,
         y = Kid(t, Mirror(s), x), y # x,
         Par(t, x) # x, Par(t, x) # y, Kid(t, s, y) # x, Kid(t, s, y) # y,
         Cnt(t, x) = 0
  PROVE  Rotated(t, Rotate(t, x, s), x, y, s)
<1>1. PICK b \in Nodes \cup {NULL}, p \in Nodes \cup {NULL}:
        b = Kid(t, s, y) /\ p = Par(t, x) /\ b # x /\ b # y /\ p # x /\ p # y
  BY TreeFields
<1>2. PICK o \in Sides: /\ o = Mirror(s) /\ o # s /\ (\A d \in Sides: d = s \/ d = o)
                        /\ NULL \notin Nodes
  BY SideFacts
<1>a. x \in Nodes \cup {NULL} /\ y \in Nodes \cup {NULL}
  OBVIOUS
<1>3. PICK t0: t0 = SetChild(t, x, o, b) /\ ChildSet(t, t0, x, o, b)
  BY SetChildIs
<1>4. PICK t1: t1 = SetParent(t0, b, x) /\ ParentSet(t0, t1, b, x)
  BY <1>3, <1>a, SetParentIs DEF ChildSet
<1>5. PICK t2: t2 = Replace(t1, x, y) /\ Replaced(t1, t2, x, y)
  BY <1>4, <1>a, ReplaceIs DEF ParentSet
<1>6. PICK t3: t3 = SetParent(t2, y, p) /\ ParentSet(t2, t3, y, p)
  BY <1>5, <1>a, SetParentIs DEF Replaced
<1>7. PICK t4: t4 = SetChild(t3, y, s, x) /\ ChildSet(t3, t4, y, s, x)
  BY <1>6, <1>a, SetChildIs DEF ParentSet
<1>8. PICK t5: t5 = SetParent(t4, x, y) /\ ParentSet(t4, t5, x, y)
  BY <1>7, <1>a, SetParentIs DEF ChildSet
<1>9. Par(t1, x) = p
  <2>1. Par(t0, x) = Par(t, x) /\ Par(t1, x) = Par(t0, x)
    <3>1. Par(t0, x) = Par(t, x)
      BY <1>3 DEF ChildSet
    <3>2. Par(t1, x) = Par(t0, x)
      BY <1>1, <1>4 DEF ParentSet
    <3>3. QED BY <3>1, <3>2
  <2>2. QED BY <1>1, <2>1
<1>10. p # NULL => SideOf(t1, x) = SideOf(t, x)
  <2>1. "left" \in Sides
    BY DEF Sides
  <2>2. p # NULL => Kid(t1, "left", p) = Kid(t, "left", p)
    BY <1>1, <1>3, <1>4, <2>1 DEF ChildSet, ParentSet
  <2>3. QED BY <1>1, <1>9, <2>2 DEF SideOf, Kid, Par
<1>11. /\ t5 \in Trees /\ Top(t5) = (IF p = NULL THEN y ELSE Top(t))
       /\ \A m \in Nodes: Red(t5, m) = Red(t, m) /\ Cnt(t5, m) = Cnt(t, m)
  BY <1>3, <1>4, <1>5, <1>6, <1>7, <1>8, <1>9 DEF ChildSet, ParentSet, Replaced
<1>12. \A n \in Nodes: Par(t5, n) = IF n = y THEN p ELSE IF n = x THEN y
                                      ELSE IF n = b THEN x ELSE Par(t, n)
  BY <1>3, <1>4, <1>5, <1>6, <1>7, <1>8 DEF ChildSet, ParentSet, Replaced
<1>13. \A d \in Sides, n \in Nodes:
         Kid(t5, d, n) = IF d = s /\ n = y THEN x
                          ELSE IF n = p /\ d = SideOf(t, x) THEN y
                          ELSE IF d = o /\ n = x THEN b ELSE Kid(t, d, n)
  <2> TAKE d \in Sides, n \in Nodes
  <2>1. Kid(t5, d, n) = IF d = s /\ n = y THEN x ELSE Kid(t2, d, n)
    BY <1>6, <1>7, <1>8 DEF ChildSet, ParentSet
  <2>2. Kid(t2, d, n) = IF n = p /\ d = SideOf(t, x) THEN y ELSE Kid(t1, d, n)
    <3>1. Kid(t2, d, n) = IF n = p /\ d = SideOf(t1, x) THEN y ELSE Kid(t1, d, n)
      BY <1>5, <1>9 DEF Replaced
    <3>2. n = p => p # NULL
      BY <1>2
    <3>3. QED BY <1>10, <3>1, <3>2
  <2>3. Kid(t1, d, n) = IF d = o /\ n = x THEN b ELSE Kid(t, d, n)
    BY <1>3, <1>4 DEF ChildSet, ParentSet
  <2>4. QED BY ONLY <2>1, <2>2, <2>3
<1>14. Rotate(t, x, s) = t5
  <2>1. Cnt(t5, x) = 0
    BY <1>11
  <2>2. \A outer: CarryCounts(t5, x, y, outer) = t5
    BY <2>1 DEF CarryCounts, Cnt
  <2>3. Rotate(t, x, s) = CarryCounts(t5, x, y, Kid(t, Mirror(s), y))
    BY <1>1, <1>2, <1>3, <1>4, <1>5, <1>6, <1>7, <1>8 DEF Rotate, Kid, Par
  <2>4. QED BY <2>2, <2>3
<1>15. \A d \in Sides: /\ Kid(t5, d, x) = IF d = s THEN Kid(t, s, x) ELSE b
                       /\ Kid(t5, d, y) = IF d = s THEN x ELSE Kid(t, d, y)
  BY <1>1, <1>2, <1>13
<1>16. \A d \in Sides, n \in Nodes \ {x, y}:
         Kid(t5, d, n) = IF n = p /\ d = SideOf(t, x) THEN y ELSE Kid(t, d, n)
  BY <1>13
<1>17. Rotated(t, t5, x, y, s)
  BY <1>1, <1>11, <1>12, <1>15, <1>16 DEF Rotated
<1>18. QED BY <1>14, <1>17

-----------------------------------------------------------------------------
(* Search trees, by the set of nodes below each. *)

Below(sub, c) == IF c = NULL THEN {} ELSE sub[c]

(* A tree of the nodes M: sub gives the nodes of each subtree. *)
TypedTree(t, M, sub) ==
  /\ t \in Trees /\ M \in SUBSET Nodes /\ sub \in [M -> SUBSET M]
  /\ \A n \in Nodes: Cnt(t, n) = 0
TopIs(t, M, sub) ==
  IF Top(t) = NULL THEN M = {}
  ELSE Top(t) \in M /\ Par(t, Top(t)) = NULL /\ sub[Top(t)] = M
ParentsLink(t, M) ==
  \A n \in M: n # Top(t) => Par(t, n) \in M /\ \E s \in Sides: Kid(t, s, Par(t, n)) = n
KidsLink(t, M) ==
  \A n \in M, s \in Sides: Kid(t, s, n) # NULL => Kid(t, s, n) \in M /\ Par(t, Kid(t, s, n)) = n
Subtrees(t, M, sub) ==
  \A n \in M, m \in M: m \in sub[n] <=> (m = n \/ \E s \in Sides: m \in Below(sub, Kid(t, s, n)))
InOrder(t, M, sub, key) ==
  \A n \in M, s \in Sides: \A m \in Below(sub, Kid(t, s, n)): OnSide(key, s, m, n)

Shaped(t, M, sub, key) ==
  /\ TypedTree(t, M, sub) /\ TopIs(t, M, sub)
  /\ ParentsLink(t, M) /\ KidsLink(t, M)
  /\ Subtrees(t, M, sub) /\ InOrder(t, M, sub, key)

(* A child, its subtree and its parent's. *)
LEMMA KidFacts ==
  ASSUME NEW key \in [Nodes -> Nat], NEW t, NEW M, NEW sub, Shaped(t, M, sub, key),
         NEW n \in M, NEW s \in Sides, NEW c, c = Kid(t, s, n), c # NULL
  PROVE  /\ c \in M /\ c \in Nodes /\ Par(t, c) = n /\ c # Top(t) /\ n \in Nodes
         /\ sub[c] \in SUBSET M /\ sub[n] \in SUBSET M
         /\ c \in sub[c] /\ c \in sub[n] /\ n \in sub[n]
         /\ sub[c] \subseteq sub[n] /\ n \notin sub[c] /\ c # n
         /\ \A m \in sub[c]: OnSide(key, s, m, n)
         /\ \A d \in Sides: d # s => \A m \in Below(sub, Kid(t, d, n)): m \notin sub[c]
<1>1. /\ c \in M /\ c \in Nodes /\ Par(t, c) = n /\ n \in Nodes
      /\ sub[c] \in SUBSET M /\ sub[n] \in SUBSET M /\ M \in SUBSET Nodes
  BY DEF Shaped, KidsLink, TypedTree
<1>2. Below(sub, c) = sub[c]
  BY DEF Below
<1>3. \A m \in sub[c]: OnSide(key, s, m, n)
  BY <1>1, <1>2 DEF Shaped, InOrder
<1>4. c \in sub[c] /\ n \in sub[n]
  BY <1>1 DEF Shaped, Subtrees
<1>5. sub[c] \subseteq sub[n]
  BY <1>1, <1>2 DEF Shaped, Subtrees
<1>6. n \notin sub[c]
  <2>1. ~OnSide(key, s, n, n)
    BY <1>1, OrderFacts
  <2>2. QED BY <1>3, <2>1
<1>7. c # Top(t)
  BY <1>1, SideFacts DEF Shaped, TopIs
<1>8. ASSUME NEW d \in Sides, d # s, NEW m \in Below(sub, Kid(t, d, n)), m \in sub[c]
      PROVE  FALSE
  <2>1. OnSide(key, s, m, n) /\ m \in Nodes
    BY <1>1, <1>3, <1>8
  <2>2. OnSide(key, d, m, n)
    BY <1>8 DEF Shaped, InOrder
  <2>3. d = Mirror(s)
    BY <1>8, SideFacts
  <2>4. OnSide(key, s, n, m)
    BY <1>1, <2>1, <2>2, <2>3, OrderFacts
  <2>5. QED BY <1>1, <2>1, <2>4, OrderFacts
<1>9. QED BY <1>1, <1>3, <1>4, <1>5, <1>6, <1>7, <1>8

(* A child's subtree is smaller than its parent's. *)
LEMMA SizeFacts ==
  ASSUME NEW key \in [Nodes -> Nat], NEW t, NEW M, NEW sub, Shaped(t, M, sub, key)
  PROVE  /\ \A n \in M: Cardinality(sub[n]) \in 1..Cardinality(M)
         /\ Cardinality(M) \in 0..Cardinality(Nodes) /\ Cardinality(Nodes) \in Nat
         /\ \A n \in M, s \in Sides: Kid(t, s, n) # NULL =>
              Cardinality(sub[Kid(t, s, n)]) < Cardinality(sub[n])
<1>1. M \in SUBSET Nodes /\ IsFiniteSet(Nodes) /\ \A n \in M: sub[n] \in SUBSET M
  BY NodesAssumption DEF Shaped, TypedTree
<1>2. /\ IsFiniteSet(M) /\ Cardinality(M) <= Cardinality(Nodes)
      /\ Cardinality(M) \in Nat /\ Cardinality(Nodes) \in Nat
  BY <1>1, FS_Subset, FS_CardinalityType
<1>3. ASSUME NEW n \in M PROVE IsFiniteSet(sub[n]) /\ Cardinality(sub[n]) \in 1..Cardinality(M)
  <2>1. sub[n] \subseteq M /\ n \in sub[n]
    BY <1>1 DEF Shaped, Subtrees
  <2>2. IsFiniteSet(sub[n]) /\ Cardinality(sub[n]) <= Cardinality(M)
    BY <1>2, <2>1, FS_Subset
  <2>3. Cardinality(sub[n]) \in Nat /\ Cardinality(sub[n]) # 0
    BY <2>1, <2>2, FS_CardinalityType, FS_EmptySet
  <2>4. QED BY <1>2, <2>2, <2>3
<1>4. ASSUME NEW n \in M, NEW s \in Sides, Kid(t, s, n) # NULL
      PROVE  Cardinality(sub[Kid(t, s, n)]) < Cardinality(sub[n])
  <2>1. PICK c: c = Kid(t, s, n)
    OBVIOUS
  <2>2. c \in M /\ sub[c] \subseteq sub[n] /\ n \in sub[n] /\ n \notin sub[c]
    BY <1>4, <2>1, KidFacts
  <2>3. /\ Cardinality(sub[c]) <= Cardinality(sub[n])
        /\ Cardinality(sub[c]) = Cardinality(sub[n]) => sub[c] = sub[n]
    BY <1>3, <2>2, FS_Subset
  <2>4. Cardinality(sub[c]) \in Nat /\ Cardinality(sub[n]) \in Nat
    BY <1>3, <2>2
  <2>5. QED BY <2>1, <2>2, <2>3, <2>4
<1>5. QED BY <1>2, <1>3, <1>4

(* A set of nodes has one with no child in it, and one whose parent is not. *)
LEMMA LowestNode ==
  ASSUME NEW key \in [Nodes -> Nat], NEW t, NEW M, NEW sub, Shaped(t, M, sub, key),
         NEW B \in SUBSET M, B # {}
  PROVE  \E n \in B: \A s \in Sides: Kid(t, s, n) \notin B
<1> DEFINE sizes == {Cardinality(sub[n]): n \in B}
<1>1. sizes \in SUBSET Nat /\ sizes # {}
  BY SizeFacts
<1>2. PICK k \in sizes: \A l \in sizes: k <= l
  <2> HIDE DEF sizes
  <2>1. QED BY <1>1, LeastNat
<1>3. PICK n \in B: k = Cardinality(sub[n])
  OBVIOUS
<1>4. ASSUME NEW s \in Sides, Kid(t, s, n) \in B PROVE FALSE
  <2>1. PICK c \in B: c = Kid(t, s, n)
    BY <1>4
  <2>2. c # NULL /\ c \in M
    BY SideFacts DEF Shaped, TypedTree
  <2>3. Cardinality(sub[c]) < Cardinality(sub[n])
    BY <2>1, <2>2, SizeFacts
  <2>4. Cardinality(sub[n]) <= Cardinality(sub[c])
    BY <1>2, <1>3
  <2>5. Cardinality(sub[n]) \in Nat /\ Cardinality(sub[c]) \in Nat
    BY <2>2, SizeFacts
  <2>6. QED BY <2>3, <2>4, <2>5
<1>5. QED BY <1>4

(* A set of nodes has one whose parent is not in it. *)
LEMMA HighestNode ==
  ASSUME NEW key \in [Nodes -> Nat], NEW t, NEW M, NEW sub, Shaped(t, M, sub, key),
         NEW B \in SUBSET M, B # {}
  PROVE  \E n \in B: Par(t, n) \notin B
<1> DEFINE N == Cardinality(M)
           rest == {N - Cardinality(sub[n]): n \in B}
<1>1. rest \in SUBSET Nat /\ rest # {} /\ N \in Nat
  BY SizeFacts
<1>2. PICK k \in rest: \A l \in rest: k <= l
  <2> HIDE DEF rest
  <2>1. QED BY <1>1, LeastNat
<1>3. PICK n \in B: k = N - Cardinality(sub[n])
  OBVIOUS
<1>4. ASSUME Par(t, n) \in B PROVE FALSE
  <2>1. PICK p \in B: p = Par(t, n)
    BY <1>4
  <2>2. n # NULL /\ n \in M /\ p \in M /\ p # NULL
    BY SideFacts DEF Shaped, TypedTree
  <2>3. n # Top(t)
    BY <2>1, <2>2 DEF Shaped, TopIs
  <2>4. PICK s \in Sides: Kid(t, s, p) = n
    BY <2>1, <2>2, <2>3 DEF Shaped, ParentsLink
  <2>5. Cardinality(sub[n]) < Cardinality(sub[p])
    BY <2>2, <2>4, SizeFacts
  <2>6. N - Cardinality(sub[n]) <= N - Cardinality(sub[p])
    BY <1>2, <1>3
  <2>7. Cardinality(sub[n]) \in Nat /\ Cardinality(sub[p]) \in Nat
    BY <2>2, SizeFacts
  <2> HIDE DEF N
  <2>8. QED BY <1>1, <2>5, <2>6, <2>7
<1>5. QED BY <1>4

(* The subtree of a node below n is in that of n. *)
LEMMA SubtreesNest ==
  ASSUME NEW key \in [Nodes -> Nat], NEW t, NEW M, NEW sub, Shaped(t, M, sub, key)
  PROVE  \A n \in M: \A m \in sub[n]: sub[m] \subseteq sub[n]
<1> DEFINE B == {n \in M: ~(\A m \in sub[n]: sub[m] \subseteq sub[n])}
<1> SUFFICES ASSUME B # {} PROVE FALSE
  OBVIOUS
<1>1. PICK n \in B: \A s \in Sides: Kid(t, s, n) \notin B
  <2>1. B \in SUBSET M
    OBVIOUS
  <2> HIDE DEF B
  <2>2. QED BY <2>1, LowestNode
<1>2. PICK m \in sub[n]: ~(sub[m] \subseteq sub[n])
  OBVIOUS
<1>3. n \in M /\ m \in M /\ m # n
  BY <1>2 DEF Shaped, TypedTree
<1>4. PICK s \in Sides: m \in Below(sub, Kid(t, s, n))
  BY <1>3 DEF Shaped, Subtrees
<1>5. PICK c: c = Kid(t, s, n) /\ c # NULL /\ m \in sub[c]
  BY <1>4 DEF Below
<1>6. c \in M /\ sub[c] \subseteq sub[n]
  BY <1>3, <1>5, KidFacts
<1>7. sub[m] \subseteq sub[c]
  BY <1>1, <1>5, <1>6
<1>8. QED BY <1>2, <1>6, <1>7

(* The parent of a node strictly below n is not above n. *)
LEMMA ParentBelow ==
  ASSUME NEW key \in [Nodes -> Nat], NEW t, NEW M, NEW sub, Shaped(t, M, sub, key)
  PROVE  \A n \in M: \A m \in sub[n]: m # n => Par(t, m) \in sub[n]
<1> DEFINE B == {n \in M: ~(\A m \in sub[n]: m # n => Par(t, m) \in sub[n])}
<1> SUFFICES ASSUME B # {} PROVE FALSE
  OBVIOUS
<1>1. PICK n \in B: \A s \in Sides: Kid(t, s, n) \notin B
  <2>1. B \in SUBSET M
    OBVIOUS
  <2> HIDE DEF B
  <2>2. QED BY <2>1, LowestNode
<1>2. PICK m \in sub[n]: m # n /\ Par(t, m) \notin sub[n]
  OBVIOUS
<1>3. n \in M /\ m \in M
  BY <1>2 DEF Shaped, TypedTree
<1>4. PICK s \in Sides: m \in Below(sub, Kid(t, s, n))
  BY <1>2, <1>3 DEF Shaped, Subtrees
<1>5. PICK c: c = Kid(t, s, n) /\ c # NULL /\ m \in sub[c]
  BY <1>4 DEF Below
<1>6. c \in M /\ sub[c] \subseteq sub[n] /\ Par(t, c) = n /\ n \in sub[n]
  BY <1>3, <1>5, KidFacts
<1>7. m # c
  BY <1>2, <1>6
<1>8. Par(t, m) \in sub[c]
  BY <1>1, <1>5, <1>6, <1>7
<1>9. QED BY <1>2, <1>6, <1>8

(* No node is below one that is below it. *)
LEMMA NotBelowBoth ==
  ASSUME NEW key \in [Nodes -> Nat], NEW t, NEW M, NEW sub, Shaped(t, M, sub, key),
         NEW n \in M, NEW m \in sub[n], n \in sub[m]
  PROVE  m = n
<1> SUFFICES ASSUME m # n PROVE FALSE
  OBVIOUS
<1>1. m \in M
  BY DEF Shaped, TypedTree
<1>2. PICK s \in Sides: m \in Below(sub, Kid(t, s, n))
  BY <1>1 DEF Shaped, Subtrees
<1>3. PICK c: c = Kid(t, s, n) /\ c # NULL /\ m \in sub[c]
  BY <1>2 DEF Below
<1>4. c \in M /\ n \notin sub[c]
  BY <1>3, KidFacts
<1>5. sub[m] \subseteq sub[c]
  BY <1>3, <1>4, SubtreesNest
<1>6. QED BY <1>4, <1>5

-----------------------------------------------------------------------------
(* What the loops over a tree run through. *)

Follows(f, g, n) ==
  f[0] = {g[0]} /\ \A i \in 1..n: f[i - 1] = {g[i - 1]} => f[i] = {g[i]}

(* If each state of a run is the only one a loop can be in, so is the *)
(* last. *)
LEMMA OneRun ==
  ASSUME NEW n \in Nat, NEW f, NEW g, Follows(f, g, n)
  PROVE  f[n] = {g[n]}
<1> USE DEF Follows
<1> DEFINE Bad == {i \in 0..n: f[i] # {g[i]}}
<1>1. Bad = {}
  <2> SUFFICES ASSUME Bad # {} PROVE FALSE
    OBVIOUS
  <2>1. Bad \in SUBSET Nat
    OBVIOUS
  <2>2. PICK m \in Bad: \A k \in Bad: m <= k
    <3> HIDE DEF Bad
    <3>1. QED BY <2>1, LeastNat
  <2>3. m \in 0..n /\ m # 0 /\ f[m] # {g[m]}
    OBVIOUS
  <2>4. m \in 1..n /\ m - 1 \in 0..n /\ ~(m <= m - 1)
    BY <2>3
  <2>5. f[m - 1] = {g[m - 1]}
    BY <2>2, <2>4
  <2>6. QED BY <2>3, <2>4, <2>5
<1>2. QED BY <1>1

(* The addresses can be counted. *)
LEMMA NodesCount == Cardinality(Nodes) \in Nat
BY NodesAssumption, FS_CardinalityType

(* What the loops run through. *)
ExtremeRun(t, s, n, g) ==
  /\ g \in [0..Cardinality(Nodes) -> Nodes] /\ g[0] = n
  /\ \A i \in 1..Cardinality(Nodes):
       g[i] = IF Kid(t, s, g[i - 1]) = NULL THEN g[i - 1] ELSE Kid(t, s, g[i - 1])
  /\ Extreme(t, n, s) = g[Cardinality(Nodes)]

MembersRun(t, g) ==
  /\ g \in [0..Cardinality(Nodes) -> SUBSET Nodes] /\ g[0] = {Top(t)}
  /\ \A i \in 1..Cardinality(Nodes):
       g[i] = g[i - 1] \cup {m \in Nodes: \E n \in g[i - 1], s \in Sides: Kid(t, s, n) = m}
  /\ Members(t) = g[Cardinality(Nodes)]

AncestorsRun(t, n, g) ==
  /\ g \in [0..Cardinality(Nodes) -> SUBSET Nodes] /\ g[0] = {n}
  /\ \A i \in 1..Cardinality(Nodes): g[i] = g[i - 1] \cup ({Par(t, m): m \in g[i - 1]} \ {NULL})
  /\ Ancestors(t, n) = g[Cardinality(Nodes)]

(* The loop of Extreme runs through nodes, from child to child. *)
LEMMA ExtremeRuns ==
  ASSUME NEW t \in Trees, NEW s \in Sides, NEW n \in Nodes
  PROVE  \E g: ExtremeRun(t, s, n, g)
<1>0. PICK x0 \in Nodes: x0 = n
  OBVIOUS
<1> DEFINE N == Cardinality(Nodes)
           Step(at) == IF t.child[s][at] = NULL THEN at ELSE t.child[s][at]
           F == [z \in Nodes |-> Step(z)]
           R(f) == [i \in 0..N |-> IF i = 0 THEN {n} ELSE {Step(z): z \in f[i - 1]}]
<1>1. N \in Nat
  BY NodesCount
<1>2. F \in [Nodes -> Nodes] /\ \A z \in Nodes: F[z] = Step(z)
  BY TreeFields DEF Kid
<1>3. Extreme(t, n, s) = CHOOSE z \in (CHOOSE r: r = R(r))[N]: TRUE
  BY <1>0 DEF Extreme, Loop
<1> HIDE DEF N, F, Step
<1>4. PICK g: IsRun(g, Nodes, F, x0, N)
  BY <1>1, <1>2, RunExists
<1>5. /\ g \in [0..N -> Nodes] /\ g[0] = x0
      /\ \A i \in 1..N: g[i] = Step(g[i - 1])
  <2>1. \A i \in 1..N: i - 1 \in 0..N
    BY <1>1
  <2>2. QED BY <1>2, <1>4, <2>1 DEF IsRun
<1>6. \A y: {Step(z): z \in {y}} = {Step(y)}
  OBVIOUS
<1> DEFINE h == [i \in 0..N |-> {g[i]}]
<1>7. h = R(h)
  <2>1. \A i \in 1..N: h[i - 1] = {g[i - 1]} /\ h[i] = {g[i]}
    BY <1>1
  <2>2. h[0] = {x0}
    BY <1>1, <1>5
  <2>3. h = [i \in 0..N |-> h[i]]
    OBVIOUS
  <2> HIDE DEF h
  <2>4. \A i \in 1..N: h[i] = {Step(z): z \in h[i - 1]}
    <3> TAKE i \in 1..N
    <3>1. h[i] = {Step(g[i - 1])} /\ h[i - 1] = {g[i - 1]}
      BY <1>5, <2>1
    <3>2. QED BY <1>6, <3>1
  <2>5. \A i \in 0..N: i = 0 \/ (i \in 1..N /\ i # 0)
    BY <1>1
  <2>6. \A i \in 0..N: h[i] = IF i = 0 THEN {x0} ELSE {Step(z): z \in h[i - 1]}
    BY <2>2, <2>4, <2>5
  <2>7. QED BY <1>0, <2>3, <2>6
<1>8. \A r: r = R(r) => /\ r[0] = {x0}
                        /\ \A i \in 1..N: r[i] = {Step(z): z \in r[i - 1]}
  <2> SUFFICES ASSUME NEW r, r = R(r)
               PROVE  r[0] = {x0} /\ \A i \in 1..N: r[i] = {Step(z): z \in r[i - 1]}
    OBVIOUS
  <2>1. r = [i \in 0..N |-> IF i = 0 THEN {x0} ELSE {Step(z): z \in r[i - 1]}]
    BY <1>0
  <2> HIDE DEF R
  <2>2. QED BY ONLY <1>1, <2>1
<1> HIDE DEF R
<1>9. PICK f: f = (CHOOSE r: r = R(r)) /\ f = R(f)
  <2>1. QED BY <1>7
<1>10. Follows(f, g, N)
  <2>1. f[0] = {g[0]}
    BY <1>5, <1>8, <1>9
  <2>2. ASSUME NEW i \in 1..N, f[i - 1] = {g[i - 1]} PROVE f[i] = {g[i]}
    <3>1. f[i] = {Step(z): z \in f[i - 1]}
      BY <1>8, <1>9
    <3>2. f[i] = {Step(g[i - 1])}
      BY <1>6, <2>2, <3>1
    <3>3. QED BY <1>5, <3>2
  <2>3. QED BY <2>1, <2>2 DEF Follows
<1>11. Extreme(t, n, s) = g[N]
  <2>1. f[N] = {g[N]}
    BY <1>1, <1>10, OneRun
  <2>2. (CHOOSE z \in {g[N]}: TRUE) = g[N]
    OBVIOUS
  <2>3. QED BY <1>3, <1>9, <2>1, <2>2
<1>12. ExtremeRun(t, s, n, g)
  BY <1>0, <1>5, <1>11 DEF N, ExtremeRun, Step, Kid
<1>13. QED BY <1>12

(* The loop of Members runs through sets, each with the children of the *)
(* one before. *)
LEMMA MembersRuns ==
  ASSUME NEW t \in Trees, Top(t) # NULL
  PROVE  \E g: MembersRun(t, g)
<1>0. PICK x0 \in (SUBSET Nodes): x0 = {t.top}
  BY TreeFields DEF Top
<1> DEFINE N == Cardinality(Nodes)
           Step(S) == S \cup {m \in Nodes: \E n \in S, s \in Sides: t.child[s][n] = m}
           F == [z \in (SUBSET Nodes) |-> Step(z)]
           R(f) == [i \in 0..N |-> IF i = 0 THEN {{t.top}} ELSE {Step(z): z \in f[i - 1]}]
<1>1. N \in Nat
  BY NodesCount
<1>2. F \in [(SUBSET Nodes) -> (SUBSET Nodes)] /\ \A z \in (SUBSET Nodes): F[z] = Step(z)
  OBVIOUS
<1>3. Members(t) = CHOOSE z \in (CHOOSE r: r = R(r))[N]: TRUE
  BY <1>0 DEF Members, Top, Loop
<1> HIDE DEF N, F, Step
<1>4. PICK g: IsRun(g, (SUBSET Nodes), F, x0, N)
  BY <1>1, <1>2, RunExists
<1>5. /\ g \in [0..N -> (SUBSET Nodes)] /\ g[0] = x0
      /\ \A i \in 1..N: g[i] = Step(g[i - 1])
  <2>1. \A i \in 1..N: i - 1 \in 0..N
    BY <1>1
  <2>2. QED BY <1>2, <1>4, <2>1 DEF IsRun
<1>6. \A y: {Step(z): z \in {y}} = {Step(y)}
  OBVIOUS
<1> DEFINE h == [i \in 0..N |-> {g[i]}]
<1>7. h = R(h)
  <2>1. \A i \in 1..N: h[i - 1] = {g[i - 1]} /\ h[i] = {g[i]}
    BY <1>1
  <2>2. h[0] = {x0}
    BY <1>1, <1>5
  <2>3. h = [i \in 0..N |-> h[i]]
    OBVIOUS
  <2> HIDE DEF h
  <2>4. \A i \in 1..N: h[i] = {Step(z): z \in h[i - 1]}
    <3> TAKE i \in 1..N
    <3>1. h[i] = {Step(g[i - 1])} /\ h[i - 1] = {g[i - 1]}
      BY <1>5, <2>1
    <3>2. QED BY <1>6, <3>1
  <2>5. \A i \in 0..N: i = 0 \/ (i \in 1..N /\ i # 0)
    BY <1>1
  <2>6. \A i \in 0..N: h[i] = IF i = 0 THEN {x0} ELSE {Step(z): z \in h[i - 1]}
    BY <2>2, <2>4, <2>5
  <2>7. QED BY <1>0, <2>3, <2>6
<1>8. \A r: r = R(r) => /\ r[0] = {x0}
                        /\ \A i \in 1..N: r[i] = {Step(z): z \in r[i - 1]}
  <2> SUFFICES ASSUME NEW r, r = R(r)
               PROVE  r[0] = {x0} /\ \A i \in 1..N: r[i] = {Step(z): z \in r[i - 1]}
    OBVIOUS
  <2>1. r = [i \in 0..N |-> IF i = 0 THEN {x0} ELSE {Step(z): z \in r[i - 1]}]
    BY <1>0
  <2> HIDE DEF R
  <2>2. QED BY ONLY <1>1, <2>1
<1> HIDE DEF R
<1>9. PICK f: f = (CHOOSE r: r = R(r)) /\ f = R(f)
  <2>1. QED BY <1>7
<1>10. Follows(f, g, N)
  <2>1. f[0] = {g[0]}
    BY <1>5, <1>8, <1>9
  <2>2. ASSUME NEW i \in 1..N, f[i - 1] = {g[i - 1]} PROVE f[i] = {g[i]}
    <3>1. f[i] = {Step(z): z \in f[i - 1]}
      BY <1>8, <1>9
    <3>2. f[i] = {Step(g[i - 1])}
      BY <1>6, <2>2, <3>1
    <3>3. QED BY <1>5, <3>2
  <2>3. QED BY <2>1, <2>2 DEF Follows
<1>11. Members(t) = g[N]
  <2>1. f[N] = {g[N]}
    BY <1>1, <1>10, OneRun
  <2>2. (CHOOSE z \in {g[N]}: TRUE) = g[N]
    OBVIOUS
  <2>3. QED BY <1>3, <1>9, <2>1, <2>2
<1>12. MembersRun(t, g)
  BY <1>0, <1>5, <1>11 DEF N, MembersRun, Step, Kid, Top
<1>13. QED BY <1>12

(* The loop of Ancestors runs through sets, each with the parents of the *)
(* one before. *)
LEMMA AncestorsRuns ==
  ASSUME NEW t \in Trees, NEW n \in Nodes
  PROVE  \E g: AncestorsRun(t, n, g)
<1>0. PICK x0 \in (SUBSET Nodes): x0 = {n}
  OBVIOUS
<1> DEFINE N == Cardinality(Nodes)
           Step(S) == S \cup ({t.parent[m]: m \in S} \ {NULL})
           F == [z \in (SUBSET Nodes) |-> Step(z)]
           R(f) == [i \in 0..N |-> IF i = 0 THEN {{n}} ELSE {Step(z): z \in f[i - 1]}]
<1>1. N \in Nat
  BY NodesCount
<1>2. F \in [(SUBSET Nodes) -> (SUBSET Nodes)] /\ \A z \in (SUBSET Nodes): F[z] = Step(z)
  <2>1. ASSUME NEW S \in SUBSET Nodes PROVE Step(S) \in SUBSET Nodes
    BY TreeFields DEF Par
  <2>2. QED BY <2>1
<1>3. Ancestors(t, n) = CHOOSE z \in (CHOOSE r: r = R(r))[N]: TRUE
  BY <1>0 DEF Ancestors, Loop
<1> HIDE DEF N, F, Step
<1>4. PICK g: IsRun(g, (SUBSET Nodes), F, x0, N)
  BY <1>1, <1>2, RunExists
<1>5. /\ g \in [0..N -> (SUBSET Nodes)] /\ g[0] = x0
      /\ \A i \in 1..N: g[i] = Step(g[i - 1])
  <2>1. \A i \in 1..N: i - 1 \in 0..N
    BY <1>1
  <2>2. QED BY <1>2, <1>4, <2>1 DEF IsRun
<1>6. \A y: {Step(z): z \in {y}} = {Step(y)}
  OBVIOUS
<1> DEFINE h == [i \in 0..N |-> {g[i]}]
<1>7. h = R(h)
  <2>1. \A i \in 1..N: h[i - 1] = {g[i - 1]} /\ h[i] = {g[i]}
    BY <1>1
  <2>2. h[0] = {x0}
    BY <1>1, <1>5
  <2>3. h = [i \in 0..N |-> h[i]]
    OBVIOUS
  <2> HIDE DEF h
  <2>4. \A i \in 1..N: h[i] = {Step(z): z \in h[i - 1]}
    <3> TAKE i \in 1..N
    <3>1. h[i] = {Step(g[i - 1])} /\ h[i - 1] = {g[i - 1]}
      BY <1>5, <2>1
    <3>2. QED BY <1>6, <3>1
  <2>5. \A i \in 0..N: i = 0 \/ (i \in 1..N /\ i # 0)
    BY <1>1
  <2>6. \A i \in 0..N: h[i] = IF i = 0 THEN {x0} ELSE {Step(z): z \in h[i - 1]}
    BY <2>2, <2>4, <2>5
  <2>7. QED BY <1>0, <2>3, <2>6
<1>8. \A r: r = R(r) => /\ r[0] = {x0}
                        /\ \A i \in 1..N: r[i] = {Step(z): z \in r[i - 1]}
  <2> SUFFICES ASSUME NEW r, r = R(r)
               PROVE  r[0] = {x0} /\ \A i \in 1..N: r[i] = {Step(z): z \in r[i - 1]}
    OBVIOUS
  <2>1. r = [i \in 0..N |-> IF i = 0 THEN {x0} ELSE {Step(z): z \in r[i - 1]}]
    BY <1>0
  <2> HIDE DEF R
  <2>2. QED BY ONLY <1>1, <2>1
<1> HIDE DEF R
<1>9. PICK f: f = (CHOOSE r: r = R(r)) /\ f = R(f)
  <2>1. QED BY <1>7
<1>10. Follows(f, g, N)
  <2>1. f[0] = {g[0]}
    BY <1>5, <1>8, <1>9
  <2>2. ASSUME NEW i \in 1..N, f[i - 1] = {g[i - 1]} PROVE f[i] = {g[i]}
    <3>1. f[i] = {Step(z): z \in f[i - 1]}
      BY <1>8, <1>9
    <3>2. f[i] = {Step(g[i - 1])}
      BY <1>6, <2>2, <3>1
    <3>3. QED BY <1>5, <3>2
  <2>3. QED BY <2>1, <2>2 DEF Follows
<1>11. Ancestors(t, n) = g[N]
  <2>1. f[N] = {g[N]}
    BY <1>1, <1>10, OneRun
  <2>2. (CHOOSE z \in {g[N]}: TRUE) = g[N]
    OBVIOUS
  <2>3. QED BY <1>3, <1>9, <2>1, <2>2
<1>12. AncestorsRun(t, n, g)
  BY <1>0, <1>5, <1>11 DEF N, AncestorsRun, Step, Par
<1>13. QED BY <1>12

-----------------------------------------------------------------------------
(* Members and ancestors. *)

(* A set that grows until it is closed is closed after as many turns as *)
(* there are members to take in. *)
GrowsTo(g, M, n) ==
  /\ g[0] # {} /\ \A i \in 0..n: g[i] \in SUBSET M
  /\ \A i \in 1..n: g[i - 1] \subseteq g[i]

(* Sets that grow inside a finite set stop growing before they are more *)
(* often grown than it has members. *)
LEMMA GrowthStops ==
  ASSUME NEW M, IsFiniteSet(M), NEW n \in Nat, Cardinality(M) <= n, NEW g, GrowsTo(g, M, n),
         \A i \in 1..n: g[i] = g[i - 1] => g[n] = g[i]
  PROVE  n # 0 /\ \E i \in 1..n: g[n] = g[i] /\ g[i] = g[i - 1]
<1> USE DEF GrowsTo
<1>1. \A i \in 0..n: /\ IsFiniteSet(g[i]) /\ Cardinality(g[i]) <= Cardinality(M)
                     /\ Cardinality(g[i]) \in Nat
  BY FS_Subset, FS_CardinalityType
<1>2. Cardinality(M) \in Nat
  BY FS_CardinalityType
<1>3. Cardinality(g[0]) # 0
  BY <1>1, FS_EmptySet
<1>4. n # 0
  BY <1>1, <1>2, <1>3
<1>5. SUFFICES ASSUME \A i \in 1..n: g[i] # g[i - 1] PROVE FALSE
  BY <1>4
<1>6. ASSUME NEW i \in 1..n PROVE Cardinality(g[i - 1]) < Cardinality(g[i])
  <2>1. i - 1 \in 0..n /\ i \in 0..n
    BY <1>4
  <2>2. /\ Cardinality(g[i - 1]) <= Cardinality(g[i])
        /\ Cardinality(g[i - 1]) = Cardinality(g[i]) => g[i - 1] = g[i]
    BY <1>1, <2>1, FS_Subset
  <2>3. QED BY <1>1, <1>5, <2>1, <2>2
<1> DEFINE T == {i \in 0..n: Cardinality(g[i]) > i}
           id == [i \in 0..n |-> i]
<1>7. \A i \in 1..n: (id[i - 1] \in T => id[i] \in T)
  <2> TAKE i \in 1..n
  <2>1. i - 1 \in 0..n /\ i \in 0..n /\ id[i - 1] = i - 1 /\ id[i] = i
    BY <1>4
  <2>2. Cardinality(g[i - 1]) > i - 1 => Cardinality(g[i]) > i
    BY <1>1, <1>6, <2>1
  <2> HIDE DEF id
  <2>3. QED BY <2>1, <2>2
<1>8. id[0] \in T
  BY <1>1, <1>3, <1>4
<1>9. id[n] \in T
  <2>1. n \in 0..n
    OBVIOUS
  <2> HIDE DEF id, T
  <2>2. \A i \in 0..n: id[i] \in T
    BY <1>7, <1>8, RunStays
  <2>3. QED BY <2>1, <2>2
<1>10. QED BY <1>1, <1>2, <1>9

(* The closure of a set under X, by as many turns of a loop as there are *)
(* members it can have. *)
ClosesUnder(g, M, X, n) ==
  /\ g[0] \in SUBSET M /\ g[0] # {}
  /\ \A i \in 1..n: g[i] = g[i - 1] \cup X[g[i - 1]]

(* A set grown by what follows from it, as often as it has room for, is *)
(* closed. *)
LEMMA ClosureIs ==
  ASSUME NEW M, IsFiniteSet(M), NEW n \in Nat, Cardinality(M) <= n,
         NEW X \in [SUBSET M -> SUBSET M], NEW g, ClosesUnder(g, M, X, n)
  PROVE  g[0] \subseteq g[n] /\ g[n] \in SUBSET M /\ X[g[n]] \subseteq g[n]
<1> USE DEF ClosesUnder
<1>1. \A i \in 0..n: g[i] \in SUBSET M
  <2>1. \A i \in 1..n: (g[i - 1] \in SUBSET M => g[i] \in SUBSET M)
    OBVIOUS
  <2>2. QED BY <2>1, RunStays
<1>2. GrowsTo(g, M, n)
  BY <1>1 DEF GrowsTo
<1>3. \A i \in 1..n: (g[i] = g[i - 1] => g[n] = g[i])
  <2> SUFFICES ASSUME NEW i \in 1..n, g[i] = g[i - 1] PROVE g[n] = g[i]
    OBVIOUS
  <2> DEFINE T == {j \in 0..n: j < i \/ g[j] = g[i]}
             id == [j \in 0..n |-> j]
  <2>1. \A j \in 1..n: (id[j - 1] \in T => id[j] \in T)
    <3> SUFFICES ASSUME NEW j \in 1..n, id[j - 1] \in T PROVE id[j] \in T
      OBVIOUS
    <3>1. j - 1 \in 0..n /\ j \in 0..n /\ id[j - 1] = j - 1 /\ id[j] = j /\ i \in 1..n
      OBVIOUS
    <3>2. j - 1 < i \/ g[j - 1] = g[i]
      BY <3>1
    <3>3. CASE j - 1 < i
      BY <3>1, <3>3
    <3>4. CASE g[j - 1] = g[i]
      <4>1. g[j] = g[j - 1] \cup X[g[j - 1]] /\ g[i] = g[i - 1] \cup X[g[i - 1]]
        OBVIOUS
      <4>2. g[j] = g[i]
        BY ONLY <3>4, <4>1, g[i] = g[i - 1]
      <4>3. QED BY <3>1, <4>2
    <3>5. QED BY <3>2, <3>3, <3>4
  <2>2. id[0] \in T
    OBVIOUS
  <2>3. id[n] \in T
    <3>1. n \in 0..n
      OBVIOUS
    <3> HIDE DEF id, T
    <3>2. \A j \in 0..n: id[j] \in T
      BY <2>1, <2>2, RunStays
    <3>3. QED BY <3>1, <3>2
  <2>4. QED BY <2>3
<1>4. PICK i \in 1..n: g[n] = g[i] /\ g[i] = g[i - 1]
  BY <1>2, <1>3, GrowthStops
<1>5. X[g[n]] \subseteq g[n]
  BY <1>4
<1>6. \A j \in 0..n: g[0] \subseteq g[j]
  <2> DEFINE T == {S \in SUBSET M: g[0] \subseteq S}
  <2>1. g[0] \in T /\ \A j \in 1..n: (g[j - 1] \in T => g[j] \in T)
    <3>1. \A j \in 1..n: g[j] \in SUBSET M
      BY <1>1
    <3>2. QED BY <3>1
  <2>2. \A j \in 0..n: g[j] \in T
    <3> HIDE DEF T
    <3>1. QED BY <2>1, RunStays
  <2>3. QED BY <2>2
<1>7. n \in 0..n
  OBVIOUS
<1>8. QED BY <1>1, <1>5, <1>6, <1>7

(* The nodes hanging from the top are those the tree was made of. *)
LEMMA MembersAre ==
  ASSUME NEW key \in [Nodes -> Nat], NEW t, NEW M, NEW sub, Shaped(t, M, sub, key)
  PROVE  Members(t) = M
<1>1. CASE Top(t) = NULL
  BY <1>1 DEF Shaped, TopIs, Members, Top
<1>2. CASE Top(t) # NULL
  <2> DEFINE N == Cardinality(Nodes)
             Kids(S) == {m \in Nodes: \E n \in S, s \in Sides: Kid(t, s, n) = m}
             X == [S \in SUBSET M |-> Kids(S)]
  <2>1. t \in Trees /\ N \in Nat /\ IsFiniteSet(M) /\ Cardinality(M) <= N
    BY SizeFacts, NodesCount, NodesAssumption, FS_Subset DEF Shaped, TypedTree
  <2>2. PICK g: MembersRun(t, g)
    BY <1>2, <2>1, MembersRuns
  <2>3. Top(t) \in M /\ M \in SUBSET Nodes
    BY <1>2 DEF Shaped, TypedTree, TopIs
  <2>4. /\ g[0] = {Top(t)} /\ Members(t) = g[N]
        /\ \A i \in 1..N: g[i] = g[i - 1] \cup Kids(g[i - 1])
    BY <2>2 DEF MembersRun
  <2>5. X \in [SUBSET M -> SUBSET M]
    BY SideFacts DEF Shaped, KidsLink
  <2>6. \A S \in SUBSET M: X[S] = Kids(S) /\ Kids(S) \in SUBSET M
    BY SideFacts DEF Shaped, KidsLink
  <2> HIDE DEF N, Kids, X
  <2>7. \A i \in 0..N: g[i] \in SUBSET M
    <3>1. g[0] \in SUBSET M
      BY <2>3, <2>4
    <3>2. \A i \in 1..N: (g[i - 1] \in SUBSET M => g[i] \in SUBSET M)
      BY <2>4, <2>6
    <3>3. QED BY <2>1, <3>1, <3>2, RunStays
  <2>8. ClosesUnder(g, M, X, N)
    <3>1. \A i \in 1..N: g[i - 1] \in SUBSET M
      BY <2>1, <2>7
    <3>2. QED BY <2>3, <2>4, <2>6, <3>1 DEF ClosesUnder
  <2>9. g[0] \subseteq g[N] /\ g[N] \in SUBSET M /\ Kids(g[N]) \subseteq g[N]
    <3>1. g[0] \subseteq g[N] /\ g[N] \in SUBSET M /\ X[g[N]] \subseteq g[N]
      BY ONLY <2>1, <2>5, <2>8, ClosureIs
    <3>2. QED BY <2>6, <3>1
  <2>10. \A n \in g[N], s \in Sides: Kid(t, s, n) \in Nodes => Kid(t, s, n) \in g[N]
    BY <2>9 DEF Kids
  <2>11. M \subseteq g[N]
    <3> DEFINE B == M \ g[N]
    <3> SUFFICES ASSUME B # {} PROVE FALSE
      OBVIOUS
    <3>1. PICK n \in B: Par(t, n) \notin B
      <4>1. B \in SUBSET M
        OBVIOUS
      <4> HIDE DEF B
      <4>2. QED BY <4>1, HighestNode
    <3>2. n \in M /\ n \notin g[N] /\ n # Top(t)
      BY <2>4, <2>9
    <3>3. PICK s \in Sides: Par(t, n) \in M /\ Kid(t, s, Par(t, n)) = n
      BY <3>2 DEF Shaped, ParentsLink
    <3>4. Par(t, n) \in g[N]
      BY <3>1, <3>3
    <3>5. QED BY <2>3, <2>10, <3>2, <3>3, <3>4
  <2>12. g[N] = M
    BY <2>9, <2>11
  <2>13. QED BY <2>4, <2>12
<1>3. QED BY <1>1, <1>2

(* The ancestors of a node are the nodes in whose subtree it is. *)
LEMMA AncestorsAre ==
  ASSUME NEW key \in [Nodes -> Nat], NEW t, NEW M, NEW sub, Shaped(t, M, sub, key), NEW n \in M
  PROVE  Ancestors(t, n) = {m \in M: n \in sub[m]}
<1> DEFINE N == Cardinality(Nodes)
           Up(S) == {Par(t, m): m \in S} \ {NULL}
           X == [S \in SUBSET M |-> Up(S)]
           A == {m \in M: n \in sub[m]}
<1>1. t \in Trees /\ N \in Nat /\ IsFiniteSet(M) /\ Cardinality(M) <= N /\ n \in Nodes
  BY SizeFacts, NodesCount, NodesAssumption, FS_Subset DEF Shaped, TypedTree
<1>2. PICK g: AncestorsRun(t, n, g)
  BY <1>1, AncestorsRuns
<1>3. /\ g[0] = {n} /\ Ancestors(t, n) = g[N]
      /\ \A i \in 1..N: g[i] = g[i - 1] \cup Up(g[i - 1])
  BY <1>2 DEF AncestorsRun
<1>4. \A m \in M: Par(t, m) # NULL => Par(t, m) \in M /\ \E s \in Sides: Kid(t, s, Par(t, m)) = m
  BY DEF Shaped, TopIs, ParentsLink
<1>5. X \in [SUBSET M -> SUBSET M] /\ \A S \in SUBSET M: X[S] = Up(S) /\ Up(S) \in SUBSET M
  BY <1>4
<1>6. ASSUME NEW m \in A, Par(t, m) # NULL PROVE Par(t, m) \in A
  <2>1. PICK p \in M, s \in Sides: p = Par(t, m) /\ Kid(t, s, p) = m
    BY <1>4, <1>6
  <2>2. m # NULL
    BY SideFacts DEF Shaped, TypedTree
  <2>3. sub[m] \subseteq sub[p]
    BY <2>1, <2>2, KidFacts
  <2>4. QED BY <2>1, <2>3
<1>7. n \in A
  BY DEF Shaped, Subtrees
<1> HIDE DEF N, X
<1>8. \A i \in 0..N: g[i] \in SUBSET A
  <2>1. g[0] \in SUBSET A
    BY <1>3, <1>7
  <2>2. \A i \in 1..N: (g[i - 1] \in SUBSET A => g[i] \in SUBSET A)
    <3> HIDE DEF A
    <3>1. \A S \in SUBSET A: Up(S) \in SUBSET A
      BY <1>6
    <3> HIDE DEF Up
    <3>2. QED BY <1>3, <3>1
  <2> HIDE DEF A
  <2>3. QED BY <1>1, <2>1, <2>2, RunStays
<1> HIDE DEF Up
<1>9. A \in SUBSET M
  OBVIOUS
<1> HIDE DEF A
<1>10. ClosesUnder(g, M, X, N)
  <2>1. \A i \in 1..N: g[i - 1] \in SUBSET M
    BY <1>1, <1>8, <1>9
  <2>2. QED BY <1>3, <1>5, <2>1 DEF ClosesUnder
<1>11. g[0] \subseteq g[N] /\ g[N] \in SUBSET M /\ Up(g[N]) \subseteq g[N]
  <2>1. g[0] \subseteq g[N] /\ g[N] \in SUBSET M /\ X[g[N]] \subseteq g[N]
    BY ONLY <1>1, <1>5, <1>10, ClosureIs
  <2>2. QED BY <1>5, <2>1
<1>12. \A m \in g[N]: Par(t, m) # NULL => Par(t, m) \in g[N]
  BY <1>11 DEF Up
<1>13. A \subseteq g[N]
  <2> DEFINE B == A \ g[N]
  <2> SUFFICES ASSUME B # {} PROVE FALSE
    OBVIOUS
  <2>1. PICK m \in B: \A s \in Sides: Kid(t, s, m) \notin B
    <3>1. B \in SUBSET M
      BY <1>9
    <3> HIDE DEF B
    <3>2. QED BY <3>1, LowestNode
  <2>2. m \in M /\ n \in sub[m] /\ m \notin g[N] /\ m # n
    BY <1>3, <1>11 DEF A
  <2>3. PICK s \in Sides: n \in Below(sub, Kid(t, s, m))
    BY <2>2 DEF Shaped, Subtrees
  <2>4. PICK c: c = Kid(t, s, m) /\ c # NULL /\ n \in sub[c]
    BY <2>3 DEF Below
  <2>5. c \in M /\ Par(t, c) = m
    BY <2>2, <2>4, KidFacts
  <2>6. c \in g[N]
    BY <2>1, <2>4, <2>5 DEF A
  <2>7. m # NULL
    BY <2>2, SideFacts DEF Shaped, TypedTree
  <2>8. QED BY <1>12, <2>2, <2>5, <2>6, <2>7
<1>14. g[N] \subseteq A
  BY <1>1, <1>8
<1>15. g[N] = A
  BY <1>13, <1>14
<1>16. QED BY <1>3, <1>15 DEF A

(* What a tree's subtrees are: that of the top is all, and each is its *)
(* root and those of its children. *)
LEMMA SubtreeOf ==
  ASSUME NEW key \in [Nodes -> Nat], NEW t, NEW M, NEW sub, Shaped(t, M, sub, key)
  PROVE  /\ M \in SUBSET Nodes /\ NULL \notin M /\ t \in Trees
         /\ \A n \in M: n \in sub[n] /\ sub[n] \in SUBSET M
         /\ Top(t) # NULL => Top(t) \in M /\ sub[Top(t)] = M /\ Par(t, Top(t)) = NULL
         /\ \A n \in M: \A m \in sub[n]:
              m = n \/ \E s \in Sides: Kid(t, s, n) # NULL /\ m \in sub[Kid(t, s, n)]
<1>1. /\ M \in SUBSET Nodes /\ NULL \notin M /\ t \in Trees
      /\ \A n \in M: n \in sub[n] /\ sub[n] \in SUBSET M
  BY SideFacts DEF Shaped, TypedTree, Subtrees
<1>2. Top(t) # NULL => Top(t) \in M /\ sub[Top(t)] = M /\ Par(t, Top(t)) = NULL
  BY DEF Shaped, TopIs
<1>3. ASSUME NEW n \in M, NEW m \in sub[n], m # n
      PROVE  \E s \in Sides: Kid(t, s, n) # NULL /\ m \in sub[Kid(t, s, n)]
  <2>1. m \in M
    BY <1>1
  <2>2. PICK s \in Sides: m \in Below(sub, Kid(t, s, n))
    BY <1>3, <2>1 DEF Shaped, Subtrees
  <2>3. QED BY <2>2 DEF Below
<1>4. QED BY <1>1, <1>2, <1>3

(* The extreme node of a subtree comes before, on its side, all others. *)
ExtremeOf(t, M, sub, key, s, n, e) ==
  /\ e \in sub[n] /\ e \in M /\ Kid(t, s, e) = NULL
  /\ \A m \in sub[n]: m # e => OnSide(key, s, e, m)

(* Extreme ends at the node of the subtree that no other is beyond. *)
LEMMA ExtremeIs ==
  ASSUME NEW key \in [Nodes -> Nat], NEW t, NEW M, NEW sub, Shaped(t, M, sub, key),
         NEW n \in M, NEW s \in Sides
  PROVE  ExtremeOf(t, M, sub, key, s, n, Extreme(t, n, s))
<1> DEFINE N == Cardinality(Nodes)
           S == {a \in sub[n]: \A m \in sub[n]: m \in sub[a] \/ \A b \in sub[a]: OnSide(key, s, b, m)}
           T == {a \in S: Kid(t, s, a) = NULL}
           left == [a \in S |-> Cardinality(sub[a])]
<1>1. t \in Trees /\ M \in SUBSET Nodes /\ NULL \notin M /\ n \in Nodes /\ n \in sub[n] /\ sub[n] \in SUBSET M
  BY SubtreeOf
<1>2. N \in Nat
  BY NodesCount
<1>3. PICK g: ExtremeRun(t, s, n, g)
  BY <1>1, ExtremeRuns
<1>4. g[0] = n /\ Extreme(t, n, s) = g[N]
      /\ \A i \in 1..N: g[i] = IF Kid(t, s, g[i - 1]) = NULL THEN g[i - 1] ELSE Kid(t, s, g[i - 1])
  BY <1>3 DEF ExtremeRun
<1>5. n \in S
  BY <1>1
<1>6. ASSUME NEW a \in S, Kid(t, s, a) # NULL
      PROVE  Kid(t, s, a) \in S /\ Cardinality(sub[Kid(t, s, a)]) < Cardinality(sub[a])
  <2>1. a \in M /\ a \in sub[n]
    BY <1>1
  <2>2. PICK c: c = Kid(t, s, a)
    OBVIOUS
  <2>3. c \in M /\ c \in sub[c] /\ sub[c] \subseteq sub[a] /\ c \in sub[n]
    <3>1. c \in M /\ c \in sub[c] /\ sub[c] \subseteq sub[a]
      BY <1>6, <2>1, <2>2, KidFacts
    <3>2. sub[a] \subseteq sub[n]
      BY <2>1, SubtreesNest
    <3>3. QED BY <3>1, <3>2
  <2>4. ASSUME NEW m \in sub[n], m \notin sub[c], NEW b \in sub[c] PROVE OnSide(key, s, b, m)
    <3>1. b \in sub[a] /\ b \in M /\ m \in M /\ a \in Nodes /\ b \in Nodes /\ m \in Nodes
      BY <1>1, <2>1, <2>3, <2>4, SubtreeOf
    <3>2. CASE m \notin sub[a]
      BY <3>1, <3>2
    <3>3. CASE m = a
      BY <1>6, <2>1, <2>2, <3>3, KidFacts
    <3>4. CASE m \in sub[a] /\ m # a
      <4>1. PICK d \in Sides: Kid(t, d, a) # NULL /\ m \in sub[Kid(t, d, a)]
        BY <2>1, <3>4, SubtreeOf
      <4>2. d = Mirror(s)
        BY <2>2, <2>4, <4>1, SideFacts
      <4>3. OnSide(key, d, m, a)
        BY <2>1, <4>1, KidFacts
      <4>4. OnSide(key, s, a, m)
        BY <3>1, <4>2, <4>3, OrderFacts
      <4>5. OnSide(key, s, b, a)
        BY <1>6, <2>1, <2>2, <2>4, KidFacts
      <4>6. QED BY <3>1, <4>4, <4>5, OrderFacts
    <3>5. QED BY <3>2, <3>3, <3>4
  <2>5. Cardinality(sub[c]) < Cardinality(sub[a])
    BY <1>6, <2>1, <2>2, SizeFacts
  <2>6. QED BY <2>2, <2>3, <2>4, <2>5
<1>7. \A a \in S: Cardinality(sub[a]) \in Nat /\ Cardinality(sub[a]) # 0 /\ Cardinality(sub[a]) <= N
  <2>1. \A a \in S: a \in M
    BY <1>1
  <2>2. QED BY <1>2, <2>1, SizeFacts
<1>8. left \in [S -> Nat] /\ \A a \in S: left[a] = Cardinality(sub[a])
  BY <1>7
<1>9. T \in SUBSET S /\ \A a \in S: a \in T <=> Kid(t, s, a) = NULL
  OBVIOUS
<1> HIDE DEF N, S, T, left
<1>10. \A i \in 1..N: (g[i - 1] \in S => g[i] \in S)
  BY <1>4, <1>6
<1>11. \A i \in 0..N: g[i] \in S
  BY <1>2, <1>4, <1>5, <1>10, RunStays
<1>12. \A i \in 1..N: g[i - 1] \in S
  BY <1>2, <1>11
<1>13. g[N] \in T
  <2>1. left[g[0]] <= N
    BY <1>4, <1>5, <1>7, <1>8
  <2>2. \A i \in 1..N: (g[i - 1] \in T => g[i] \in T)
    BY <1>4, <1>9
  <2>3. \A i \in 1..N: (g[i - 1] \notin T => g[i] \in T \/ left[g[i]] < left[g[i - 1]])
    BY <1>4, <1>6, <1>8, <1>9, <1>12
  <2>4. \A a \in S: (left[a] = 0 => a \in T)
    BY <1>7, <1>8
  <2>5. left \in [S -> Nat] /\ T \in SUBSET S
    BY <1>8, <1>9
  <2>6. CountsDown(N, g, S, T, left)
    BY ONLY <1>2, <1>11, <2>1, <2>2, <2>3, <2>4, <2>5 DEF CountsDown
  <2>7. QED BY ONLY <2>6, RunArrives
<1>14. PICK e: e = g[N]
  OBVIOUS
<1>15. e \in sub[n] /\ e \in M /\ Kid(t, s, e) = NULL
       /\ \A m \in sub[n]: m \in sub[e] \/ \A b \in sub[e]: OnSide(key, s, b, m)
  BY <1>1, <1>9, <1>13, <1>14 DEF S
<1>16. ASSUME NEW m \in sub[n], m # e PROVE OnSide(key, s, e, m)
  <2>1. e \in sub[e] /\ e \in Nodes /\ m \in Nodes
    BY <1>1, <1>15, SubtreeOf
  <2>2. CASE m \notin sub[e]
    BY <1>15, <2>1, <2>2
  <2>3. CASE m \in sub[e]
    <3>1. PICK d \in Sides: Kid(t, d, e) # NULL /\ m \in sub[Kid(t, d, e)]
      BY <1>15, <1>16, <2>3, SubtreeOf
    <3>2. d = Mirror(s) /\ OnSide(key, d, m, e)
      BY <1>15, <3>1, SideFacts, KidFacts
    <3>3. QED BY <2>1, <3>2, OrderFacts
  <2>4. QED BY <2>2, <2>3
<1>17. ExtremeOf(t, M, sub, key, s, n, e)
  BY <1>15, <1>16 DEF ExtremeOf
<1>18. QED BY <1>4, <1>14, <1>17

(* dsk_rbtree first: the least of all members. *)
LEMMA FirstIs ==
  ASSUME NEW key \in [Nodes -> Nat], NEW t, NEW M, NEW sub, Shaped(t, M, sub, key)
  PROVE  /\ M = {} <=> Top(t) = NULL
         /\ M = {} => RbFirst(t) = NULL
         /\ M # {} => /\ RbFirst(t) \in M
                      /\ \A m \in M: m # RbFirst(t) => Before(key, RbFirst(t), m)
<1>1. M = {} <=> Top(t) = NULL
  BY DEF Shaped, TopIs
<1>2. M = {} => RbFirst(t) = NULL
  BY <1>1 DEF RbFirst, Top
<1>3. ASSUME M # {}
      PROVE  RbFirst(t) \in M /\ \A m \in M: m # RbFirst(t) => Before(key, RbFirst(t), m)
  <2>1. PICK n \in M: n = Top(t) /\ sub[n] = M /\ "left" \in Sides
    BY <1>1, <1>3, SubtreeOf DEF Sides
  <2>2. PICK e: e = Extreme(t, n, "left")
    OBVIOUS
  <2>3. RbFirst(t) = e
    BY <1>1, <1>3, <2>1, <2>2 DEF RbFirst, Top
  <2>4. ExtremeOf(t, M, sub, key, "left", n, e)
    BY <2>1, <2>2, ExtremeIs
  <2>5. e \in M /\ \A m \in M: m # e => Before(key, e, m)
    BY <2>1, <2>4 DEF ExtremeOf, OnSide
  <2>6. QED BY <2>3, <2>5
<1>4. QED BY <1>1, <1>2, <1>3

-----------------------------------------------------------------------------
(* Rotations. *)

SameLinks(t, r) ==
  /\ r \in Trees /\ Top(r) = Top(t)
  /\ \A d \in Sides, m \in Nodes: Kid(r, d, m) = Kid(t, d, m)
  /\ \A m \in Nodes: Par(r, m) = Par(t, m) /\ Cnt(r, m) = Cnt(t, m)

(* A tree whose links are those of a search tree is one. *)
LEMMA SameLinksShaped ==
  ASSUME NEW key \in [Nodes -> Nat], NEW t, NEW M, NEW sub, Shaped(t, M, sub, key),
         NEW r, SameLinks(t, r)
  PROVE  Shaped(r, M, sub, key)
<1> USE DEF SameLinks
<1>1. M \in SUBSET Nodes
  BY DEF Shaped, TypedTree
<1>2. TypedTree(r, M, sub)
  BY DEF Shaped, TypedTree
<1>3. TopIs(r, M, sub)
  BY <1>1 DEF Shaped, TopIs
<1>4. ParentsLink(r, M)
  BY <1>1 DEF Shaped, ParentsLink
<1>5. KidsLink(r, M)
  <2>1. \A n \in M, s \in Sides: Kid(r, s, n) = Kid(t, s, n)
    BY <1>1
  <2>2. \A n \in M: Par(r, n) = Par(t, n)
    BY <1>1
  <2>3. QED BY <2>1, <2>2 DEF Shaped, KidsLink
<1>6. Subtrees(r, M, sub) /\ InOrder(r, M, sub, key)
  <2>1. \A n \in M, s \in Sides: Kid(r, s, n) = Kid(t, s, n)
    BY <1>1
  <2>2. QED BY <2>1 DEF Shaped, Subtrees, InOrder
<1>7. QED BY <1>2, <1>3, <1>4, <1>5, <1>6 DEF Shaped

(* A node but the top is a child of its parent, on the side SideOf says, *)
(* and of no other node. *)
LEMMA SideIs ==
  ASSUME NEW key \in [Nodes -> Nat], NEW t, NEW M, NEW sub, Shaped(t, M, sub, key),
         NEW n \in M
  PROVE  /\ n = Top(t) <=> Par(t, n) = NULL
         /\ n # Top(t) => /\ Par(t, n) \in M /\ SideOf(t, n) \in Sides /\ Par(t, n) # n
                          /\ \A m \in M, d \in Sides:
                               Kid(t, d, m) = n <=> m = Par(t, n) /\ d = SideOf(t, n)
         /\ n = Top(t) => \A m \in M, d \in Sides: Kid(t, d, m) # n
<1>1. n # NULL /\ NULL \notin M
  BY SubtreeOf
<1>2. n = Top(t) <=> Par(t, n) = NULL
  BY <1>1 DEF Shaped, TopIs, ParentsLink
<1>3. n = Top(t) => \A m \in M, d \in Sides: Kid(t, d, m) # n
  BY <1>1, KidFacts
<1>4. ASSUME n # Top(t)
      PROVE  /\ Par(t, n) \in M /\ SideOf(t, n) \in Sides /\ Par(t, n) # n
             /\ \A m \in M, d \in Sides: Kid(t, d, m) = n <=> m = Par(t, n) /\ d = SideOf(t, n)
  <2>1. PICK p \in M, s \in Sides: p = Par(t, n) /\ Kid(t, s, p) = n
    BY <1>4 DEF Shaped, ParentsLink
  <2>2. p # n /\ n \in sub[n]
    BY <1>1, <2>1, KidFacts, SubtreeOf
  <2>3. ASSUME NEW d \in Sides, Kid(t, d, p) = n PROVE d = s
    <3>1. d # s => \A m \in Below(sub, Kid(t, s, p)): m \notin sub[n]
      BY <1>1, <2>1, <2>3, KidFacts
    <3>2. Below(sub, Kid(t, s, p)) = sub[n]
      BY <1>1, <2>1 DEF Below
    <3>3. QED BY <2>2, <3>1, <3>2
  <2>4. SideOf(t, n) = s
    <3>1. "left" \in Sides /\ (s = "left" \/ s = "right")
      BY DEF Sides
    <3>2. SideOf(t, n) = IF Kid(t, "left", p) = n THEN "left" ELSE "right"
      BY <2>1 DEF SideOf, Kid, Par
    <3>3. QED BY <2>1, <2>3, <3>1, <3>2
  <2>5. \A m \in M, d \in Sides: Kid(t, d, m) = n => m = p
    BY <1>1, <2>1, KidFacts
  <2>6. QED BY <2>1, <2>2, <2>3, <2>4, <2>5
<1>5. QED BY <1>2, <1>3, <1>4

(* What a rotation makes of a tree t of the nodes M. *)
Turned(t, r, M, x, y, s) ==
  /\ r \in Trees /\ Top(r) = IF Top(t) = x THEN y ELSE Top(t)
  /\ Kid(r, s, x) = Kid(t, s, x) /\ Kid(r, Mirror(s), x) = Kid(t, s, y)
  /\ Kid(r, s, y) = x /\ Kid(r, Mirror(s), y) = Kid(t, Mirror(s), y)
  /\ \A n \in M \ {x, y}, d \in Sides:
       Kid(r, d, n) = IF Kid(t, d, n) = x THEN y ELSE Kid(t, d, n)
  /\ \A n \in M: Par(r, n) = IF n = y THEN Par(t, x) ELSE IF n = x THEN y
                               ELSE IF n = Kid(t, s, y) THEN x ELSE Par(t, n)
  /\ \A m \in Nodes: Red(r, m) = Red(t, m) /\ Cnt(r, m) = Cnt(t, m)

(* What Rotate assigns is a turn of the two nodes. *)
LEMMA RotateTurns ==
  ASSUME NEW key \in [Nodes -> Nat], NEW t, NEW M, NEW sub, Shaped(t, M, sub, key),
         NEW x \in M, NEW s \in Sides, NEW y, y = Kid(t, Mirror(s), x), y # NULL
  PROVE  Turned(t, Rotate(t, x, s), M, x, y, s)
<1>1. Mirror(s) \in Sides /\ Mirror(s) # s /\ \A d \in Sides: d = s \/ d = Mirror(s)
  BY SideFacts
<1>2. y \in M /\ y # x /\ x \in Nodes /\ y \in Nodes /\ Par(t, y) = x /\ x \notin sub[y] /\ t \in Trees /\ x # NULL
  BY <1>1, KidFacts, SubtreeOf
<1>3. Par(t, x) # x /\ Par(t, x) # y
  <2>1. CASE x = Top(t)
    BY <1>2, <2>1, SideIs
  <2>2. CASE x # Top(t)
    <3>1. Par(t, x) \in M /\ SideOf(t, x) \in Sides /\ Kid(t, SideOf(t, x), Par(t, x)) = x /\ Par(t, x) # x
      BY <2>2, SideIs
    <3>2. x \in sub[Par(t, x)]
      BY <1>2, <3>1, KidFacts
    <3>3. QED BY <1>2, <3>1, <3>2
  <2>3. QED BY <2>1, <2>2
<1>4. Kid(t, s, y) # x /\ Kid(t, s, y) # y
  <2>1. CASE Kid(t, s, y) = NULL
    BY <1>2, <2>1
  <2>2. CASE Kid(t, s, y) # NULL
    BY <1>2, <2>2, KidFacts
  <2>3. QED BY <2>1, <2>2
<1>5. Cnt(t, x) = 0
  BY <1>2 DEF Shaped, TypedTree
<1>6. PICK r: r = Rotate(t, x, s) /\ Rotated(t, r, x, y, s)
  BY <1>1, <1>2, <1>3, <1>4, <1>5, RotateIs
<1>7. \A n \in M \ {x, y}, d \in Sides: Kid(r, d, n) = IF Kid(t, d, n) = x THEN y ELSE Kid(t, d, n)
  <2> TAKE n \in M \ {x, y}, d \in Sides
  <2>1. n \in Nodes /\ n # NULL
    BY SubtreeOf
  <2>2. Kid(r, d, n) = IF n = Par(t, x) /\ d = SideOf(t, x) THEN y ELSE Kid(t, d, n)
    BY <1>6, <2>1 DEF Rotated
  <2>3. Kid(t, d, n) = x <=> n = Par(t, x) /\ d = SideOf(t, x)
    BY <2>1, SideIs
  <2>4. QED BY <2>2, <2>3
<1>8. /\ r \in Trees /\ Top(r) = IF Top(t) = x THEN y ELSE Top(t)
      /\ Kid(r, s, x) = Kid(t, s, x) /\ Kid(r, Mirror(s), x) = Kid(t, s, y)
      /\ Kid(r, s, y) = x /\ Kid(r, Mirror(s), y) = Kid(t, Mirror(s), y)
  <2>1. Top(t) = x <=> Par(t, x) = NULL
    BY SideIs
  <2>2. QED BY <1>1, <1>6, <2>1 DEF Rotated
<1>9. /\ \A n \in M: Par(r, n) = IF n = y THEN Par(t, x) ELSE IF n = x THEN y
                                   ELSE IF n = Kid(t, s, y) THEN x ELSE Par(t, n)
      /\ \A m \in Nodes: Red(r, m) = Red(t, m) /\ Cnt(r, m) = Cnt(t, m)
  <2>1. M \in SUBSET Nodes
    BY SubtreeOf
  <2>2. QED BY <1>6, <2>1 DEF Rotated
<1>10. Turned(t, r, M, x, y, s)
  BY <1>7, <1>8, <1>9 DEF Turned
<1>11. QED BY <1>6, <1>10

(* The subtrees after the rotation. *)
TurnedSub(t, M, sub, x, y, s) ==
  [m \in M |-> IF m = y THEN sub[x]
               ELSE IF m = x THEN {x} \cup Below(sub, Kid(t, s, x)) \cup Below(sub, Kid(t, s, y))
               ELSE sub[m]]

(* A turn leaves a search tree of the same nodes. *)
LEMMA TurnedShaped ==
  ASSUME NEW key \in [Nodes -> Nat], NEW t, NEW M, NEW sub, Shaped(t, M, sub, key),
         NEW x \in M, NEW s \in Sides, NEW y, y = Kid(t, Mirror(s), x), y # NULL,
         NEW r, Turned(t, r, M, x, y, s)
  PROVE  Shaped(r, M, TurnedSub(t, M, sub, x, y, s), key)
<1> DEFINE a == Kid(t, s, x)
           b == Kid(t, s, y)
           c == Kid(t, Mirror(s), y)
           A == Below(sub, a)
           B == Below(sub, b)
           C == Below(sub, c)
<1>1. PICK o \in Sides: o = Mirror(s) /\ o # s /\ (\A d \in Sides: d = s \/ d = o) /\ Mirror(o) = s
  BY SideFacts
<1>2. /\ y \in M /\ y # x /\ x \in Nodes /\ y \in Nodes /\ Par(t, y) = x /\ x \notin sub[y] /\ y # Top(t)
      /\ NULL \notin M /\ M \in SUBSET Nodes /\ y \in sub[y] /\ y \in sub[x] /\ x \in sub[x] /\ t \in Trees
  BY <1>1, KidFacts, SubtreeOf
<1>3. /\ a # NULL => a \in M /\ Par(t, a) = x /\ a # x /\ a # y /\ a # Top(t)
      /\ b # NULL => b \in M /\ Par(t, b) = y /\ b # x /\ b # y /\ b # Top(t)
      /\ c # NULL => c \in M /\ Par(t, c) = y /\ c # x /\ c # y /\ c # Top(t)
  <2>1. a # NULL => a \in M /\ Par(t, a) = x /\ a # x /\ a # y /\ a # Top(t)
    <3>1. a # NULL => a \in M /\ Par(t, a) = x /\ a # x /\ a # Top(t) /\ sub[a] \subseteq M /\ a \in sub[a]
      BY KidFacts
    <3>2. a # NULL => \A m \in Below(sub, y): m \notin sub[a]
      BY <1>1, KidFacts
    <3>3. Below(sub, y) = sub[y]
      BY DEF Below
    <3>4. QED BY <1>2, <3>1, <3>2, <3>3
  <2>2. b # NULL => b \in M /\ Par(t, b) = y /\ b # y /\ b # Top(t) /\ b \in sub[y]
    BY <1>2, KidFacts
  <2>3. c # NULL => c \in M /\ Par(t, c) = y /\ c # y /\ c # Top(t) /\ c \in sub[y]
    BY <1>1, <1>2, KidFacts
  <2>4. QED BY <1>2, <2>1, <2>2, <2>3
<1>4. /\ sub[x] = {x} \cup A \cup sub[y] /\ sub[y] = {y} \cup B \cup C
      /\ A \in SUBSET M /\ B \in SUBSET M /\ C \in SUBSET M /\ sub[x] \in SUBSET M
  <2>1. \A m \in M: m \in sub[x] <=> m = x \/ m \in A \/ m \in sub[y]
    <3>1. \A m \in M: m \in sub[x] <=> (m = x \/ \E d \in Sides: m \in Below(sub, Kid(t, d, x)))
      BY DEF Shaped, Subtrees
    <3>2. Below(sub, y) = sub[y]
      BY DEF Below
    <3>3. QED BY <1>1, <3>1, <3>2
  <2>2. \A m \in M: m \in sub[y] <=> m = y \/ m \in B \/ m \in C
    <3>1. \A m \in M: m \in sub[y] <=> (m = y \/ \E d \in Sides: m \in Below(sub, Kid(t, d, y)))
      BY <1>2 DEF Shaped, Subtrees
    <3>2. QED BY <1>1, <3>1
  <2>3. \A n \in M: sub[n] \in SUBSET M
    BY SubtreeOf
  <2>4. A \in SUBSET M /\ B \in SUBSET M /\ C \in SUBSET M
    BY <1>3, <2>3 DEF Below
  <2>5. QED BY <1>2, <2>1, <2>2, <2>3, <2>4
<1>5. PICK sub2: sub2 = TurnedSub(t, M, sub, x, y, s)
  OBVIOUS
<1>6. /\ sub2 \in [M -> SUBSET M] /\ sub2[y] = sub[x] /\ sub2[x] = {x} \cup A \cup B
      /\ \A m \in M \ {x, y}: sub2[m] = sub[m]
  <2>1. \A n \in M: sub[n] \in SUBSET M
    BY SubtreeOf
  <2>2. QED BY <1>2, <1>4, <1>5, <2>1 DEF TurnedSub
<1>7. Below(sub2, a) = A /\ Below(sub2, b) = B /\ Below(sub2, c) = C
  BY <1>2, <1>3, <1>6 DEF Below
<1>8. \A n \in M \ {x, y}, d \in Sides: Below(sub2, Kid(r, d, n)) = Below(sub, Kid(t, d, n))
  <2> TAKE n \in M \ {x, y}, d \in Sides
  <2>1. Kid(r, d, n) = IF Kid(t, d, n) = x THEN y ELSE Kid(t, d, n)
    BY DEF Turned
  <2>2. Kid(t, d, n) # NULL => Kid(t, d, n) \in M /\ Kid(t, d, n) # y
    <3>1. Kid(t, d, n) # NULL => Kid(t, d, n) \in M /\ Par(t, Kid(t, d, n)) = n
      BY DEF Shaped, KidsLink
    <3>2. QED BY <1>2, <3>1
  <2>3. QED BY <1>2, <1>6, <2>1, <2>2 DEF Below
<1>9. /\ Kid(r, s, x) = a /\ Kid(r, o, x) = b /\ Kid(r, s, y) = x /\ Kid(r, o, y) = c
      /\ r \in Trees /\ Top(r) = IF Top(t) = x THEN y ELSE Top(t)
  BY <1>1 DEF Turned
<1>10. \A n \in M: Par(r, n) = IF n = y THEN Par(t, x) ELSE IF n = x THEN y
                                   ELSE IF n = b THEN x ELSE Par(t, n)
  BY DEF Turned
<1>11. \A n \in M \ {x, y}, d \in Sides: Kid(r, d, n) = IF Kid(t, d, n) = x THEN y ELSE Kid(t, d, n)
  BY DEF Turned
<1> HIDE DEF a, b, c, A, B, C
<1>12. TypedTree(r, M, sub2)
  <2>1. \A n \in Nodes: Cnt(r, n) = 0
    BY DEF Turned, Shaped, TypedTree
  <2>2. QED BY <1>2, <1>6, <1>9, <2>1 DEF TypedTree
<1>13. TopIs(r, M, sub2)
  <2>1. Top(t) # NULL /\ Top(t) \in M /\ sub[Top(t)] = M /\ Par(t, Top(t)) = NULL
    BY <1>2 DEF Shaped, TopIs
  <2>2. CASE Top(t) = x
    BY <1>2, <1>6, <1>9, <1>10, <2>1, <2>2 DEF TopIs
  <2>3. CASE Top(t) # x
    <3>1. Top(t) # b
      BY <1>2, <1>3, <2>1
    <3>2. QED BY <1>2, <1>6, <1>9, <1>10, <2>1, <2>3, <3>1 DEF TopIs
  <2>4. QED BY <2>2, <2>3
<1>14. ParentsLink(r, M)
  <2> SUFFICES ASSUME NEW n \in M, n # Top(r)
               PROVE  Par(r, n) \in M /\ \E d \in Sides: Kid(r, d, Par(r, n)) = n
    BY DEF ParentsLink
  <2>1. CASE n = x
    BY <1>2, <1>9, <1>10, <2>1
  <2>2. CASE n = b
    <3>1. b # x /\ b # y
      BY <1>2, <1>3, <2>2
    <3>2. QED BY <1>2, <1>9, <1>10, <2>2, <3>1
  <2>3. CASE n = y
    <3>1. x # Top(t)
      BY <1>9, <2>3
    <3>2. Par(t, x) \in M /\ Kid(t, SideOf(t, x), Par(t, x)) = x /\ SideOf(t, x) \in Sides /\ Par(t, x) # x
      BY <3>1, SideIs
    <3>3. Par(t, x) # y
      <4>1. x \in sub[Par(t, x)]
        BY <1>2, <3>2, KidFacts
      <4>2. QED BY <1>2, <4>1
    <3>4. QED BY <1>10, <1>11, <2>3, <3>2, <3>3
  <2>4. CASE n # x /\ n # y /\ n # b
    <3>1. n # Top(t)
      BY <1>2, <1>9, <2>4
    <3>2. PICK p \in M, d \in Sides: p = Par(t, n) /\ Kid(t, d, p) = n
      BY <3>1 DEF Shaped, ParentsLink
    <3>3. Par(r, n) = p
      BY <1>10, <2>4, <3>2
    <3>4. CASE p = x
      <4>1. d = s /\ n = a
        BY <1>1, <2>4, <3>2, <3>4 DEF a
      <4>2. QED BY <1>9, <3>3, <3>4, <4>1
    <3>5. CASE p = y
      <4>1. d = o /\ n = c
        BY <1>1, <2>4, <3>2, <3>5 DEF b, c
      <4>2. QED BY <1>9, <3>3, <3>5, <4>1
    <3>6. CASE p # x /\ p # y
      BY <1>11, <2>4, <3>2, <3>3, <3>6
    <3>7. QED BY <3>4, <3>5, <3>6
  <2>5. QED BY <2>1, <2>2, <2>3, <2>4
<1>15. KidsLink(r, M)
  <2> SUFFICES ASSUME NEW n \in M, NEW d \in Sides, Kid(r, d, n) # NULL
               PROVE  Kid(r, d, n) \in M /\ Par(r, Kid(r, d, n)) = n
    BY DEF KidsLink
  <2>0. \A m \in M: m = b => m # x /\ m # y
    BY <1>2, <1>3
  <2>1. CASE n = x /\ d = s
    <3>1. a # NULL
      BY <1>9, <2>1
    <3>2. a # b
      BY <1>2, <1>3, <3>1
    <3>3. QED BY <1>3, <1>9, <1>10, <2>1, <3>1, <3>2
  <2>2. CASE n = x /\ d = o
    BY <1>3, <1>9, <1>10, <2>2
  <2>3. CASE n = y /\ d = s
    BY <1>9, <1>10, <1>2, <2>3
  <2>4. CASE n = y /\ d = o
    <3>1. c # NULL
      BY <1>9, <2>4
    <3>2. c # b
      <4>1. c # NULL => \A m \in Below(sub, Kid(t, s, y)): m \notin sub[c]
        BY <1>1, <1>2, KidFacts DEF c
      <4>2. c \in sub[c]
        BY <1>3, <3>1, SubtreeOf
      <4>3. c = b => Below(sub, Kid(t, s, y)) = sub[c]
        BY <3>1 DEF Below, b
      <4>4. QED BY <3>1, <4>1, <4>2, <4>3
    <3>3. QED BY <1>3, <1>9, <1>10, <2>4, <3>1, <3>2
  <2>5. CASE n # x /\ n # y
    <3>1. Kid(r, d, n) = IF Kid(t, d, n) = x THEN y ELSE Kid(t, d, n)
      BY <1>11, <2>5
    <3>2. PICK k: k = Kid(t, d, n) /\ k # NULL
      BY <1>2, <3>1
    <3>3. k \in M /\ Par(t, k) = n
      BY <3>2 DEF Shaped, KidsLink
    <3>4. CASE k = x
      BY <1>2, <1>10, <3>1, <3>2, <3>3, <3>4
    <3>5. CASE k # x
      <4>1. k # y /\ k # b
        BY <1>2, <1>3, <2>5, <3>2, <3>3
      <4>2. QED BY <1>10, <3>1, <3>2, <3>3, <3>5, <4>1
    <3>6. QED BY <3>4, <3>5
  <2>6. QED BY <1>1, <2>1, <2>2, <2>3, <2>4, <2>5
<1>16. Below(sub2, x) = {x} \cup A \cup B
  BY <1>2, <1>6 DEF Below
<1>17. Subtrees(r, M, sub2)
  <2> SUFFICES ASSUME NEW n \in M, NEW m \in M
               PROVE  m \in sub2[n] <=> (m = n \/ \E d \in Sides: m \in Below(sub2, Kid(r, d, n)))
    BY DEF Subtrees
  <2>1. CASE n = x
    <3>1. (\E d \in Sides: m \in Below(sub2, Kid(r, d, n))) <=> m \in A \/ m \in B
      BY <1>1, <1>7, <1>9, <2>1
    <3>2. QED BY <1>6, <2>1, <3>1
  <2>2. CASE n = y
    <3>1. (\E d \in Sides: m \in Below(sub2, Kid(r, d, n))) <=> m \in {x} \cup A \cup B \/ m \in C
      BY <1>1, <1>7, <1>9, <1>16, <2>2
    <3>2. QED BY <1>4, <1>6, <2>2, <3>1
  <2>3. CASE n # x /\ n # y
    <3>1. m \in sub[n] <=> (m = n \/ \E d \in Sides: m \in Below(sub, Kid(t, d, n)))
      BY DEF Shaped, Subtrees
    <3>2. QED BY <1>6, <1>8, <2>3, <3>1
  <2>4. QED BY <2>1, <2>2, <2>3
<1>18. InOrder(r, M, sub2, key)
  <2> SUFFICES ASSUME NEW n \in M, NEW d \in Sides, NEW m \in Below(sub2, Kid(r, d, n))
               PROVE  OnSide(key, d, m, n)
    BY DEF InOrder
  <2>1. \A k \in M, e \in Sides: \A l \in Below(sub, Kid(t, e, k)): OnSide(key, e, l, k)
    BY DEF Shaped, InOrder
  <2>2. Below(sub, y) = sub[y]
    BY <1>2 DEF Below
  <2>3. (\A l \in A: OnSide(key, s, l, x)) /\ (\A l \in sub[y]: OnSide(key, o, l, x))
    BY <1>1, <2>1, <2>2 DEF A, a
  <2>4. (\A l \in B: OnSide(key, s, l, y)) /\ (\A l \in C: OnSide(key, o, l, y))
    BY <1>1, <1>2, <2>1 DEF B, C, b, c
  <2>5. OnSide(key, s, x, y)
    BY <1>1, <1>2, <2>3, OrderFacts
  <2>6. CASE n = x
    BY <1>1, <1>4, <1>7, <1>9, <2>3, <2>6
  <2>7. CASE n = y /\ d = o
    BY <1>7, <1>9, <2>4, <2>7
  <2>8. CASE n = y /\ d = s
    <3>1. m \in {x} \cup A \cup B
      BY <1>9, <1>16, <2>8
    <3>2. m \in A => OnSide(key, s, m, y)
      <4>1. m \in A => m \in Nodes /\ OnSide(key, s, m, x)
        BY <1>2, <1>4, <2>3
      <4>2. QED BY <1>2, <2>5, <4>1, OrderFacts
    <3>3. QED BY <2>4, <2>5, <2>8, <3>1, <3>2
  <2>9. CASE n # x /\ n # y
    BY <1>8, <2>1, <2>9
  <2>10. QED BY <1>1, <2>6, <2>7, <2>8, <2>9
<1>19. Shaped(r, M, sub2, key)
  BY <1>12, <1>13, <1>14, <1>15, <1>17, <1>18 DEF Shaped
<1>20. QED BY <1>5, <1>19

-----------------------------------------------------------------------------
(* Black heights and red nodes under a rotation. *)

(* Black heights: h[n] counts the black nodes from n down, by either side, *)
(* except that side d of p is short of one. *)
Ht(h, c) == IF c = NULL THEN 0 ELSE h[c]
Wt(t, n) == IF Red(t, n) THEN 0 ELSE 1
Short(n, s, p, d) == IF n = p /\ s = d THEN 1 ELSE 0

Heights(t, M, h, p, d) ==
  /\ h \in [M -> Nat]
  /\ \A n \in M, s \in Sides: h[n] = Ht(h, Kid(t, s, n)) + Wt(t, n) + Short(n, s, p, d)
RedPairs(t, M, up, down) ==
  \A n \in M, s \in Sides: Red(t, n) /\ IsRed(t, Kid(t, s, n)) => n = up \/ Kid(t, s, n) = down
TopBlack(t, e) == IsRed(t, Top(t)) => Top(t) = e

(* IsRed reads the colour of a node there is. *)
LEMMA IsRedIs ==
  ASSUME NEW t, NEW n
  PROVE  IsRed(t, n) <=> n # NULL /\ Red(t, n)
BY DEF IsRed, Red

(* Heights are numbers, and a node weighs one or nothing. *)
LEMMA HeightNumbers ==
  ASSUME NEW key \in [Nodes -> Nat], NEW t, NEW M, NEW sub, Shaped(t, M, sub, key),
         NEW h \in [M -> Nat]
  PROVE  /\ \A n \in M: h[n] \in Nat /\ Ht(h, n) = h[n]
         /\ \A n \in M, s \in Sides: Ht(h, Kid(t, s, n)) \in Nat
         /\ \A n \in M: Wt(t, n) \in 0..1
         /\ \A n, s, p, d: Short(n, s, p, d) \in 0..1
<1>1. NULL \notin M
  BY SubtreeOf
<1>2. \A n \in M, s \in Sides: Kid(t, s, n) = NULL \/ Kid(t, s, n) \in M
  BY DEF Shaped, KidsLink
<1>3. QED BY <1>1, <1>2 DEF Ht, Wt, Short

(* What must hold of the heights h2 for a rotation to keep them right: f *)
(* is a node, if any, whose height the recolouring before has changed. *)
TurnHeights(t, M, h, h2, x, y, s, f, p, d) ==
  /\ h \in [M -> Nat] /\ h2 \in [M -> Nat]
  /\ f \notin {x, y} /\ (f \in M => Par(t, f) = y)
  /\ h2[y] = h[x]
  /\ \A n \in M \ {x, y, f}: /\ h2[n] = h[n]
                             /\ \A e \in Sides: h[n] = Ht(h, Kid(t, e, n)) + Wt(t, n) + Short(n, e, p, d)
  /\ f \in M => \A e \in Sides: h2[f] = Ht(h, Kid(t, e, f)) + Wt(t, f) + Short(f, e, p, d)
  /\ h2[x] = Ht(h, Kid(t, s, x)) + Wt(t, x) + Short(x, s, p, d)
  /\ h2[x] = Ht(h2, Kid(t, s, y)) + Wt(t, x) + Short(x, Mirror(s), p, d)
  /\ h2[y] = h2[x] + Wt(t, y) + Short(y, s, p, d)
  /\ h2[y] = Ht(h2, Kid(t, Mirror(s), y)) + Wt(t, y) + Short(y, Mirror(s), p, d)

(* A turn keeps the black heights, when the two nodes are given theirs. *)
LEMMA TurnedHeights ==
  ASSUME NEW key \in [Nodes -> Nat], NEW t, NEW M, NEW sub, Shaped(t, M, sub, key),
         NEW x \in M, NEW s \in Sides, NEW y, y = Kid(t, Mirror(s), x), y # NULL,
         NEW r, Turned(t, r, M, x, y, s),
         NEW h, NEW h2, NEW f, NEW p, NEW d, TurnHeights(t, M, h, h2, x, y, s, f, p, d)
  PROVE  Heights(r, M, h2, p, d)
<1>1. PICK o \in Sides: o = Mirror(s) /\ o # s /\ (\A e \in Sides: e = s \/ e = o)
  BY SideFacts
<1>2. y \in M /\ y # x /\ Par(t, y) = x /\ NULL \notin M /\ M \in SUBSET Nodes
  BY <1>1, KidFacts, SubtreeOf
<1>3. \A n \in M: Wt(r, n) = Wt(t, n)
  <2>1. \A n \in M: Red(r, n) = Red(t, n)
    BY <1>2 DEF Turned
  <2>2. QED BY <2>1 DEF Wt
<1>4. \A n \in M, e \in Sides: Kid(t, e, n) # NULL => Kid(t, e, n) \in M /\ Par(t, Kid(t, e, n)) = n
  BY DEF Shaped, KidsLink
<1>5. h2 \in [M -> Nat]
  BY DEF TurnHeights
<1>6. ASSUME NEW n \in M \ {x, y}, NEW e \in Sides
      PROVE  Ht(h2, Kid(r, e, n)) = Ht(h, Kid(t, e, n))
  <2>1. Kid(r, e, n) = IF Kid(t, e, n) = x THEN y ELSE Kid(t, e, n)
    BY DEF Turned
  <2>2. CASE Kid(t, e, n) = x
    BY <1>2, <2>1, <2>2 DEF TurnHeights, Ht
  <2>3. CASE Kid(t, e, n) # x /\ Kid(t, e, n) # NULL
    <3>1. Kid(t, e, n) \in M \ {x, y, f}
      BY <1>2, <1>4, <2>3 DEF TurnHeights
    <3>2. QED BY <2>1, <2>3, <3>1 DEF TurnHeights, Ht
  <2>4. CASE Kid(t, e, n) = NULL /\ Kid(t, e, n) # x
    BY <2>1, <2>4 DEF Ht
  <2>5. QED BY <2>2, <2>3, <2>4
<1>7. Ht(h2, Kid(t, s, x)) = Ht(h, Kid(t, s, x))
  <2>1. CASE Kid(t, s, x) = NULL
    BY <2>1 DEF Ht
  <2>2. CASE Kid(t, s, x) # NULL
    <3>1. Kid(t, s, x) \in M /\ Par(t, Kid(t, s, x)) = x /\ Kid(t, s, x) # x
      BY <2>2, KidFacts
    <3>2. Kid(t, s, x) # y
      <4>1. y # Top(t)
        BY <1>1, KidFacts
      <4>2. Kid(t, s, x) = y <=> s = SideOf(t, y)
        BY <1>2, <4>1, SideIs
      <4>3. Kid(t, o, x) = y <=> o = SideOf(t, y)
        BY <1>2, <4>1, SideIs
      <4>4. QED BY <1>1, <4>2, <4>3
    <3>3. Kid(t, s, x) \in M \ {x, y, f}
      BY <1>2, <3>1, <3>2 DEF TurnHeights
    <3>4. QED BY <2>2, <3>3 DEF TurnHeights, Ht
  <2>3. QED BY <2>1, <2>2
<1>8. ASSUME NEW n \in M, NEW e \in Sides
      PROVE  h2[n] = Ht(h2, Kid(r, e, n)) + Wt(r, n) + Short(n, e, p, d)
  <2>1. CASE n = x /\ e = s
    <3>1. Kid(r, e, n) = Kid(t, s, x)
      BY <2>1 DEF Turned
    <3>2. QED BY <1>3, <1>7, <2>1, <3>1 DEF TurnHeights
  <2>2. CASE n = x /\ e = o
    <3>1. Kid(r, e, n) = Kid(t, s, y)
      BY <1>1, <2>2 DEF Turned
    <3>2. QED BY <1>1, <1>3, <2>2, <3>1 DEF TurnHeights
  <2>3. CASE n = y /\ e = s
    <3>1. Kid(r, e, n) = x /\ Ht(h2, x) = h2[x]
      BY <1>2, <2>3 DEF Turned, Ht
    <3>2. QED BY <1>3, <2>3, <3>1 DEF TurnHeights
  <2>4. CASE n = y /\ e = o
    <3>1. Kid(r, e, n) = Kid(t, o, y)
      BY <1>1, <2>4 DEF Turned
    <3>2. QED BY <1>1, <1>3, <2>4, <3>1 DEF TurnHeights
  <2>5. CASE n # x /\ n # y
    BY <1>3, <1>6, <2>5 DEF TurnHeights
  <2>6. QED BY <1>1, <2>1, <2>2, <2>3, <2>4, <2>5
<1>9. QED BY <1>5, <1>8 DEF Heights

(* Red nodes with red children after a rotation. *)
TurnPairs(t, M, x, y, s, up, down) ==
  /\ \A n \in M \ {x, y}, e \in Sides:
       IF Kid(t, e, n) = x THEN Red(t, n) /\ Red(t, y) => n = up \/ y = down
       ELSE Red(t, n) /\ IsRed(t, Kid(t, e, n)) => n = up \/ Kid(t, e, n) = down
  /\ Red(t, x) /\ IsRed(t, Kid(t, s, x)) => x = up \/ Kid(t, s, x) = down
  /\ Red(t, x) /\ IsRed(t, Kid(t, s, y)) => x = up \/ Kid(t, s, y) = down
  /\ Red(t, y) /\ Red(t, x) => y = up \/ x = down
  /\ Red(t, y) /\ IsRed(t, Kid(t, Mirror(s), y)) => y = up \/ Kid(t, Mirror(s), y) = down

(* A turn leaves no red node with a red child, but where it may. *)
LEMMA TurnedPairs ==
  ASSUME NEW key \in [Nodes -> Nat], NEW t, NEW M, NEW sub, Shaped(t, M, sub, key),
         NEW x \in M, NEW s \in Sides, NEW y, y = Kid(t, Mirror(s), x), y # NULL,
         NEW r, Turned(t, r, M, x, y, s),
         NEW up, NEW down, TurnPairs(t, M, x, y, s, up, down)
  PROVE  RedPairs(r, M, up, down)
<1>1. PICK o \in Sides: o = Mirror(s) /\ o # s /\ (\A e \in Sides: e = s \/ e = o)
  BY SideFacts
<1>2. y \in M /\ NULL \notin M /\ M \in SUBSET Nodes
  BY <1>1, KidFacts, SubtreeOf
<1>3. \A n \in M: Red(r, n) = Red(t, n)
  BY <1>2 DEF Turned
<1>4. \A n \in M, e \in Sides: Kid(t, e, n) # NULL => Kid(t, e, n) \in M
  BY DEF Shaped, KidsLink
<1>5. SUFFICES ASSUME NEW n \in M, NEW e \in Sides, Red(r, n), IsRed(r, Kid(r, e, n))
               PROVE  n = up \/ Kid(r, e, n) = down
  BY DEF RedPairs
<1>6. Kid(r, e, n) # NULL /\ Red(r, Kid(r, e, n)) /\ Red(t, n)
  BY <1>3, <1>5, IsRedIs
<1>7. CASE n = x
  <2>1. Kid(r, e, n) = IF e = s THEN Kid(t, s, x) ELSE Kid(t, s, y)
    BY <1>1, <1>7 DEF Turned
  <2>2. Kid(r, e, n) \in M
    BY <1>2, <1>4, <1>6, <2>1
  <2>3. IsRed(t, Kid(r, e, n))
    BY <1>3, <1>6, <2>2, IsRedIs
  <2>4. QED BY <1>6, <1>7, <2>1, <2>3 DEF TurnPairs
<1>8. CASE n = y
  <2>1. Kid(r, e, n) = IF e = s THEN x ELSE Kid(t, o, y)
    BY <1>1, <1>8 DEF Turned
  <2>2. Kid(r, e, n) \in M
    BY <1>2, <1>4, <1>6, <2>1
  <2>3. IsRed(t, Kid(r, e, n)) /\ Red(t, Kid(r, e, n))
    BY <1>3, <1>6, <2>2, IsRedIs
  <2>4. QED BY <1>1, <1>6, <1>8, <2>1, <2>3 DEF TurnPairs
<1>9. CASE n # x /\ n # y
  <2>1. Kid(r, e, n) = IF Kid(t, e, n) = x THEN y ELSE Kid(t, e, n)
    BY <1>9 DEF Turned
  <2>2. Kid(r, e, n) \in M
    BY <1>2, <1>4, <1>6, <2>1
  <2>3. IsRed(t, Kid(r, e, n)) /\ Red(t, Kid(r, e, n))
    BY <1>3, <1>6, <2>2, IsRedIs
  <2>4. QED BY <1>6, <1>9, <2>1, <2>3 DEF TurnPairs
<1>10. QED BY <1>7, <1>8, <1>9

-----------------------------------------------------------------------------
(* The fixup of DSK_RBTREE_INSERT. *)

(* Two recolourings are one. *)
LEMMA LinksStay ==
  ASSUME NEW t, NEW r, SameLinks(t, r), NEW v, SameLinks(r, v)
  PROVE  SameLinks(t, v)
BY DEF SameLinks

Reddened(t, r, n) ==
  /\ r \in Trees /\ SameLinks(t, r)
  /\ \A m \in Nodes: Red(r, m) <=> m = n \/ Red(t, m)
Blackened(t, r, n) ==
  /\ r \in Trees /\ SameLinks(t, r)
  /\ \A m \in Nodes: Red(r, m) <=> m # n /\ Red(t, m)

(* What making a node red changes. *)
LEMMA ReddenedIs ==
  ASSUME NEW t \in Trees, NEW n \in Nodes \cup {NULL}
  PROVE  Reddened(t, SetIsRed(t, n, TRUE), n)
<1>1. PICK r: r = SetIsRed(t, n, TRUE) /\ ColourSet(t, r, n, TRUE)
  BY SetIsRedIs
<1>2. Reddened(t, r, n)
  BY <1>1 DEF ColourSet, SameLinks, Reddened
<1>3. QED BY <1>1, <1>2

(* What making a node black changes. *)
LEMMA BlackenedIs ==
  ASSUME NEW t \in Trees, NEW n \in Nodes \cup {NULL}
  PROVE  Blackened(t, SetIsRed(t, n, FALSE), n)
<1>1. PICK r: r = SetIsRed(t, n, FALSE) /\ ColourSet(t, r, n, FALSE)
  BY SetIsRedIs
<1>2. Blackened(t, r, n)
  BY <1>1 DEF ColourSet, SameLinks, Blackened
<1>3. QED BY <1>1, <1>2

(* Halfway through an insertion: only at, which is red, may have a red *)
(* parent or be the top. *)
Inserting(t, M, sub, h, key, at) ==
  /\ Shaped(t, M, sub, key) /\ Heights(t, M, h, NULL, "left")
  /\ RedPairs(t, M, NULL, at) /\ TopBlack(t, at)
  /\ at \in M /\ Red(t, at)

(* The parent p of at is red, and so not the top; g is above it. *)
RedParent(t, M, at, p, g, s) ==
  /\ p \in M /\ g \in M /\ s \in Sides /\ at # Top(t) /\ p # Top(t)
  /\ p = Par(t, at) /\ g = Par(t, p) /\ s = SideOf(t, p) /\ Kid(t, s, g) = p
  /\ Red(t, p) /\ ~Red(t, g) /\ at # p /\ at # g /\ p # g
  /\ at = Kid(t, s, p) \/ at = Kid(t, Mirror(s), p)
  /\ ~IsRed(t, Top(t))

(* A red parent is not the top: there is a grandparent, and it is black. *)
LEMMA RedParentIs ==
  ASSUME NEW key \in [Nodes -> Nat], NEW t, NEW M, NEW sub, NEW h, NEW at,
         Inserting(t, M, sub, h, key, at), Top(t) # at, IsRed(t, Par(t, at))
  PROVE  RedParent(t, M, at, Par(t, at), Par(t, Par(t, at)), SideOf(t, Par(t, at)))
<1> USE DEF Inserting
<1>0. NULL \notin M
  BY SubtreeOf
<1>1. PICK p \in M: p = Par(t, at) /\ Red(t, p) /\ p # at /\ p # NULL
  BY SideIs, IsRedIs
<1>2. p # Top(t)
  BY <1>1, IsRedIs DEF TopBlack
<1>3. PICK g \in M, s \in Sides: g = Par(t, p) /\ s = SideOf(t, p) /\ Kid(t, s, g) = p /\ g # p /\ g # NULL
  BY <1>0, <1>1, <1>2, SideIs
<1>4. ~Red(t, g)
  BY <1>0, <1>1, <1>3, IsRedIs DEF RedPairs
<1>5. at = Kid(t, s, p) \/ at = Kid(t, Mirror(s), p)
  <2>1. SideOf(t, at) \in Sides /\ Kid(t, SideOf(t, at), p) = at
    BY <1>1, SideIs
  <2>2. QED BY <2>1, SideFacts
<1>6. at # g
  BY <1>4
<1>7. ~IsRed(t, Top(t))
  BY DEF TopBlack
<1>8. RedParent(t, M, at, p, g, s)
  BY <1>1, <1>2, <1>3, <1>4, <1>5, <1>6, <1>7 DEF RedParent
<1>9. QED BY <1>1, <1>3, <1>8

UncleColours(t, r, M, p, u, g) ==
  /\ SameLinks(t, r)
  /\ \A m \in M: Red(r, m) <=> m = g \/ (m # u /\ m # p /\ Red(t, m))

(* The uncle is red: the grandparent hands its black down. *)
LEMMA UncleRepainted ==
  ASSUME NEW key \in [Nodes -> Nat], NEW t, NEW M, NEW sub, NEW h, NEW at,
         Inserting(t, M, sub, h, key, at),
         NEW p, NEW g, NEW s, RedParent(t, M, at, p, g, s),
         NEW u, u = Kid(t, Mirror(s), g), IsRed(t, u),
         NEW r, UncleColours(t, r, M, p, u, g)
  PROVE  \E h2: Inserting(r, M, sub, h2, key, g)
<1>a. Shaped(t, M, sub, key) /\ Heights(t, M, h, NULL, "left") /\ RedPairs(t, M, NULL, at)
  BY DEF Inserting
<1>b. /\ p \in M /\ g \in M /\ s \in Sides /\ p # Top(t) /\ at \in M
      /\ p = Par(t, at) /\ g = Par(t, p) /\ s = SideOf(t, p) /\ Kid(t, s, g) = p
      /\ Red(t, p) /\ ~Red(t, g) /\ p # g /\ ~IsRed(t, Top(t))
  BY DEF Inserting, RedParent
<1>1. PICK o \in Sides: o = Mirror(s) /\ o # s /\ (\A e \in Sides: e = s \/ e = o)
  BY <1>b, SideFacts
<1>2. u # NULL /\ Red(t, u) /\ u \in M /\ Par(t, u) = g /\ u # g /\ u # Top(t)
  BY <1>a, <1>b, <1>1, IsRedIs, KidFacts
<1>3. /\ t \in Trees /\ M \in SUBSET Nodes /\ NULL \notin M
      /\ p \in Nodes /\ u \in Nodes /\ g \in Nodes
  BY <1>a, <1>b, <1>2, SubtreeOf
<1>7. SameLinks(t, r)
  BY DEF UncleColours
<1>8. \A m \in M: Red(r, m) <=> m = g \/ (m # u /\ m # p /\ Red(t, m))
  BY DEF UncleColours
<1>9. \A m \in M, e \in Sides: Kid(r, e, m) = Kid(t, e, m)
  BY <1>3, <1>7 DEF SameLinks
<1>10. Top(r) = Top(t) /\ Shaped(r, M, sub, key)
  BY <1>a, <1>7, SameLinksShaped DEF SameLinks
<1>11. \A n \in M, e \in Sides: Kid(t, e, n) # NULL => Kid(t, e, n) \in M /\ Par(t, Kid(t, e, n)) = n
  BY <1>a DEF Shaped, KidsLink
<1>12. p # u
  BY <1>a, <1>b, <1>1, <1>2, SideIs
<1> DEFINE h2 == [h EXCEPT ![p] = h[p] + 1, ![u] = h[u] + 1]
<1>13. h \in [M -> Nat]
  BY <1>a DEF Heights
<1>14. h2 \in [M -> Nat] /\ \A m \in M: h2[m] = IF m = p \/ m = u THEN h[m] + 1 ELSE h[m]
  BY <1>b, <1>2, <1>12, <1>13
<1> HIDE DEF h2
<1>c. \A m \in M, e \in Sides: h[m] \in Nat /\ Ht(h, Kid(t, e, m)) \in Nat /\ Wt(t, m) \in 0..1
  BY <1>a, <1>13, HeightNumbers
<1>15. Heights(r, M, h2, NULL, "left")
  <2> SUFFICES ASSUME NEW n \in M, NEW e \in Sides
               PROVE  h2[n] = Ht(h2, Kid(r, e, n)) + Wt(r, n) + Short(n, e, NULL, "left")
    BY <1>14 DEF Heights
  <2>0. PICK c: c = Kid(t, e, n) /\ c = Kid(r, e, n)
    BY <1>9
  <2>1. h[n] = Ht(h, c) + Wt(t, n) /\ Short(n, e, NULL, "left") = 0
    <3>1. Short(n, e, NULL, "left") = 0
      BY <1>3 DEF Short
    <3>2. h[n] = Ht(h, c) + Wt(t, n) + Short(n, e, NULL, "left")
      BY <1>a, <2>0 DEF Heights
    <3>3. Ht(h, c) \in Nat /\ Wt(t, n) \in 0..1
      BY <1>c, <2>0
    <3>4. QED BY ONLY <3>1, <3>2, <3>3
  <2>2. h[n] \in Nat /\ Ht(h, c) \in Nat
    BY <1>c, <2>0
  <2>3. CASE n = g
    <3>1. c \in {p, u}
      BY <1>b, <1>1, <2>0, <2>3
    <3>2. Ht(h2, c) = Ht(h, c) + 1
      BY <1>b, <1>2, <1>3, <1>14, <3>1 DEF Ht
    <3>3. Wt(t, n) = 1 /\ Wt(r, n) = 0 /\ h2[n] = h[n]
      BY <1>b, <1>2, <1>8, <1>12, <1>14, <2>3 DEF Wt
    <3>4. QED BY <2>0, <2>1, <2>2, <3>2, <3>3
  <2>4. CASE n # g
    <3>1. Ht(h2, c) = Ht(h, c)
      <4>1. CASE c = NULL
        BY <4>1 DEF Ht
      <4>2. CASE c # NULL
        <5>0. c \in M /\ Par(t, c) = n
          BY <1>11, <2>0, <4>2
        <5>1. c \in M /\ c # p /\ c # u
          BY <1>b, <1>2, <2>4, <5>0
        <5>2. QED BY <1>14, <4>2, <5>1 DEF Ht
      <4>3. QED BY <4>1, <4>2
    <3>2. CASE n = p \/ n = u
      <4>1. Wt(t, n) = 0 /\ Wt(r, n) = 1
        BY <1>b, <1>2, <1>8, <2>4, <3>2 DEF Wt
      <4>2. QED BY <2>0, <1>14, <2>1, <2>2, <3>1, <3>2, <4>1
    <3>3. CASE n # p /\ n # u
      <4>1. Wt(r, n) = Wt(t, n) /\ Wt(t, n) \in 0..1
        BY <1>8, <2>4, <3>3 DEF Wt
      <4>2. QED BY <2>0, <1>14, <2>1, <2>2, <3>1, <3>3, <4>1
    <3>4. QED BY <3>2, <3>3
  <2>5. QED BY <2>3, <2>4
<1>16. RedPairs(r, M, NULL, g)
  <2> SUFFICES ASSUME NEW n \in M, NEW e \in Sides, Red(r, n), IsRed(r, Kid(r, e, n)), Kid(r, e, n) # g
               PROVE  FALSE
    BY DEF RedPairs
  <2>1. PICK k: k = Kid(t, e, n) /\ k # NULL /\ Red(r, k) /\ k # g
    BY <1>9, IsRedIs
  <2>2. k \in M /\ Par(t, k) = n
    BY <1>11, <2>1
  <2>3. k # p /\ k # u /\ Red(t, k)
    BY <1>2, <1>8, <2>1, <2>2
  <2>4. n # g
    BY <1>b, <1>1, <2>1, <2>3
  <2>5. n # p /\ Red(t, n)
    BY <1>8, <2>4
  <2>6. k = at
    BY <1>a, <1>3, <2>1, <2>3, <2>5, IsRedIs DEF RedPairs
  <2>7. QED BY <1>b, <2>2, <2>5, <2>6
<1>17. TopBlack(r, g)
  <2> SUFFICES ASSUME IsRed(r, Top(r)), Top(r) # g PROVE FALSE
    BY DEF TopBlack
  <2>1. Top(t) # NULL /\ Red(r, Top(t))
    BY <1>10, IsRedIs
  <2>2. Top(t) \in M
    BY <1>a, <2>1, SubtreeOf
  <2>3. Red(t, Top(t))
    BY <1>b, <1>2, <1>8, <1>10, <2>1, <2>2
  <2>4. QED BY <1>b, <2>1, <2>3, IsRedIs
<1>18. Inserting(r, M, sub, h2, key, g)
  BY <1>b, <1>8, <1>10, <1>15, <1>16, <1>17 DEF Inserting
<1>19. QED BY <1>7, <1>18

(* With nothing short no path lacks a black node. *)
LEMMA NothingShort ==
  ASSUME NEW key \in [Nodes -> Nat], NEW t, NEW M, NEW sub, Shaped(t, M, sub, key)
  PROVE  \A n \in M: \A e: Short(n, e, NULL, "left") = 0
BY SubtreeOf DEF Short

(* The black heights of a tree in which nothing is short. *)
LEMMA HeightsAre ==
  ASSUME NEW key \in [Nodes -> Nat], NEW t, NEW M, NEW sub, Shaped(t, M, sub, key),
         NEW h, Heights(t, M, h, NULL, "left")
  PROVE  /\ h \in [M -> Nat]
         /\ \A n \in M, e \in Sides: h[n] = Ht(h, Kid(t, e, n)) + Wt(t, n) /\ h[n] \in Nat
                                     /\ Ht(h, Kid(t, e, n)) \in Nat
         /\ \A n \in M: Wt(t, n) = IF Red(t, n) THEN 0 ELSE 1
<1>1. h \in [M -> Nat]
  BY DEF Heights
<1>2. ASSUME NEW n \in M, NEW e \in Sides
      PROVE  h[n] = Ht(h, Kid(t, e, n)) + Wt(t, n) /\ h[n] \in Nat /\ Ht(h, Kid(t, e, n)) \in Nat
  <2>1. h[n] \in Nat /\ Ht(h, Kid(t, e, n)) \in Nat /\ Wt(t, n) \in 0..1
    BY <1>1, HeightNumbers
  <2>2. Short(n, e, NULL, "left") = 0
    BY NothingShort
  <2>3. h[n] = Ht(h, Kid(t, e, n)) + Wt(t, n) + Short(n, e, NULL, "left")
    BY DEF Heights
  <2>4. QED BY ONLY <2>1, <2>2, <2>3
<1>3. QED BY <1>1, <1>2 DEF Wt

(* The node and its parent lie on the same side, and the uncle is black. *)
Outer(t, M, sub, h, key, at, p, g, s) ==
  /\ Inserting(t, M, sub, h, key, at) /\ RedParent(t, M, at, p, g, s)
  /\ at = Kid(t, s, p) /\ ~IsRed(t, Kid(t, Mirror(s), g))

(* The turn that brings the inner grandchild outside. *)
LEMMA OutwardTurned ==
  ASSUME NEW key \in [Nodes -> Nat], NEW t, NEW M, NEW sub, NEW h, NEW at,
         Inserting(t, M, sub, h, key, at),
         NEW p, NEW g, NEW s, RedParent(t, M, at, p, g, s),
         at = Kid(t, Mirror(s), p), ~IsRed(t, Kid(t, Mirror(s), g)),
         NEW r, Turned(t, r, M, p, at, s)
  PROVE  \E sub2: Outer(r, M, sub2, h, key, p, at, g, s)
<1>a. /\ Shaped(t, M, sub, key) /\ Heights(t, M, h, NULL, "left") /\ RedPairs(t, M, NULL, at)
      /\ at \in M /\ Red(t, at)
  BY DEF Inserting
<1>b. /\ p \in M /\ g \in M /\ s \in Sides /\ p # Top(t) /\ at # Top(t)
      /\ p = Par(t, at) /\ g = Par(t, p) /\ s = SideOf(t, p) /\ Kid(t, s, g) = p
      /\ p # g /\ at # p /\ at # g
  BY DEF RedParent
<1>c. Red(t, p) /\ ~Red(t, g) /\ ~IsRed(t, Top(t))
  BY DEF RedParent
<1>1. PICK o \in Sides: o = Mirror(s) /\ o # s /\ (\A e \in Sides: e = s \/ e = o)
  BY <1>b, SideFacts
<1>2. NULL \notin M /\ M \in SUBSET Nodes /\ at # NULL
  BY <1>a, SubtreeOf
<1>3. PICK sub2: Shaped(r, M, sub2, key)
  BY <1>a, <1>b, <1>2, TurnedShaped
<1>4. \A n \in M, e \in Sides: Kid(t, e, n) = at => n = p /\ e = o
  <2>1. \A n \in M, e \in Sides: Kid(t, e, n) = at <=> n = Par(t, at) /\ e = SideOf(t, at)
    BY <1>a, <1>b, SideIs
  <2>2. QED BY <1>b, <1>1, <2>1
<1>5. \A n \in M, e \in Sides: Kid(t, e, n) = p => n = g /\ e = s
  <2>1. \A n \in M, e \in Sides: Kid(t, e, n) = p <=> n = Par(t, p) /\ e = SideOf(t, p)
    BY <1>a, <1>b, SideIs
  <2>2. QED BY <1>b, <2>1
<1>6. \A n \in M, e \in Sides: Red(t, n) /\ IsRed(t, Kid(t, e, n)) => n = p /\ e = o
  <2>1. \A n \in M, e \in Sides: Red(t, n) /\ IsRed(t, Kid(t, e, n)) => Kid(t, e, n) = at
    BY <1>a, <1>2 DEF RedPairs
  <2>2. QED BY <1>4, <2>1
<1>7. Heights(r, M, h, NULL, "left")
  <2>1. \A n \in M, e \in Sides: h[n] = Ht(h, Kid(t, e, n)) + Wt(t, n) + Short(n, e, NULL, "left")
    BY <1>a DEF Heights
  <2>2. h \in [M -> Nat]
    BY <1>a DEF Heights
  <2>3. h[at] = h[p]
    <3>1. h[p] = Ht(h, at) + Wt(t, p) /\ h[p] \in Nat /\ Ht(h, at) \in Nat
      BY <1>a, <1>b, <1>1, HeightsAre
    <3>2. Wt(t, p) = 0
      BY <1>c DEF Wt
    <3>3. Ht(h, at) = h[at]
      BY <1>2 DEF Ht
    <3>4. QED BY ONLY <3>1, <3>2, <3>3
  <2>4. h[at] = Ht(h, Kid(t, s, at)) /\ h[at] \in Nat /\ Wt(t, at) = 0 /\ Wt(t, p) = 0
    <3>1. Wt(t, p) = 0 /\ Wt(t, at) = 0
      BY <1>a, <1>c DEF Wt
    <3>2. h[at] = Ht(h, Kid(t, s, at)) + Wt(t, at) /\ h[at] \in Nat /\ Ht(h, Kid(t, s, at)) \in Nat
      BY <1>a, <1>b, HeightsAre
    <3>3. QED BY ONLY <3>1, <3>2
  <2>5. Short(p, s, NULL, "left") = 0 /\ Short(p, Mirror(s), NULL, "left") = 0
        /\ Short(at, s, NULL, "left") = 0
    BY <1>a, <1>b, NothingShort
  <2>6. h[p] = Ht(h, Kid(t, s, at)) + Wt(t, p) + Short(p, Mirror(s), NULL, "left")
    <3>1. PICK k: k = Ht(h, Kid(t, s, at))
      OBVIOUS
    <3>2. QED BY ONLY <2>3, <2>4, <2>5, <3>1
  <2>7. h[at] = h[p] + Wt(t, at) + Short(at, s, NULL, "left")
    BY ONLY <2>3, <2>4, <2>5
  <2>8. TurnHeights(t, M, h, h, p, at, s, NULL, NULL, "left")
    <3>1. NULL \notin {p, at} /\ NULL \notin M
      BY <1>a, <1>b, <1>2
    <3>2. QED BY ONLY <1>a, <1>b, <1>1, <2>1, <2>2, <2>3, <2>6, <2>7, <3>1 DEF TurnHeights
  <2>9. QED BY <1>a, <1>b, <1>2, <2>8, TurnedHeights
<1>8. RedPairs(r, M, NULL, p)
  <2>1. ~IsRed(t, Kid(t, s, p)) /\ ~IsRed(t, Kid(t, s, at)) /\ ~IsRed(t, Kid(t, Mirror(s), at))
    BY <1>a, <1>b, <1>c, <1>1, <1>6
  <2>2. \A n \in M \ {p, at}, e \in Sides:
          IF Kid(t, e, n) = p THEN Red(t, n) /\ Red(t, at) => n = NULL \/ at = p
          ELSE Red(t, n) /\ IsRed(t, Kid(t, e, n)) => n = NULL \/ Kid(t, e, n) = p
    BY <1>c, <1>5, <1>6
  <2>3. TurnPairs(t, M, p, at, s, NULL, p)
    BY <2>1, <2>2 DEF TurnPairs
  <2>4. QED BY <1>a, <1>b, <1>2, <2>3, TurnedPairs
<1>9. Top(r) = Top(t) /\ TopBlack(r, p) /\ ~IsRed(r, Top(r))
  <2>1. Top(r) = Top(t)
    BY <1>b DEF Turned
  <2>2. Top(t) # NULL => Top(t) \in Nodes
    BY <1>a, <1>2, SubtreeOf
  <2>3. Top(t) # NULL => (Red(r, Top(t)) <=> Red(t, Top(t)))
    BY <2>2 DEF Turned
  <2>4. ~IsRed(r, Top(r))
    BY <1>c, <2>1, <2>3, IsRedIs
  <2>5. QED BY <2>1, <2>4 DEF TopBlack
<1>10. \A n \in M: Red(r, n) = Red(t, n)
  BY <1>2 DEF Turned
<1>11. Inserting(r, M, sub2, h, key, p)
  BY <1>b, <1>c, <1>3, <1>7, <1>8, <1>9, <1>10 DEF Inserting
<1>12. Kid(r, s, g) = at /\ Kid(r, s, at) = p /\ Par(r, p) = at /\ Par(r, at) = g
  BY <1>a, <1>b DEF Turned
<1>13. SideOf(r, at) = s
  <2>1. at # Top(r)
    BY <1>b, <1>9
  <2>2. QED BY <1>a, <1>b, <1>3, <1>12, <2>1, SideIs
<1>14. ~IsRed(r, Kid(r, Mirror(s), g))
  <2>1. PICK k: k = Kid(t, o, g) /\ k # p
    BY <1>b, <1>1, <1>5
  <2>2. Kid(r, o, g) = k
    BY <1>b, <2>1 DEF Turned
  <2>3. k # NULL => k \in M
    BY <1>a, <1>b, <2>1 DEF Shaped, KidsLink
  <2>4. ~IsRed(r, k)
    BY <1>1, <1>10, <2>1, <2>3, IsRedIs
  <2>5. QED BY <1>1, <2>2, <2>4
<1>15. RedParent(r, M, p, at, g, s)
  <2>1. Red(r, at) /\ ~Red(r, g)
    BY <1>a, <1>b, <1>c, <1>10
  <2>2. QED BY <1>a, <1>b, <1>9, <1>12, <1>13, <2>1 DEF RedParent
<1>16. Outer(r, M, sub2, h, key, p, at, g, s)
  BY <1>11, <1>12, <1>14, <1>15 DEF Outer
<1>17. QED BY <1>16

RaiseColours(t, u, M, p, g) ==
  /\ SameLinks(t, u)
  /\ \A m \in M: Red(u, m) <=> m = g \/ (m # p /\ Red(t, m))

(* The parent made black and turned over the grandparent ends the *)
(* trouble. *)
LEMMA RaiseTurned ==
  ASSUME NEW key \in [Nodes -> Nat], NEW t, NEW M, NEW sub, NEW h, NEW at,
         NEW p, NEW g, NEW s, Outer(t, M, sub, h, key, at, p, g, s),
         NEW u, RaiseColours(t, u, M, p, g),
         NEW r, Turned(u, r, M, g, p, Mirror(s))
  PROVE  (\E sub2, h2: Inserting(r, M, sub2, h2, key, at)) /\ ~IsRed(r, Par(r, at))
<1>a. /\ Shaped(t, M, sub, key) /\ Heights(t, M, h, NULL, "left") /\ RedPairs(t, M, NULL, at)
      /\ at \in M /\ Red(t, at) /\ RedParent(t, M, at, p, g, s) /\ at = Kid(t, s, p)
      /\ ~IsRed(t, Kid(t, Mirror(s), g))
  BY DEF Outer, Inserting
<1>b. /\ p \in M /\ g \in M /\ s \in Sides /\ p # Top(t) /\ at # Top(t)
      /\ p = Par(t, at) /\ g = Par(t, p) /\ s = SideOf(t, p) /\ Kid(t, s, g) = p
      /\ p # g /\ at # p /\ at # g
  BY <1>a DEF RedParent
<1>c. Red(t, p) /\ ~Red(t, g) /\ ~IsRed(t, Top(t))
  BY <1>a DEF RedParent
<1>1. PICK o \in Sides: o = Mirror(s) /\ o # s /\ (\A e \in Sides: e = s \/ e = o) /\ Mirror(o) = s
  BY <1>b, SideFacts
<1>2. NULL \notin M /\ M \in SUBSET Nodes /\ at # NULL /\ p # NULL
  BY <1>a, <1>b, SubtreeOf
<1>3. /\ Shaped(u, M, sub, key) /\ Top(u) = Top(t)
      /\ \A n \in M, e \in Sides: Kid(u, e, n) = Kid(t, e, n)
      /\ \A n \in M: Par(u, n) = Par(t, n)
  <2>1. SameLinks(t, u)
    BY DEF RaiseColours
  <2>2. QED BY <1>a, <1>2, <2>1, SameLinksShaped DEF SameLinks
<1>4. \A m \in M: Red(u, m) <=> m = g \/ (m # p /\ Red(t, m))
  BY DEF RaiseColours
<1>5. Turned(u, r, M, g, p, o) /\ p = Kid(u, Mirror(o), g)
  BY <1>b, <1>1, <1>3
<1>6. PICK sub2: Shaped(r, M, sub2, key)
  BY <1>a, <1>b, <1>2, <1>3, <1>5, TurnedShaped
<1>7. \A n \in M, e \in Sides: Kid(t, e, n) = at => n = p /\ e = s
  <2>1. \A n \in M, e \in Sides: Kid(t, e, n) = at <=> n = Par(t, at) /\ e = SideOf(t, at)
    BY <1>a, <1>b, SideIs
  <2>2. QED BY <1>a, <1>b, <2>1
<1>8. \A n \in M, e \in Sides: Kid(t, e, n) # NULL => Kid(t, e, n) \in M /\ Par(t, Kid(t, e, n)) = n
  BY <1>a DEF Shaped, KidsLink
<1>9. \A n \in M, e \in Sides: Red(t, n) /\ IsRed(t, Kid(t, e, n)) => n = p /\ e = s
  <2>1. \A n \in M, e \in Sides: Red(t, n) /\ IsRed(t, Kid(t, e, n)) => Kid(t, e, n) = at
    BY <1>a, <1>2 DEF RedPairs
  <2>2. QED BY <1>7, <2>1
<1>10. /\ h \in [M -> Nat]
       /\ \A n \in M, e \in Sides: h[n] = Ht(h, Kid(t, e, n)) + Wt(t, n) /\ h[n] \in Nat
                                   /\ Ht(h, Kid(t, e, n)) \in Nat
  BY <1>a, HeightsAre
<1>11. h[g] = h[p] + 1 /\ h[at] = h[p] /\ h[p] \in Nat /\ h[p] = Ht(h, Kid(t, o, p)) /\ h[p] = Ht(h, Kid(t, o, g))
  <2>1. Wt(t, g) = 1 /\ Wt(t, p) = 0 /\ Ht(h, p) = h[p] /\ Ht(h, at) = h[at]
    BY <1>c, <1>2 DEF Wt, Ht
  <2>2. /\ h[g] = Ht(h, p) + Wt(t, g) /\ h[p] = Ht(h, at) + Wt(t, p)
        /\ h[p] \in Nat /\ h[at] \in Nat /\ h[g] \in Nat
    BY <1>a, <1>b, <1>10
  <2>3. /\ h[p] = Ht(h, Kid(t, o, p)) + Wt(t, p) /\ h[g] = Ht(h, Kid(t, o, g)) + Wt(t, g)
        /\ Ht(h, Kid(t, o, p)) \in Nat /\ Ht(h, Kid(t, o, g)) \in Nat
    BY <1>b, <1>10
  <2>4. QED BY ONLY <2>1, <2>2, <2>3
<1> DEFINE h2 == [h EXCEPT ![g] = h[p], ![p] = h[g]]
<1>12. h2 \in [M -> Nat] /\ h2[g] = h[p] /\ h2[p] = h[g] /\ \A n \in M \ {g, p}: h2[n] = h[n]
  BY <1>b, <1>10
<1> HIDE DEF h2
<1>13. Heights(r, M, h2, NULL, "left")
  <2>1. \A n \in M: Wt(u, n) = IF n = g THEN 0 ELSE IF n = p THEN 1 ELSE Wt(t, n)
    BY <1>b, <1>4 DEF Wt
  <2>2. \A n \in M, e \in Sides: Short(n, e, NULL, "left") = 0
    BY <1>a, NothingShort
  <2>3. \A n \in M \ {g, p, NULL}: h2[n] = h[n]
                 /\ \A e \in Sides: h[n] = Ht(h, Kid(u, e, n)) + Wt(u, n) + Short(n, e, NULL, "left")
    <3> TAKE n \in M \ {g, p, NULL}
    <3>1. \A e \in Sides: h[n] = Ht(h, Kid(u, e, n)) + Wt(u, n) + Short(n, e, NULL, "left")
      <4> TAKE e \in Sides
      <4>1. h[n] = Ht(h, Kid(t, e, n)) + Wt(t, n) + Short(n, e, NULL, "left")
        BY <1>a DEF Heights
      <4>2. Kid(u, e, n) = Kid(t, e, n) /\ Wt(u, n) = Wt(t, n)
        BY <1>3, <2>1
      <4>3. QED BY <4>1, <4>2
    <3>2. QED BY <1>12, <3>1
  <2>4. Ht(h2, Kid(u, o, p)) = h[p]
    <3>1. PICK k: k = Kid(t, o, p)
      OBVIOUS
    <3>2. k # NULL => k \in M \ {g, p}
      <4>1. k # NULL => k \in M /\ k # p
        BY <1>8, <1>b, <3>1
      <4>2. k # g
        <5>1. g \notin sub[p]
          BY <1>a, <1>b, <1>2, KidFacts
        <5>2. Kid(t, o, p) = g /\ g # NULL => g \in sub[p]
          BY <1>a, <1>b, KidFacts
        <5>3. QED BY <1>b, <1>2, <3>1, <5>1, <5>2
      <4>3. QED BY <4>1, <4>2
    <3>3. Ht(h2, k) = Ht(h, k)
      BY <1>12, <3>2 DEF Ht
    <3>4. QED BY <1>3, <1>11, <1>b, <3>1, <3>3
  <2>5. Ht(h2, Kid(u, s, p)) = h[p]
    <3>1. Kid(u, s, p) = at
      BY <1>a, <1>b, <1>3
    <3>2. QED BY <1>a, <1>b, <1>2, <1>11, <1>12, <3>1 DEF Ht
  <2>6. Wt(u, g) = 0 /\ Wt(u, p) = 1 /\ Kid(u, o, g) = Kid(t, o, g)
    BY <1>b, <1>3, <2>1
  <2>7. TurnHeights(u, M, h, h2, g, p, o, NULL, NULL, "left")
    <3>1. NULL \notin {g, p} /\ NULL \notin M
      BY <1>b, <1>2
    <3>2. /\ h2[g] = Ht(h, Kid(u, o, g)) + Wt(u, g) + Short(g, o, NULL, "left")
          /\ h2[g] = Ht(h2, Kid(u, o, p)) + Wt(u, g) + Short(g, s, NULL, "left")
      <4>1. Short(g, o, NULL, "left") = 0 /\ Short(g, s, NULL, "left") = 0
        BY <1>b, <2>2
      <4>2. QED BY ONLY <1>11, <1>12, <2>4, <2>6, <4>1
    <3>3. /\ h2[p] = h2[g] + Wt(u, p) + Short(p, o, NULL, "left")
          /\ h2[p] = Ht(h2, Kid(u, s, p)) + Wt(u, p) + Short(p, s, NULL, "left")
      <4>1. Short(p, o, NULL, "left") = 0 /\ Short(p, s, NULL, "left") = 0
        BY <1>b, <2>2
      <4>2. QED BY ONLY <1>11, <1>12, <2>5, <2>6, <4>1
    <3>4. QED BY ONLY <1>1, <1>10, <1>12, <2>3, <3>1, <3>2, <3>3 DEF TurnHeights
  <2>8. QED BY <1>b, <1>2, <1>3, <1>5, <2>7, TurnedHeights
<1>14. RedPairs(r, M, NULL, at)
  <2>1. ~Red(u, p)
    BY <1>b, <1>4
  <2>2. ~IsRed(u, Kid(u, o, g)) /\ ~IsRed(u, Kid(u, o, p))
    <3>1. \A n \in {g, p}: Kid(u, o, n) = Kid(t, o, n) /\ ~IsRed(t, Kid(t, o, n))
      BY <1>a, <1>b, <1>c, <1>1, <1>3, <1>9
    <3>2. \A n \in {g, p}: Kid(t, o, n) # NULL => Kid(t, o, n) \in M /\ Kid(t, o, n) # g
      <4>1. Kid(t, o, g) # NULL => Kid(t, o, g) \in M /\ Kid(t, o, g) # g
        BY <1>a, <1>b, KidFacts
      <4>2. Kid(t, o, p) # NULL => Kid(t, o, p) \in M
        BY <1>b, <1>8
      <4>3. Kid(t, o, p) # g
        <5>1. g \notin sub[p]
          BY <1>a, <1>b, <1>2, KidFacts
        <5>2. Kid(t, o, p) = g /\ g # NULL => g \in sub[p]
          BY <1>a, <1>b, KidFacts
        <5>3. QED BY <1>b, <1>2, <5>1, <5>2
      <4>4. QED BY <4>1, <4>2, <4>3
    <3>3. QED BY <1>4, <3>1, <3>2, IsRedIs
  <2>3. \A n \in M \ {g, p}, e \in Sides:
          IF Kid(u, e, n) = g THEN Red(u, n) /\ Red(u, p) => n = NULL \/ p = at
          ELSE Red(u, n) /\ IsRed(u, Kid(u, e, n)) => n = NULL \/ Kid(u, e, n) = at
    <3> TAKE n \in M \ {g, p}, e \in Sides
    <3>1. PICK k: k = Kid(u, e, n) /\ k = Kid(t, e, n)
      BY <1>3
    <3>2. CASE k = g
      BY <2>1, <3>1, <3>2
    <3>3. CASE k # g
      <4>1. SUFFICES ASSUME Red(u, n), IsRed(u, k) PROVE FALSE
        BY <3>1, <3>3
      <4>2. k # NULL /\ Red(u, k)
        BY <4>1, IsRedIs
      <4>3. k \in M
        BY <1>8, <3>1, <4>2
      <4>4. Red(t, n) /\ Red(t, k)
        BY <1>4, <3>3, <4>1, <4>2, <4>3
      <4>5. IsRed(t, k)
        BY <4>2, <4>4, IsRedIs
      <4>6. QED BY <1>9, <3>1, <4>4, <4>5
    <3>4. QED BY <3>2, <3>3
  <2>4. TurnPairs(u, M, g, p, o, NULL, at)
    BY <2>1, <2>2, <2>3 DEF TurnPairs
  <2>5. QED BY <1>b, <1>2, <1>3, <1>5, <2>4, TurnedPairs
<1>15. \A n \in M: Red(r, n) = Red(u, n)
  BY <1>2, <1>5 DEF Turned
<1>16. TopBlack(r, at)
  <2>1. Top(r) = IF Top(t) = g THEN p ELSE Top(t)
    BY <1>3, <1>5 DEF Turned
  <2>2. Top(t) # NULL => Top(t) \in M
    BY <1>a, SubtreeOf
  <2>3. ~IsRed(r, Top(r))
    <3>1. CASE Top(t) = g
      BY <1>b, <1>4, <1>15, <2>1, <3>1, IsRedIs
    <3>2. CASE Top(t) # g /\ Top(t) # NULL
      BY <1>b, <1>c, <1>4, <1>15, <2>1, <2>2, <3>2, IsRedIs
    <3>3. CASE Top(t) # g /\ Top(t) = NULL
      BY <2>1, <3>3, IsRedIs
    <3>4. QED BY <3>1, <3>2, <3>3
  <2>4. QED BY <2>3 DEF TopBlack
<1>17. Inserting(r, M, sub2, h2, key, at)
  <2>1. Red(r, at)
    BY <1>a, <1>b, <1>4, <1>15
  <2>2. QED BY <1>a, <1>6, <1>13, <1>14, <1>16, <2>1 DEF Inserting
<1>18. ~IsRed(r, Par(r, at))
  <2>1. at # Kid(u, o, p)
    BY <1>a, <1>b, <1>1, <1>3, <1>7
  <2>2. Par(r, at) = p
    BY <1>a, <1>b, <1>3, <1>5, <2>1 DEF Turned
  <2>3. QED BY <1>b, <1>4, <1>15, <2>2, IsRedIs
<1>19. QED BY <1>17, <1>18

UncleTree(t, p, u, g) == SetIsRed(SetIsRed(SetIsRed(t, p, FALSE), u, FALSE), g, TRUE)
RaiseTree(t, p, g) == SetIsRed(SetIsRed(t, p, FALSE), g, TRUE)

(* What the case of a red uncle colours. *)
LEMMA UncleTreeIs ==
  ASSUME NEW t \in Trees, NEW M \in SUBSET Nodes, NEW p \in M, NEW u \in M, NEW g \in M
  PROVE  UncleColours(t, UncleTree(t, p, u, g), M, p, u, g) /\ UncleTree(t, p, u, g) \in Trees
<1>1. p \in Nodes /\ u \in Nodes /\ g \in Nodes
  OBVIOUS
<1>2. PICK a: a = SetIsRed(t, p, FALSE) /\ Blackened(t, a, p)
  BY <1>1, BlackenedIs
<1>3. PICK b: b = SetIsRed(a, u, FALSE) /\ Blackened(a, b, u)
  BY <1>1, <1>2, BlackenedIs DEF Blackened
<1>4. PICK c: c = SetIsRed(b, g, TRUE) /\ Reddened(b, c, g)
  BY <1>1, <1>3, ReddenedIs DEF Blackened
<1>5. c = UncleTree(t, p, u, g)
  BY <1>2, <1>3, <1>4 DEF UncleTree
<1>6. SameLinks(t, a) /\ SameLinks(a, b) /\ SameLinks(b, c) /\ c \in Trees
  BY <1>2, <1>3, <1>4 DEF Blackened, Reddened
<1>7. SameLinks(t, c)
  BY <1>6, LinksStay
<1>8. \A m \in M: Red(c, m) <=> m = g \/ (m # u /\ m # p /\ Red(t, m))
  BY <1>2, <1>3, <1>4 DEF Blackened, Reddened
<1>9. UncleColours(t, c, M, p, u, g)
  BY <1>7, <1>8 DEF UncleColours
<1>10. QED BY <1>5, <1>6, <1>9

(* What is coloured before the parent rises. *)
LEMMA RaiseTreeIs ==
  ASSUME NEW t \in Trees, NEW M \in SUBSET Nodes, NEW p \in M, NEW g \in M
  PROVE  RaiseColours(t, RaiseTree(t, p, g), M, p, g) /\ RaiseTree(t, p, g) \in Trees
<1>1. p \in Nodes /\ g \in Nodes
  OBVIOUS
<1>2. PICK a: a = SetIsRed(t, p, FALSE) /\ Blackened(t, a, p)
  BY <1>1, BlackenedIs
<1>3. PICK b: b = SetIsRed(a, g, TRUE) /\ Reddened(a, b, g)
  BY <1>1, <1>2, ReddenedIs DEF Blackened
<1>5. b = RaiseTree(t, p, g)
  BY <1>2, <1>3 DEF RaiseTree
<1>6. SameLinks(t, a) /\ SameLinks(a, b) /\ b \in Trees
  BY <1>2, <1>3 DEF Blackened, Reddened
<1>7. SameLinks(t, b)
  BY <1>6, LinksStay
<1>8. \A m \in M: Red(b, m) <=> m = g \/ (m # p /\ Red(t, m))
  BY <1>2, <1>3 DEF Blackened, Reddened
<1>9. RaiseColours(t, b, M, p, g)
  BY <1>7, <1>8 DEF RaiseColours
<1>10. QED BY <1>5, <1>6, <1>9

(* The state of the insertion's loop: what has been done so far is an *)
(* insertion halfway through. *)
Tree(st) == st.tree
At(st) == st.at
Halfway(t, M, key, at) == \E sub, h: Inserting(t, M, sub, h, key, at)
InTransit(M, key) == {st \in [tree: Trees, at: M]: Halfway(st.tree, M, key, st.at)}
Settled(t, at) == Top(t) = at \/ ~IsRed(t, Par(t, at))

(* The last turn of an insertion leaves the tree settled. *)
LEMMA RaiseIs ==
  ASSUME NEW key \in [Nodes -> Nat], NEW t, NEW M, NEW sub, NEW h, NEW at,
         NEW p, NEW g, NEW s, Outer(t, M, sub, h, key, at, p, g, s),
         NEW r, r = Rotate(RaiseTree(t, p, g), g, Mirror(s))
  PROVE  Halfway(r, M, key, at) /\ Settled(r, at) /\ r \in Trees
<1>1. Inserting(t, M, sub, h, key, at) /\ RedParent(t, M, at, p, g, s)
  BY DEF Outer
<1>2. Shaped(t, M, sub, key)
  BY <1>1 DEF Inserting
<1>3. t \in Trees /\ M \in SUBSET Nodes /\ NULL \notin M
  BY <1>2, SubtreeOf
<1>4. p \in M /\ g \in M /\ s \in Sides /\ Kid(t, s, g) = p
  BY <1>1 DEF RedParent
<1>5. PICK u: u = RaiseTree(t, p, g) /\ RaiseColours(t, u, M, p, g)
  BY <1>3, <1>4, RaiseTreeIs
<1>6. SameLinks(t, u)
  BY <1>5 DEF RaiseColours
<1>7. Shaped(u, M, sub, key)
  BY <1>2, <1>6, SameLinksShaped
<1>8. PICK o \in Sides: o = Mirror(s) /\ Mirror(o) = s
  BY <1>4, SideFacts
<1>9. p = Kid(u, Mirror(o), g) /\ p # NULL
  BY <1>3, <1>4, <1>6, <1>8 DEF SameLinks
<1>10. Turned(u, Rotate(u, g, o), M, g, p, o)
  BY <1>4, <1>7, <1>9, RotateTurns
<1>11. Turned(u, r, M, g, p, Mirror(s))
  BY <1>5, <1>8, <1>10
<1>12. (\E sub2, h2: Inserting(r, M, sub2, h2, key, at)) /\ ~IsRed(r, Par(r, at))
  BY <1>5, <1>11, RaiseTurned
<1>13. r \in Trees
  BY <1>11 DEF Turned
<1>14. QED BY <1>12, <1>13 DEF Halfway, Settled

(* One turn: either the red pair has moved up two levels or all is well. *)
MovedUp(t, r, M, sub, key, g) ==
  At(r) = g /\ SameLinks(t, Tree(r)) /\ \E h2: Inserting(Tree(r), M, sub, h2, key, g)

(* One turn of the fixup moves the red node up by two or settles the *)
(* tree. *)
LEMMA FixRedParentIs ==
  ASSUME NEW key \in [Nodes -> Nat], NEW t, NEW M, NEW sub, NEW h, NEW at,
         Inserting(t, M, sub, h, key, at),
         NEW p, NEW g, NEW s, RedParent(t, M, at, p, g, s),
         NEW r, r = FixRedParent(t, at, p, g, s)
  PROVE  /\ r \in InTransit(M, key)
         /\ MovedUp(t, r, M, sub, key, g) \/ Settled(Tree(r), At(r))
<1>2. Shaped(t, M, sub, key) /\ at \in M
  BY DEF Inserting
<1>3. t \in Trees /\ M \in SUBSET Nodes /\ NULL \notin M
  BY <1>2, SubtreeOf
<1>4. /\ p \in M /\ g \in M /\ s \in Sides /\ Kid(t, s, g) = p
      /\ at = Kid(t, s, p) \/ at = Kid(t, Mirror(s), p)
  BY DEF RedParent
<1>5. Mirror(s) \in Sides /\ Mirror(s) # s
  BY <1>4, SideFacts
<1>6. PICK u: u = Kid(t, Mirror(s), g)
  OBVIOUS
<1>7. CASE IsRed(t, u)
  <2>1. u \in M
    BY <1>2, <1>4, <1>5, <1>6, <1>7, IsRedIs, KidFacts
  <2>2. PICK v: v = UncleTree(t, p, u, g) /\ UncleColours(t, v, M, p, u, g) /\ v \in Trees
    BY <1>3, <1>4, <2>1, UncleTreeIs
  <2>3. r = [at |-> g, tree |-> v]
    BY <1>6, <1>7, <2>2 DEF FixRedParent, UncleTree, Kid
  <2>4. \E h2: Inserting(v, M, sub, h2, key, g)
    BY <1>6, <1>7, <2>2, UncleRepainted
  <2>5. At(r) = g /\ Tree(r) = v /\ r \in [tree: Trees, at: M]
    BY <1>4, <2>2, <2>3 DEF At, Tree
  <2>6. Halfway(v, M, key, g)
    BY <2>4 DEF Halfway
  <2>7. SameLinks(t, v)
    BY <2>2 DEF UncleColours
  <2>8. MovedUp(t, r, M, sub, key, g)
    BY <2>4, <2>5, <2>7 DEF MovedUp
  <2>9. QED BY <2>5, <2>6, <2>8 DEF InTransit, At, Tree
<1>8. CASE ~IsRed(t, u)
  <2>1. r = Raise(Outward(t, p, s, at), g, s)
    BY <1>6, <1>8 DEF FixRedParent, Kid
  <2>2. PICK t2, at2, p2: /\ Outward(t, p, s, at) = [tree |-> t2, at |-> at2, p |-> p2]
                          /\ \E sub2: Outer(t2, M, sub2, h, key, at2, p2, g, s)
    <3>1. CASE at = Kid(t, Mirror(s), p)
      <4>1. Outward(t, p, s, at) = [tree |-> Rotate(t, p, s), at |-> p, p |-> at]
        BY <3>1 DEF Outward, Kid
      <4>2. Turned(t, Rotate(t, p, s), M, p, at, s)
        BY <1>2, <1>3, <1>4, <3>1, RotateTurns
      <4>3. \E sub2: Outer(Rotate(t, p, s), M, sub2, h, key, p, at, g, s)
        BY <1>6, <1>8, <3>1, <4>2, OutwardTurned
      <4>4. QED BY <4>1, <4>3
    <3>2. CASE at # Kid(t, Mirror(s), p)
      <4>1. Outward(t, p, s, at) = [tree |-> t, at |-> at, p |-> p]
        BY <3>2 DEF Outward, Kid
      <4>2. Outer(t, M, sub, h, key, at, p, g, s)
        BY <1>4, <1>6, <1>8, <3>2 DEF Outer
      <4>3. QED BY <4>1, <4>2
    <3>3. QED BY <3>1, <3>2
  <2>3. PICK sub2: Outer(t2, M, sub2, h, key, at2, p2, g, s)
    BY <2>2
  <2>4. PICK v: v = Rotate(RaiseTree(t2, p2, g), g, Mirror(s))
    OBVIOUS
  <2>5. r = [at |-> at2, tree |-> v]
    BY <2>1, <2>2, <2>4 DEF Raise, RaiseTree
  <2>6. Halfway(v, M, key, at2) /\ Settled(v, at2) /\ v \in Trees
    BY <2>3, <2>4, RaiseIs
  <2>7. at2 \in M
    BY <2>3 DEF Outer, Inserting
  <2>8. At(r) = at2 /\ Tree(r) = v /\ r \in [tree: Trees, at: M]
    BY <2>5, <2>6, <2>7 DEF At, Tree
  <2>9. QED BY <2>6, <2>8 DEF InTransit, At, Tree
<1>9. QED BY <1>7, <1>8

(* A node above another has fewer ancestors. *)
LEMMA FewerAbove ==
  ASSUME NEW key \in [Nodes -> Nat], NEW t, NEW M, NEW sub, Shaped(t, M, sub, key),
         NEW a \in M, NEW b \in M, a # b, a \in sub[b],
         NEW r, Shaped(r, M, sub, key)
  PROVE  /\ Cardinality(Ancestors(r, b)) < Cardinality(Ancestors(t, a))
         /\ Cardinality(Ancestors(r, b)) \in Nat /\ Cardinality(Ancestors(t, a)) \in Nat
<1> DEFINE A == {m \in M: a \in sub[m]}
           B == {m \in M: b \in sub[m]}
<1>1. Ancestors(t, a) = A /\ Ancestors(r, b) = B
  BY AncestorsAre
<1>2. B \subseteq A
  BY SubtreesNest
<1>3. a \in A /\ a \notin B
  BY NotBelowBoth, SubtreeOf
<1>4. M \in SUBSET Nodes /\ IsFiniteSet(Nodes) /\ A \in SUBSET M
  BY SubtreeOf, NodesAssumption
<1>5. IsFiniteSet(A)
  BY <1>4, FS_Subset
<1> HIDE DEF A, B
<1>6. IsFiniteSet(B) /\ Cardinality(B) <= Cardinality(A) /\ Cardinality(B) # Cardinality(A)
  BY <1>2, <1>3, <1>5, FS_Subset
<1>7. Cardinality(A) \in Nat /\ Cardinality(B) \in Nat
  BY <1>5, <1>6, FS_CardinalityType
<1>8. QED BY <1>1, <1>6, <1>7

(* A node has an ancestor, itself, and no more than there are addresses. *)
LEMMA SomeAbove ==
  ASSUME NEW key \in [Nodes -> Nat], NEW t, NEW M, NEW sub, Shaped(t, M, sub, key),
         NEW a \in M
  PROVE  Cardinality(Ancestors(t, a)) \in 1..Cardinality(Nodes) /\ Ancestors(t, a) \in SUBSET M
<1> DEFINE A == {m \in M: a \in sub[m]}
<1>1. Ancestors(t, a) = A
  BY AncestorsAre
<1>2. a \in A /\ A \in SUBSET M
  BY SubtreeOf
<1>3. M \in SUBSET Nodes /\ IsFiniteSet(Nodes) /\ Cardinality(Nodes) \in Nat
  BY SubtreeOf, NodesAssumption, NodesCount
<1> HIDE DEF A
<1>4. A \subseteq Nodes
  BY <1>2, <1>3
<1>5. IsFiniteSet(A) /\ Cardinality(A) <= Cardinality(Nodes)
  BY <1>3, <1>4, FS_Subset
<1>6. Cardinality(A) \in Nat /\ Cardinality(A) # 0
  BY <1>2, <1>5, FS_CardinalityType, FS_EmptySet
<1>7. QED BY <1>1, <1>2, <1>3, <1>5, <1>6

InsertStep(st, r, M, key) ==
  /\ r \in InTransit(M, key)
  /\ Settled(Tree(st), At(st)) => r = st
  /\ Settled(Tree(st), At(st)) \/ Settled(Tree(r), At(r))
       \/ Cardinality(Ancestors(Tree(r), At(r))) < Cardinality(Ancestors(Tree(st), At(st)))

(* A turn of the loop keeps what holds in it, and comes closer to its *)
(* end. *)
LEMMA InsertFixupIs ==
  ASSUME NEW key \in [Nodes -> Nat], NEW M, NEW st \in InTransit(M, key)
  PROVE  InsertStep(st, InsertFixup(st), M, key)
<1>1. PICK t, at: t = Tree(st) /\ at = At(st)
  OBVIOUS
<1>2. PICK sub, h: Inserting(t, M, sub, h, key, at)
  BY <1>1 DEF InTransit, Halfway, Tree, At
<1>3. Settled(t, at) <=> Top(t) = at \/ ~IsRed(t, Par(t, at))
  BY DEF Settled
<1>4. InsertFixup(st) = IF Top(t) = at \/ ~IsRed(t, Par(t, at)) THEN st
                        ELSE FixRedParent(t, at, Par(t, at), Par(t, Par(t, at)), SideOf(t, Par(t, at)))
  BY <1>1 DEF InsertFixup, Tree, At, Top, Par
<1>5. CASE Settled(t, at)
  <2>1. InsertFixup(st) = st
    BY <1>3, <1>4, <1>5
  <2>2. QED BY <1>1, <1>5, <2>1 DEF InsertStep
<1>6. CASE ~Settled(t, at)
  <2>1. PICK p, g, s: p = Par(t, at) /\ g = Par(t, p) /\ s = SideOf(t, p)
    OBVIOUS
  <2>2. PICK r: r = InsertFixup(st) /\ r = FixRedParent(t, at, p, g, s)
    BY <1>3, <1>4, <1>6, <2>1
  <2>3. RedParent(t, M, at, p, g, s)
    BY <1>2, <1>3, <1>6, <2>1, RedParentIs
  <2>4. r \in InTransit(M, key) /\ (MovedUp(t, r, M, sub, key, g) \/ Settled(Tree(r), At(r)))
    BY <1>2, <2>2, <2>3, FixRedParentIs
  <2>5. ASSUME MovedUp(t, r, M, sub, key, g)
        PROVE  Cardinality(Ancestors(Tree(r), At(r))) < Cardinality(Ancestors(t, at))
    <3>1. Shaped(t, M, sub, key) /\ at \in M
      BY <1>2 DEF Inserting
    <3>2. At(r) = g /\ Shaped(Tree(r), M, sub, key)
      BY <2>5, <3>1, SameLinksShaped DEF MovedUp
    <3>3. p \in M /\ g \in M /\ s \in Sides /\ Kid(t, s, g) = p /\ at # g /\ Mirror(s) \in Sides
      BY <2>3, SideFacts DEF RedParent
    <3>4. NULL \notin M
      BY <3>1, SubtreeOf
    <3>5. p \in sub[g] /\ sub[p] \subseteq sub[g]
      BY <3>1, <3>3, <3>4, KidFacts
    <3>6. at \in sub[p]
      <4>1. at = Kid(t, s, p) \/ at = Kid(t, Mirror(s), p)
        BY <2>3 DEF RedParent
      <4>2. QED BY <3>1, <3>3, <3>4, <4>1, KidFacts
    <3>7. at \in sub[g]
      BY <3>5, <3>6
    <3>8. QED BY <3>1, <3>2, <3>3, <3>7, FewerAbove
  <2>6. QED BY <1>1, <1>6, <2>2, <2>4, <2>5 DEF InsertStep
<1>7. QED BY <1>5, <1>6

InsertRun(t, n, M, key, g) ==
  /\ g \in [0..Cardinality(Nodes) -> InTransit(M, key)] /\ g[0] = [tree |-> t, at |-> n]
  /\ \A i \in 1..Cardinality(Nodes): g[i] = InsertFixup(g[i - 1])
  /\ Loop(InsertFixup, [tree |-> t, at |-> n]) = g[Cardinality(Nodes)]

(* The loop of DSK_RBTREE_INSERT runs through trees in transit. *)
LEMMA InsertRuns ==
  ASSUME NEW key \in [Nodes -> Nat], NEW M, NEW t, NEW n, [tree |-> t, at |-> n] \in InTransit(M, key)
  PROVE  \E g: InsertRun(t, n, M, key, g)
<1>0. PICK x0 \in InTransit(M, key): x0 = [tree |-> t, at |-> n]
  OBVIOUS
<1> DEFINE N == Cardinality(Nodes)
           Step(z) == InsertFixup(z)
           F == [z \in InTransit(M, key) |-> Step(z)]
           R(f) == [i \in 0..N |-> IF i = 0 THEN {[tree |-> t, at |-> n]} ELSE {Step(z): z \in f[i - 1]}]
<1>1. N \in Nat
  BY NodesCount
<1>2. F \in [InTransit(M, key) -> InTransit(M, key)] /\ \A z \in InTransit(M, key): F[z] = Step(z)
  <2>1. \A z \in InTransit(M, key): InsertFixup(z) \in InTransit(M, key)
    BY InsertFixupIs DEF InsertStep
  <2>2. QED BY <2>1
<1>3. Loop(InsertFixup, [tree |-> t, at |-> n]) = CHOOSE z \in (CHOOSE r: r = R(r))[N]: TRUE
  BY <1>0 DEF Step, Loop
<1> HIDE DEF N, F, Step
<1>4. PICK g: IsRun(g, InTransit(M, key), F, x0, N)
  BY <1>1, <1>2, RunExists
<1>5. /\ g \in [0..N -> InTransit(M, key)] /\ g[0] = x0
      /\ \A i \in 1..N: g[i] = Step(g[i - 1])
  <2>1. \A i \in 1..N: i - 1 \in 0..N
    BY <1>1
  <2>2. QED BY <1>2, <1>4, <2>1 DEF IsRun
<1>6. \A y: {Step(z): z \in {y}} = {Step(y)}
  OBVIOUS
<1> DEFINE h == [i \in 0..N |-> {g[i]}]
<1>7. h = R(h)
  <2>1. \A i \in 1..N: h[i - 1] = {g[i - 1]} /\ h[i] = {g[i]}
    BY <1>1
  <2>2. h[0] = {x0}
    BY <1>1, <1>5
  <2>3. h = [i \in 0..N |-> h[i]]
    OBVIOUS
  <2> HIDE DEF h
  <2>4. \A i \in 1..N: h[i] = {Step(z): z \in h[i - 1]}
    <3> TAKE i \in 1..N
    <3>1. h[i] = {Step(g[i - 1])} /\ h[i - 1] = {g[i - 1]}
      BY <1>5, <2>1
    <3>2. QED BY <1>6, <3>1
  <2>5. \A i \in 0..N: i = 0 \/ (i \in 1..N /\ i # 0)
    BY <1>1
  <2>6. \A i \in 0..N: h[i] = IF i = 0 THEN {x0} ELSE {Step(z): z \in h[i - 1]}
    BY <2>2, <2>4, <2>5
  <2>7. QED BY <1>0, <2>3, <2>6
<1>8. \A r: r = R(r) => /\ r[0] = {x0}
                        /\ \A i \in 1..N: r[i] = {Step(z): z \in r[i - 1]}
  <2> SUFFICES ASSUME NEW r, r = R(r)
               PROVE  r[0] = {x0} /\ \A i \in 1..N: r[i] = {Step(z): z \in r[i - 1]}
    OBVIOUS
  <2>1. r = [i \in 0..N |-> IF i = 0 THEN {x0} ELSE {Step(z): z \in r[i - 1]}]
    BY <1>0
  <2> HIDE DEF R
  <2>2. QED BY ONLY <1>1, <2>1
<1> HIDE DEF R
<1>9. PICK f: f = (CHOOSE r: r = R(r)) /\ f = R(f)
  <2>1. QED BY <1>7
<1>10. Follows(f, g, N)
  <2>1. f[0] = {g[0]}
    BY <1>5, <1>8, <1>9
  <2>2. ASSUME NEW i \in 1..N, f[i - 1] = {g[i - 1]} PROVE f[i] = {g[i]}
    <3>1. f[i] = {Step(z): z \in f[i - 1]}
      BY <1>8, <1>9
    <3>2. f[i] = {Step(g[i - 1])}
      BY <1>6, <2>2, <3>1
    <3>3. QED BY <1>5, <3>2
  <2>3. QED BY <2>1, <2>2 DEF Follows
<1>11. Loop(InsertFixup, [tree |-> t, at |-> n]) = g[N]
  <2>1. f[N] = {g[N]}
    BY <1>1, <1>10, OneRun
  <2>2. (CHOOSE z \in {g[N]}: TRUE) = g[N]
    OBVIOUS
  <2>3. QED BY <1>3, <1>9, <2>1, <2>2
<1>12. InsertRun(t, n, M, key, g)
  BY <1>0, <1>5, <1>11 DEF N, InsertRun, Step
<1>13. QED BY <1>12

(* The loop of DSK_RBTREE_INSERT ends: the tree is settled. *)
LEMMA InsertLoopIs ==
  ASSUME NEW key \in [Nodes -> Nat], NEW M, NEW t \in Trees, NEW n \in M, Halfway(t, M, key, n),
         NEW r, r = Loop(InsertFixup, [tree |-> t, at |-> n])
  PROVE  r \in InTransit(M, key) /\ Settled(Tree(r), At(r))
<1> DEFINE N == Cardinality(Nodes)
           S == InTransit(M, key)
           T == {st \in S: Settled(Tree(st), At(st))}
           left == [st \in S |-> Cardinality(Ancestors(Tree(st), At(st)))]
<1>1. [tree |-> t, at |-> n] \in S
  BY DEF InTransit
<1>2. PICK g: InsertRun(t, n, M, key, g)
  BY <1>1, InsertRuns
<1>3. /\ g[0] = [tree |-> t, at |-> n] /\ r = g[N] /\ g \in [0..N -> S]
      /\ \A i \in 1..N: g[i] = InsertFixup(g[i - 1])
  BY <1>2 DEF InsertRun
<1>4. N \in Nat
  BY NodesCount
<1>5. \A st \in S: Cardinality(Ancestors(Tree(st), At(st))) \in 1..N
  <2> TAKE st \in S
  <2>1. At(st) \in M /\ Halfway(Tree(st), M, key, At(st))
    BY DEF InTransit, Tree, At
  <2>2. PICK sub: Shaped(Tree(st), M, sub, key)
    BY <2>1 DEF Halfway, Inserting
  <2>3. QED BY <2>1, <2>2, SomeAbove
<1>6. left \in [S -> Nat] /\ \A st \in S: left[st] = Cardinality(Ancestors(Tree(st), At(st))) /\ left[st] \in 1..N
  BY <1>4, <1>5
<1>7. T \in SUBSET S /\ \A st \in S: st \in T <=> Settled(Tree(st), At(st))
  OBVIOUS
<1>8. \A st \in S: InsertStep(st, InsertFixup(st), M, key)
  BY InsertFixupIs
<1> HIDE DEF N, S, T, left
<1>9. \A i \in 0..N: g[i] \in S
  BY <1>3
<1>10. \A i \in 1..N: g[i - 1] \in S /\ g[i] \in S /\ InsertStep(g[i - 1], g[i], M, key)
  BY <1>3, <1>4, <1>8, <1>9
<1>11. left[g[0]] <= N
  BY <1>4, <1>6, <1>9
<1>12. \A i \in 1..N: (g[i - 1] \in T => g[i] \in T)
  BY <1>7, <1>10 DEF InsertStep
<1>13. \A i \in 1..N: (g[i - 1] \notin T => g[i] \in T \/ left[g[i]] < left[g[i - 1]])
  BY <1>6, <1>7, <1>10 DEF InsertStep
<1>14. \A st \in S: (left[st] = 0 => st \in T)
  BY <1>4, <1>6
<1>15. left \in [S -> Nat] /\ T \in SUBSET S
  BY <1>6, <1>7
<1>16. g[N] \in T
  <2>1. N \in Nat
    BY <1>4
  <2>2. CountsDown(N, g, S, T, left)
    BY ONLY <1>9, <1>11, <1>12, <1>13, <1>14, <1>15, <2>1 DEF CountsDown
  <2>3. QED BY ONLY <2>2, RunArrives
<1>17. QED BY <1>3, <1>16 DEF S, T

-----------------------------------------------------------------------------
(* Red-black trees. *)

(* A red-black tree of the nodes M in the order of the keys. *)
Sound(t, M, sub, h, key) ==
  /\ Shaped(t, M, sub, key) /\ Heights(t, M, h, NULL, "left")
  /\ RedPairs(t, M, NULL, NULL) /\ ~IsRed(t, Top(t))
GoodTree(t, M, key) == \E sub, h: Sound(t, M, sub, h, key)

(* The top made black, a settled tree is a red-black tree. *)
LEMMA TopBlackened ==
  ASSUME NEW key \in [Nodes -> Nat], NEW t, NEW M, NEW at, Halfway(t, M, key, at), Settled(t, at)
  PROVE  GoodTree(BlackTop(t), M, key)
<1>1. PICK sub, h: Inserting(t, M, sub, h, key, at)
  BY DEF Halfway
<1>2. /\ Shaped(t, M, sub, key) /\ Heights(t, M, h, NULL, "left")
      /\ RedPairs(t, M, NULL, at) /\ TopBlack(t, at) /\ at \in M /\ Red(t, at)
  BY <1>1 DEF Inserting
<1>3. t \in Trees /\ M \in SUBSET Nodes /\ NULL \notin M
  BY <1>2, SubtreeOf
<1>4. Top(t) \in M
  BY <1>2, <1>3 DEF Shaped, TopIs
<1>5. PICK r: r = BlackTop(t) /\ Blackened(t, r, Top(t))
  <2>1. Blackened(t, SetIsRed(t, Top(t), FALSE), Top(t))
    BY <1>3, <1>4, BlackenedIs
  <2>2. BlackTop(t) = SetIsRed(t, Top(t), FALSE)
    BY DEF BlackTop, Top
  <2>3. QED BY <2>1, <2>2
<1>6. SameLinks(t, r) /\ \A m \in M: Red(r, m) <=> m # Top(t) /\ Red(t, m)
  BY <1>3, <1>5 DEF Blackened
<1>7. Shaped(r, M, sub, key) /\ Top(r) = Top(t)
  BY <1>2, <1>6, SameLinksShaped DEF SameLinks
<1>8. /\ \A n \in M, e \in Sides: Kid(r, e, n) = Kid(t, e, n)
      /\ \A n \in M, e \in Sides: Kid(t, e, n) # NULL =>
           Kid(t, e, n) \in M /\ Par(t, Kid(t, e, n)) = n /\ Kid(t, e, n) # Top(t)
  BY <1>2, <1>3, <1>6, KidFacts DEF SameLinks
<1>9. ~IsRed(r, Top(r))
  BY <1>4, <1>6, <1>7, IsRedIs
<1>10. RedPairs(r, M, NULL, NULL)
  <2> SUFFICES ASSUME NEW n \in M, NEW e \in Sides, Red(r, n), IsRed(r, Kid(r, e, n)) PROVE FALSE
    BY DEF RedPairs
  <2>1. PICK k \in M: k = Kid(t, e, n) /\ k # NULL /\ Red(t, k) /\ Red(t, n) /\ Par(t, k) = n /\ k # Top(t)
    BY <1>6, <1>8, IsRedIs
  <2>2. k = at
    BY <1>2, <1>3, <2>1, IsRedIs DEF RedPairs
  <2>3. n # NULL
    BY <1>3
  <2>4. QED BY <2>1, <2>2, <2>3, IsRedIs DEF Settled
<1>11. \E h2: Heights(r, M, h2, NULL, "left")
  <2>0. /\ h \in [M -> Nat]
        /\ \A n \in M, e \in Sides: h[n] = Ht(h, Kid(t, e, n)) + Wt(t, n) /\ h[n] \in Nat
                                    /\ Ht(h, Kid(t, e, n)) \in Nat
        /\ \A n \in M: Wt(t, n) = IF Red(t, n) THEN 0 ELSE 1
    BY <1>2, HeightsAre
  <2>1. CASE ~Red(t, Top(t))
    <3>1. \A n \in M: Wt(r, n) = Wt(t, n)
      BY <1>6, <2>1 DEF Wt
    <3>2. Heights(r, M, h, NULL, "left")
      BY <1>2, <1>8, <3>1 DEF Heights
    <3>3. QED BY <3>2
  <2>2. CASE Red(t, Top(t))
    <3> DEFINE h2 == [h EXCEPT ![Top(t)] = h[Top(t)] + 1]
    <3>1. h2 \in [M -> Nat] /\ \A n \in M: h2[n] = IF n = Top(t) THEN h[n] + 1 ELSE h[n]
      BY <1>4, <2>0
    <3> HIDE DEF h2
    <3>2. ASSUME NEW n \in M, NEW e \in Sides
          PROVE  h2[n] = Ht(h2, Kid(r, e, n)) + Wt(r, n) + Short(n, e, NULL, "left")
      <4>1. PICK c: c = Kid(t, e, n) /\ c = Kid(r, e, n)
        BY <1>8
      <4>2. Ht(h2, c) = Ht(h, c)
        BY <1>8, <3>1, <4>1 DEF Ht
      <4>3. Short(n, e, NULL, "left") = 0
        BY <1>2, NothingShort
      <4>4. h[n] = Ht(h, c) + Wt(t, n) /\ h[n] \in Nat /\ Ht(h, c) \in Nat
        BY <2>0, <4>1
      <4>5. CASE n = Top(t)
        <5>1. Wt(t, n) = 0 /\ Wt(r, n) = 1 /\ h2[n] = h[n] + 1
          BY <1>6, <2>2, <3>1, <4>5 DEF Wt
        <5>2. QED BY ONLY <4>1, <4>2, <4>3, <4>4, <5>1
      <4>6. CASE n # Top(t)
        <5>1. Wt(r, n) = Wt(t, n) /\ h2[n] = h[n] /\ Wt(t, n) \in Nat
          BY <1>6, <3>1, <4>6 DEF Wt
        <5>2. QED BY ONLY <4>1, <4>2, <4>3, <4>4, <5>1
      <4>7. QED BY <4>5, <4>6
    <3>3. Heights(r, M, h2, NULL, "left")
      BY <3>1, <3>2 DEF Heights
    <3>4. QED BY <3>3
  <2>3. QED BY <2>1, <2>2
<1>12. PICK h2: Heights(r, M, h2, NULL, "left")
  BY <1>11
<1>13. Sound(r, M, sub, h2, key)
  BY <1>7, <1>9, <1>10, <1>12 DEF Sound
<1>14. QED BY <1>5, <1>13 DEF GoodTree

(* The fixup of DSK_RBTREE_INSERT makes the tree a red-black tree. *)
LEMMA RestoredIs ==
  ASSUME NEW key \in [Nodes -> Nat], NEW M, NEW t \in Trees, NEW n \in M, Halfway(t, M, key, n)
  PROVE  GoodTree(Restored(t, n), M, key)
<1>1. PICK r: r = Loop(InsertFixup, [tree |-> t, at |-> n])
  OBVIOUS
<1>2. r \in InTransit(M, key) /\ Settled(Tree(r), At(r))
  BY <1>1, InsertLoopIs
<1>3. Restored(t, n) = BlackTop(Tree(r))
  BY <1>1 DEF Restored, Tree
<1>4. Halfway(Tree(r), M, key, At(r))
  BY <1>2 DEF InTransit, Tree, At
<1>5. QED BY <1>2, <1>3, <1>4, TopBlackened

-----------------------------------------------------------------------------
(* Where DSK_RBTREE_INSERT hangs the node. *)

(* Where a node n that is not in the tree belongs: on a side of the node *)
(* last where nothing hangs yet (or, while the search goes on, where at *)
(* does), n lying on the right side of every node above. *)
PointFor(t, M, sub, key, n, last, side, at) ==
  /\ side \in Sides
  /\ \/ last = NULL /\ at = Top(t)
     \/ /\ last \in M /\ at = Kid(t, side, last) /\ OnSide(key, side, n, last)
        /\ \A m \in M, e \in Sides: last \in Below(sub, Kid(t, e, m)) => OnSide(key, e, n, m)

Hung(t, r, n, last, side) ==
  /\ r \in Trees /\ Top(r) = IF last = NULL THEN n ELSE Top(t)
  /\ \A d \in Sides, m \in Nodes:
       Kid(r, d, m) = IF m = n THEN NULL ELSE IF m = last /\ d = side THEN n ELSE Kid(t, d, m)
  /\ \A m \in Nodes: Par(r, m) = IF m = n THEN last ELSE Par(t, m)
  /\ \A m \in Nodes: (Red(r, m) <=> m = n \/ Red(t, m)) /\ Cnt(r, m) = Cnt(t, m)

Bared(t, r, n, last) ==
  /\ r \in Trees /\ Top(r) = Top(t)
  /\ \A d \in Sides, m \in Nodes: Kid(r, d, m) = IF m = n THEN NULL ELSE Kid(t, d, m)
  /\ \A m \in Nodes: Par(r, m) = IF m = n THEN last ELSE Par(t, m)
  /\ \A m \in Nodes: Red(r, m) = Red(t, m) /\ Cnt(r, m) = Cnt(t, m)

TopSet(t, r, n) ==
  /\ r \in Trees /\ Top(r) = n
  /\ \A d \in Sides, m \in Nodes: Kid(r, d, m) = Kid(t, d, m)
  /\ \A m \in Nodes: Par(r, m) = Par(t, m) /\ Red(r, m) = Red(t, m) /\ Cnt(r, m) = Cnt(t, m)

(* What the new node's pointers are set to. *)
LEMMA BareIs ==
  ASSUME NEW t \in Trees, NEW n \in Nodes, NEW last \in Nodes \cup {NULL}
  PROVE  Bared(t, [t EXCEPT !.child["left"][n] = NULL, !.child["right"][n] = NULL, !.parent[n] = last],
               n, last)
<1>1. "left" \in Sides /\ "right" \in Sides /\ \A d \in Sides: d = "left" \/ d = "right"
  BY DEF Sides
<1>2. QED BY <1>1 DEF Trees, Bared, Kid, Par, Red, Cnt, Top

(* What setting the top changes. *)
LEMMA TopSetIs ==
  ASSUME NEW t \in Trees, NEW n \in Nodes \cup {NULL}
  PROVE  TopSet(t, [t EXCEPT !.top = n], n)
BY DEF Trees, TopSet, Kid, Par, Red, Cnt, Top

(* What hanging a node from the insertion point changes. *)
LEMMA HangIs ==
  ASSUME NEW t \in Trees, NEW n \in Nodes, NEW last \in Nodes \cup {NULL}, last # n, NEW side \in Sides,
         NEW pt, pt.last = last, pt.side = side
  PROVE  Hung(t, Hang(t, n, pt), n, last, side)
<1>0. NULL \notin Nodes /\ n # NULL /\ n \in Nodes \cup {NULL}
  BY SideFacts
<1>1. PICK c: /\ c = [t EXCEPT !.child["left"][n] = NULL, !.child["right"][n] = NULL, !.parent[n] = last]
              /\ Bared(t, c, n, last)
  BY BareIs
<1>2. /\ c \in Trees /\ Top(c) = Top(t)
      /\ \A d \in Sides, m \in Nodes: Kid(c, d, m) = IF m = n THEN NULL ELSE Kid(t, d, m)
      /\ \A m \in Nodes: Par(c, m) = IF m = n THEN last ELSE Par(t, m)
      /\ \A m \in Nodes: Red(c, m) = Red(t, m) /\ Cnt(c, m) = Cnt(t, m)
  BY <1>1 DEF Bared
<1>3. PICK d: d = IF last = NULL THEN [c EXCEPT !.top = n] ELSE SetChild(c, last, side, n)
  OBVIOUS
<1>4. /\ d \in Trees /\ Top(d) = IF last = NULL THEN n ELSE Top(c)
      /\ \A e \in Sides, m \in Nodes: Kid(d, e, m) = IF m = last /\ e = side THEN n ELSE Kid(c, e, m)
      /\ \A m \in Nodes: Par(d, m) = Par(c, m)
      /\ \A m \in Nodes: Red(d, m) = Red(c, m) /\ Cnt(d, m) = Cnt(c, m)
  <2>1. CASE last = NULL
    <3>1. TopSet(c, d, n)
      BY <1>0, <1>2, <1>3, <2>1, TopSetIs
    <3>2. QED BY <1>0, <2>1, <3>1 DEF TopSet
  <2>2. CASE last # NULL
    <3>1. ChildSet(c, d, last, side, n)
      BY <1>0, <1>2, <1>3, <2>2, SetChildIs
    <3>2. QED BY <2>2, <3>1 DEF ChildSet
  <2>3. QED BY <2>1, <2>2
<1>5. PICK r: r = SetIsRed(d, n, TRUE) /\ Reddened(d, r, n)
  BY <1>0, <1>4, ReddenedIs
<1>6. r = Hang(t, n, pt)
  BY <1>1, <1>3, <1>5 DEF Hang
<1>7. /\ r \in Trees /\ Top(r) = Top(d)
      /\ \A e \in Sides, m \in Nodes: Kid(r, e, m) = Kid(d, e, m)
      /\ \A m \in Nodes: Par(r, m) = Par(d, m) /\ Cnt(r, m) = Cnt(d, m)
      /\ \A m \in Nodes: Red(r, m) <=> m = n \/ Red(d, m)
  BY <1>5 DEF Reddened, SameLinks
<1>8. \A m \in Nodes: Red(r, m) <=> m = n \/ Red(t, m)
  BY <1>2, <1>4, <1>7
<1>9. /\ Top(r) = IF last = NULL THEN n ELSE Top(t)
      /\ \A e \in Sides, m \in Nodes:
           Kid(r, e, m) = IF m = n THEN NULL ELSE IF m = last /\ e = side THEN n ELSE Kid(t, e, m)
      /\ \A m \in Nodes: Par(r, m) = IF m = n THEN last ELSE Par(t, m)
      /\ \A m \in Nodes: Cnt(r, m) = Cnt(t, m)
  BY <1>2, <1>4, <1>7
<1>10. Hung(t, r, n, last, side)
  BY <1>7, <1>8, <1>9 DEF Hung
<1>11. QED BY <1>6, <1>10

(* The new node hung from the insertion point, the tree is a search tree *)
(* of one node more. *)
LEMMA HungShaped ==
  ASSUME NEW key \in [Nodes -> Nat], NEW t, NEW M, NEW sub, Shaped(t, M, sub, key),
         NEW n \in Nodes, n \notin M, NEW last, NEW side, PointFor(t, M, sub, key, n, last, side, NULL),
         NEW r, Hung(t, r, n, last, side)
  PROVE  \E sub2: Shaped(r, M \cup {n}, sub2, key)
<1> DEFINE M2 == M \cup {n}
           sub2 == [m \in M2 |-> IF m = n THEN {n} ELSE IF last \in sub[m] THEN sub[m] \cup {n} ELSE sub[m]]
<1>1. /\ M \in SUBSET Nodes /\ NULL \notin M /\ n # NULL /\ t \in Trees
      /\ \A m \in M: m \in sub[m] /\ sub[m] \in SUBSET M
  BY SubtreeOf, SideFacts
<1>2. side \in Sides /\ ((last = NULL /\ M = {}) \/ (last \in M /\ Kid(t, side, last) = NULL))
      /\ last # n /\ (last # NULL => last \in M)
  <2>1. Top(t) = NULL => M = {}
    BY DEF Shaped, TopIs
  <2>2. side \in Sides /\ ((last = NULL /\ NULL = Top(t)) \/ (last \in M /\ NULL = Kid(t, side, last)))
    BY DEF PointFor
  <2>3. QED BY <1>1, <2>1, <2>2
<1>3. sub2[n] = {n} /\ \A m \in M: sub2[m] = IF last \in sub[m] THEN sub[m] \cup {n} ELSE sub[m]
  OBVIOUS
<1>4. sub2 \in [M2 -> SUBSET M2]
  BY <1>1
<1>5. M2 \in SUBSET Nodes /\ n \in M2 /\ M \subseteq M2 /\ \A m \in M2: m = n \/ (m \in M /\ m # n)
  BY <1>1
<1> HIDE DEF M2, sub2
<1>6. /\ \A m \in M, e \in Sides: Kid(r, e, m) = IF m = last /\ e = side THEN n ELSE Kid(t, e, m)
      /\ \A e \in Sides: Kid(r, e, n) = NULL
      /\ \A m \in M: Par(r, m) = Par(t, m)
      /\ Par(r, n) = last
      /\ Top(r) = IF last = NULL THEN n ELSE Top(t)
  BY <1>1 DEF Hung
<1>7. TypedTree(r, M2, sub2)
  BY <1>4, <1>5 DEF Hung, Shaped, TypedTree
<1>8. TopIs(r, M2, sub2)
  <2>1. CASE last = NULL
    <3>1. Top(r) = n /\ M = {}
      BY <1>1, <1>2, <1>6, <2>1
    <3>2. M2 = {n}
      BY <3>1 DEF M2
    <3>3. QED BY <1>1, <1>3, <1>6, <2>1, <3>1, <3>2 DEF TopIs
  <2>2. CASE last # NULL
    <3>1. last \in M /\ Top(t) # NULL
      BY <1>2, <2>2 DEF Shaped, TopIs
    <3>2. Top(t) \in M /\ sub[Top(t)] = M /\ Par(t, Top(t)) = NULL
      BY <3>1, SubtreeOf
    <3>3. sub2[Top(t)] = M2
      BY <1>3, <3>1, <3>2 DEF M2
    <3>4. QED BY <1>5, <1>6, <2>2, <3>1, <3>2, <3>3 DEF TopIs
  <2>3. QED BY <2>1, <2>2
<1>9. ParentsLink(r, M2)
  <2> SUFFICES ASSUME NEW m \in M2, m # Top(r)
               PROVE  Par(r, m) \in M2 /\ \E e \in Sides: Kid(r, e, Par(r, m)) = m
    BY DEF ParentsLink
  <2>1. CASE m = n
    BY <1>2, <1>5, <1>6, <2>1
  <2>2. CASE m # n
    <3>1. m \in M /\ last \in M /\ m # Top(t)
      BY <1>1, <1>2, <1>5, <1>6, <2>2
    <3>2. PICK e \in Sides: Par(t, m) \in M /\ Kid(t, e, Par(t, m)) = m
      BY <3>1 DEF Shaped, ParentsLink
    <3>3. Kid(r, e, Par(t, m)) = m
      BY <1>1, <1>2, <1>6, <3>1, <3>2
    <3>4. QED BY <1>5, <1>6, <3>1, <3>2, <3>3
  <2>3. QED BY <2>1, <2>2
<1>10. KidsLink(r, M2)
  <2> SUFFICES ASSUME NEW m \in M2, NEW e \in Sides, Kid(r, e, m) # NULL
               PROVE  Kid(r, e, m) \in M2 /\ Par(r, Kid(r, e, m)) = m
    BY DEF KidsLink
  <2>1. m \in M
    BY <1>5, <1>6
  <2>2. CASE m = last /\ e = side
    BY <1>5, <1>6, <2>1, <2>2
  <2>3. CASE ~(m = last /\ e = side)
    <3>1. PICK c: c = Kid(t, e, m) /\ c = Kid(r, e, m)
      BY <1>6, <2>1, <2>3
    <3>2. c \in M /\ Par(t, c) = m
      BY <2>1, <3>1 DEF Shaped, KidsLink
    <3>3. QED BY <1>5, <1>6, <3>1, <3>2
  <2>4. QED BY <2>2, <2>3
<1>11. \A a \in M, e \in Sides: \A b \in M2:
         b \in Below(sub2, Kid(r, e, a)) <=>
           \/ b \in Below(sub, Kid(t, e, a))
           \/ b = n /\ ((a = last /\ e = side) \/ last \in Below(sub, Kid(t, e, a)))
  <2> TAKE a \in M, e \in Sides
  <2> TAKE b \in M2
  <2>1. CASE a = last /\ e = side
    <3>1. Below(sub2, Kid(r, e, a)) = {n}
      BY <1>1, <1>3, <1>6, <2>1 DEF Below
    <3>2. Below(sub, Kid(t, e, a)) = {}
      BY <1>1, <1>2, <2>1 DEF Below
    <3>3. QED BY <2>1, <3>1, <3>2
  <2>2. CASE ~(a = last /\ e = side)
    <3>1. PICK c: c = Kid(t, e, a) /\ c = Kid(r, e, a) /\ (c = NULL \/ c \in M)
      BY <1>6, <2>2 DEF Shaped, KidsLink
    <3>2. CASE c = NULL
      BY <2>2, <3>1, <3>2 DEF Below
    <3>3. CASE c # NULL
      <4>1. Below(sub2, c) = sub2[c] /\ Below(sub, c) = sub[c] /\ c \in M
        BY <3>1, <3>3 DEF Below
      <4>2. sub2[c] = IF last \in sub[c] THEN sub[c] \cup {n} ELSE sub[c]
        BY <1>3, <4>1
      <4>3. QED BY <2>2, <3>1, <4>1, <4>2
    <3>4. QED BY <3>2, <3>3
  <2>3. QED BY <2>1, <2>2
<1>12. \A e \in Sides: Below(sub2, Kid(r, e, n)) = {}
  BY <1>6 DEF Below
<1>13. Subtrees(r, M2, sub2)
  <2> SUFFICES ASSUME NEW a \in M2, NEW b \in M2
               PROVE  b \in sub2[a] <=> (b = a \/ \E e \in Sides: b \in Below(sub2, Kid(r, e, a)))
    BY DEF Subtrees
  <2>1. CASE a = n
    BY <1>3, <1>12, <2>1
  <2>2. CASE a # n /\ b = n
    <3>1. a \in M
      BY <1>5, <2>2
    <3>2. n \in sub2[a] <=> last \in sub[a]
      BY <1>1, <1>3, <3>1
    <3>3. last \in sub[a] <=> last = a \/ \E e \in Sides: last \in Below(sub, Kid(t, e, a))
      <4>1. CASE last \in M
        BY <3>1, <4>1 DEF Shaped, Subtrees
      <4>2. CASE last \notin M
        BY <1>2, <3>1, <4>2
      <4>3. QED BY <4>1, <4>2
    <3>4. \A e \in Sides: n \notin Below(sub, Kid(t, e, a))
      BY <1>1, <3>1 DEF Shaped, KidsLink, Below
    <3>5. \A e \in Sides: n \in Below(sub2, Kid(r, e, a)) <=>
                            (a = last /\ e = side) \/ last \in Below(sub, Kid(t, e, a))
      BY <1>5, <1>11, <3>1, <3>4
    <3>6. QED BY <1>2, <2>2, <3>2, <3>3, <3>5
  <2>3. CASE a # n /\ b # n
    <3>1. a \in M /\ b \in M
      BY <1>5, <2>3
    <3>2. b \in sub2[a] <=> b \in sub[a]
      BY <1>3, <2>3, <3>1
    <3>3. b \in sub[a] <=> b = a \/ \E e \in Sides: b \in Below(sub, Kid(t, e, a))
      BY <3>1 DEF Shaped, Subtrees
    <3>4. \A e \in Sides: b \in Below(sub2, Kid(r, e, a)) <=> b \in Below(sub, Kid(t, e, a))
      BY <1>11, <2>3, <3>1
    <3>5. QED BY <3>2, <3>3, <3>4
  <2>4. QED BY <2>1, <2>2, <2>3
<1>14. InOrder(r, M2, sub2, key)
  <2> SUFFICES ASSUME NEW a \in M2, NEW e \in Sides, NEW b \in Below(sub2, Kid(r, e, a))
               PROVE  OnSide(key, e, b, a)
    BY DEF InOrder
  <2>1. a \in M
    BY <1>5, <1>12
  <2>2. b \in M2
    <3>1. Kid(r, e, a) # NULL => Kid(r, e, a) \in M2
      BY <1>10 DEF KidsLink
    <3>2. QED BY <1>4, <3>1 DEF Below
  <2>3. CASE b \in Below(sub, Kid(t, e, a))
    BY <2>1, <2>3 DEF Shaped, InOrder
  <2>4. CASE b = n /\ ((a = last /\ e = side) \/ last \in Below(sub, Kid(t, e, a)))
    <3>1. last \in M
      BY <1>2, <2>1
    <3>2. OnSide(key, side, n, last) /\ \A m \in M, d \in Sides: last \in Below(sub, Kid(t, d, m)) => OnSide(key, d, n, m)
      BY <1>1, <3>1 DEF PointFor
    <3>3. QED BY <2>1, <2>4, <3>2
  <2>5. QED BY <1>11, <2>1, <2>2, <2>3, <2>4
<1>15. Shaped(r, M2, sub2, key)
  BY <1>7, <1>8, <1>9, <1>10, <1>13, <1>14 DEF Shaped
<1>16. QED BY <1>15 DEF M2

(* It is red, and so may have a red parent; nothing else is wrong. *)
LEMMA HungHalfway ==
  ASSUME NEW key \in [Nodes -> Nat], NEW t, NEW M, NEW sub, NEW h, Sound(t, M, sub, h, key),
         NEW n \in Nodes, n \notin M, NEW last, NEW side, PointFor(t, M, sub, key, n, last, side, NULL),
         NEW r, Hung(t, r, n, last, side)
  PROVE  Halfway(r, M \cup {n}, key, n) /\ r \in Trees
<1> DEFINE M2 == M \cup {n}
           h2 == [m \in M2 |-> IF m = n THEN 0 ELSE h[m]]
<1>1. Shaped(t, M, sub, key) /\ Heights(t, M, h, NULL, "left") /\ RedPairs(t, M, NULL, NULL) /\ ~IsRed(t, Top(t))
  BY DEF Sound
<1>2. M \in SUBSET Nodes /\ NULL \notin M /\ n # NULL /\ t \in Trees
  BY <1>1, SubtreeOf, SideFacts
<1>3. side \in Sides /\ ((last = NULL /\ M = {}) \/ (last \in M /\ Kid(t, side, last) = NULL))
      /\ last # n /\ (last # NULL => last \in M)
  <2>1. Top(t) = NULL => M = {}
    BY <1>1 DEF Shaped, TopIs
  <2>2. side \in Sides /\ ((last = NULL /\ NULL = Top(t)) \/ (last \in M /\ NULL = Kid(t, side, last)))
    BY DEF PointFor
  <2>3. QED BY <1>2, <2>1, <2>2
<1>4. PICK sub2: Shaped(r, M2, sub2, key)
  BY <1>1, HungShaped
<1>5. /\ h \in [M -> Nat]
      /\ \A m \in M, e \in Sides: h[m] = Ht(h, Kid(t, e, m)) + Wt(t, m) /\ h[m] \in Nat
                                  /\ Ht(h, Kid(t, e, m)) \in Nat
  BY <1>1, HeightsAre
<1>6. h2 \in [M2 -> Nat] /\ h2[n] = 0 /\ \A m \in M: h2[m] = h[m]
  BY <1>5
<1>7. n \in M2 /\ \A m \in M2: m = n \/ (m \in M /\ m # n)
  OBVIOUS
<1> HIDE DEF M2, h2
<1>8. /\ \A m \in M, e \in Sides: Kid(r, e, m) = IF m = last /\ e = side THEN n ELSE Kid(t, e, m)
      /\ \A e \in Sides: Kid(r, e, n) = NULL
      /\ \A m \in M: Red(r, m) <=> Red(t, m)
      /\ Red(r, n) /\ Top(r) = IF last = NULL THEN n ELSE Top(t)
  BY <1>2 DEF Hung
<1>9. \A m \in M, e \in Sides: Kid(t, e, m) = NULL \/ Kid(t, e, m) \in M
  BY <1>1 DEF Shaped, KidsLink
<1>10. Heights(r, M2, h2, NULL, "left")
  <2>0. \A m \in M2, e \in Sides: Short(m, e, NULL, "left") = 0
    BY <1>2, <1>7 DEF Short
  <2> SUFFICES ASSUME NEW m \in M2, NEW e \in Sides
               PROVE  h2[m] = Ht(h2, Kid(r, e, m)) + Wt(r, m) + Short(m, e, NULL, "left")
    BY <1>6 DEF Heights
  <2>1. CASE m = n
    <3>1. Ht(h2, Kid(r, e, m)) = 0 /\ Wt(r, m) = 0
      BY <1>8, <2>1 DEF Ht, Wt
    <3>2. QED BY <1>6, <2>0, <2>1, <3>1
  <2>2. CASE m # n
    <3>1. m \in M
      BY <1>7, <2>2
    <3>2. Ht(h2, Kid(r, e, m)) = Ht(h, Kid(t, e, m))
      <4>1. CASE m = last /\ e = side
        BY <1>2, <1>3, <1>6, <1>8, <3>1, <4>1 DEF Ht
      <4>2. CASE ~(m = last /\ e = side)
        BY <1>6, <1>8, <1>9, <3>1, <4>2 DEF Ht
      <4>3. QED BY <4>1, <4>2
    <3>3. Wt(r, m) = Wt(t, m) /\ Wt(t, m) \in Nat
      BY <1>8, <3>1 DEF Wt
    <3>4. h[m] = Ht(h, Kid(t, e, m)) + Wt(t, m) /\ Ht(h, Kid(t, e, m)) \in Nat /\ h2[m] = h[m]
      BY <1>5, <1>6, <3>1
    <3>5. QED BY <2>0, <3>2, <3>3, <3>4
  <2>3. QED BY <2>1, <2>2
<1>11. RedPairs(r, M2, NULL, n)
  <2> SUFFICES ASSUME NEW m \in M2, NEW e \in Sides, Red(r, m), IsRed(r, Kid(r, e, m)), Kid(r, e, m) # n
               PROVE  FALSE
    BY DEF RedPairs
  <2>1. m \in M
    BY <1>7, <1>8, IsRedIs
  <2>2. Kid(r, e, m) = Kid(t, e, m) /\ Kid(t, e, m) \in M
    BY <1>8, <1>9, <2>1, IsRedIs
  <2>3. IsRed(t, Kid(t, e, m)) /\ Red(t, m)
    BY <1>8, <2>1, <2>2, IsRedIs
  <2>4. QED BY <1>1, <1>2, <2>1, <2>2, <2>3 DEF RedPairs
<1>12. TopBlack(r, n)
  <2> SUFFICES ASSUME IsRed(r, Top(r)), Top(r) # n PROVE FALSE
    BY DEF TopBlack
  <2>1. Top(r) = Top(t) /\ Top(t) # NULL /\ Red(r, Top(t))
    BY <1>8, IsRedIs
  <2>2. Top(t) \in M
    BY <1>1, <2>1, SubtreeOf
  <2>3. QED BY <1>1, <1>8, <2>1, <2>2, IsRedIs
<1>13. Inserting(r, M2, sub2, h2, key, n)
  BY <1>4, <1>7, <1>8, <1>10, <1>11, <1>12 DEF Inserting
<1>14. r \in Trees
  BY DEF Hung
<1>15. QED BY <1>13, <1>14 DEF Halfway, M2

LastOf(st) == st.last
SideAt(st) == st.side
PointStates(t, M, sub, key, n) ==
  {st \in [at: Nodes \cup {NULL}, last: Nodes \cup {NULL}, side: Sides]:
     PointFor(t, M, sub, key, n, st.last, st.side, st.at)}
Descended(t, key, n, st) ==
  IF At(st) = NULL THEN st
  ELSE LET s == IF Before(key, n, At(st)) THEN "left" ELSE "right"
       IN  [at |-> Kid(t, s, At(st)), last |-> At(st), side |-> s]

(* A step of the descent keeps the new node between what is left and *)
(* right of it. *)
LEMMA PointBelow ==
  ASSUME NEW key \in [Nodes -> Nat], NEW t, NEW M, NEW sub, Shaped(t, M, sub, key),
         NEW n \in Nodes, n \notin M, NEW last, NEW side, NEW at, at # NULL,
         PointFor(t, M, sub, key, n, last, side, at),
         NEW s, s = IF Before(key, n, at) THEN "left" ELSE "right"
  PROVE  PointFor(t, M, sub, key, n, at, s, Kid(t, s, at)) /\ at \in M
<1>1. /\ M \in SUBSET Nodes /\ NULL \notin M /\ t \in Trees
      /\ Top(t) # NULL => Top(t) \in M /\ Par(t, Top(t)) = NULL
  BY SubtreeOf
<1>2. /\ side \in Sides
      /\ \/ last = NULL /\ at = Top(t)
         \/ last \in M /\ at = Kid(t, side, last)
  BY DEF PointFor
<1>3. at \in M /\ at \in Nodes
  BY <1>1, <1>2 DEF Shaped, KidsLink
<1>4. s \in Sides /\ OnSide(key, s, n, at)
  <2>1. CASE Before(key, n, at)
    BY <2>1 DEF OnSide, Sides
  <2>2. CASE ~Before(key, n, at)
    <3>1. s = "right" /\ s \in Sides
      BY <2>2 DEF Sides
    <3>2. "left" \in Sides /\ n # at
      BY <1>3 DEF Sides
    <3>3. OnSide(key, "left", n, at) \/ OnSide(key, "left", at, n)
      BY <1>3, <3>2, OrderFacts
    <3>4. Before(key, at, n)
      BY <2>2, <3>3 DEF OnSide
    <3>5. QED BY <3>1, <3>4 DEF OnSide
  <2>3. QED BY <2>1, <2>2
<1>5. ASSUME NEW m \in M, NEW e \in Sides, at \in Below(sub, Kid(t, e, m)) PROVE OnSide(key, e, n, m)
  <2>1. PICK c: c = Kid(t, e, m) /\ c # NULL /\ c \in M /\ at \in sub[c] /\ Par(t, c) = m /\ c # Top(t)
    BY <1>1, <1>5, KidFacts DEF Below
  <2>2. CASE at = c
    <3>1. last \in M /\ at = Kid(t, side, last) /\ OnSide(key, side, n, last)
      BY <1>2, <2>1, <2>2 DEF PointFor
    <3>2. m = last /\ e = side
      <4>1. c # Top(t) /\ Kid(t, e, m) = c /\ Kid(t, side, last) = c
        BY <2>1, <2>2, <3>1
      <4>2. \A b \in M, d \in Sides: Kid(t, d, b) = c <=> b = Par(t, c) /\ d = SideOf(t, c)
        BY <2>1, SideIs
      <4>3. QED BY <1>2, <3>1, <4>1, <4>2
    <3>3. QED BY <3>1, <3>2
  <2>3. CASE at # c
    <3>1. Par(t, at) \in sub[c] /\ Par(t, at) \in M
      BY <2>1, <2>3, ParentBelow, SubtreeOf
    <3>2. last \in M /\ at = Kid(t, side, last)
      BY <1>1, <1>2, <3>1
    <3>3. Par(t, at) = last
      BY <1>2, <1>3, <1>1, <3>2 DEF Shaped, KidsLink
    <3>4. last \in Below(sub, Kid(t, e, m))
      BY <2>1, <3>1, <3>3 DEF Below
    <3>5. QED BY <1>1, <3>2, <3>4 DEF PointFor
  <2>4. QED BY <2>2, <2>3
<1>6. QED BY <1>3, <1>4, <1>5 DEF PointFor

(* The descent goes from child to child. *)
LEMMA DescendedIs ==
  ASSUME NEW key \in [Nodes -> Nat], NEW t, NEW M, NEW sub, Shaped(t, M, sub, key),
         NEW n \in Nodes, n \notin M, NEW st \in PointStates(t, M, sub, key, n),
         NEW r, r = Descended(t, key, n, st)
  PROVE  /\ r \in PointStates(t, M, sub, key, n)
         /\ At(st) = NULL => r = st
         /\ At(st) # NULL => At(st) \in M /\ (At(r) = NULL \/ (At(r) \in M /\ \E s \in Sides: At(r) = Kid(t, s, At(st))))
<1>1. CASE At(st) = NULL
  BY <1>1 DEF Descended
<1>2. CASE At(st) # NULL
  <2>1. PICK at, last, side: at = At(st) /\ last = LastOf(st) /\ side = SideAt(st)
    OBVIOUS
  <2>2. PointFor(t, M, sub, key, n, last, side, at)
    BY <2>1 DEF PointStates, At, LastOf, SideAt
  <2>3. PICK s: s = IF Before(key, n, at) THEN "left" ELSE "right"
    OBVIOUS
  <2>4. PointFor(t, M, sub, key, n, at, s, Kid(t, s, at)) /\ at \in M
    BY <1>2, <2>1, <2>2, <2>3, PointBelow
  <2>5. r = [at |-> Kid(t, s, at), last |-> at, side |-> s]
    BY <1>2, <2>1, <2>3 DEF Descended
  <2>6. s \in Sides
    BY <2>3 DEF Sides
  <2>7. M \in SUBSET Nodes /\ (Kid(t, s, at) = NULL \/ Kid(t, s, at) \in M)
    BY <2>4, <2>6, SubtreeOf DEF Shaped, KidsLink
  <2>8. r \in [at: Nodes \cup {NULL}, last: Nodes \cup {NULL}, side: Sides]
    BY <2>4, <2>5, <2>6, <2>7
  <2>9. r.at = Kid(t, s, at) /\ r.last = at /\ r.side = s
    BY <2>5
  <2>10. r \in PointStates(t, M, sub, key, n)
    BY <2>4, <2>8, <2>9 DEF PointStates
  <2>11. At(r) = Kid(t, s, at)
    BY <2>9 DEF At
  <2>12. QED BY <1>2, <2>1, <2>4, <2>6, <2>7, <2>10, <2>11
<1>3. QED BY <1>1, <1>2

PointRun(t, key, n, P, g) ==
  /\ g \in [0..Cardinality(Nodes) -> P]
  /\ g[0] = [at |-> Top(t), last |-> NULL, side |-> "right"]
  /\ \A i \in 1..Cardinality(Nodes): g[i] = Descended(t, key, n, g[i - 1])
  /\ InsertPoint(t, key, n) = g[Cardinality(Nodes)]

(* The loop of the descent runs through points for the new node. *)
LEMMA PointRuns ==
  ASSUME NEW t, NEW key, NEW n, NEW P, [at |-> Top(t), last |-> NULL, side |-> "right"] \in P,
         \A st \in P: Descended(t, key, n, st) \in P
  PROVE  \E g: PointRun(t, key, n, P, g)
<1>0. PICK x0 \in P: x0 = [at |-> t.top, last |-> NULL, side |-> "right"]
  BY DEF Top
<1> DEFINE N == Cardinality(Nodes)
           Step(z) == IF z.at = NULL THEN z
                      ELSE LET s == IF Before(key, n, z.at) THEN "left" ELSE "right"
                           IN  [at |-> t.child[s][z.at], last |-> z.at, side |-> s]
           F == [z \in P |-> Step(z)]
           R(f) == [i \in 0..N |-> IF i = 0 THEN {[at |-> t.top, last |-> NULL, side |-> "right"]} ELSE {Step(z): z \in f[i - 1]}]
<1>1. N \in Nat
  BY NodesCount
<1>2. F \in [P -> P] /\ \A z \in P: F[z] = Step(z)
  BY DEF Descended, At, Kid
<1>3. InsertPoint(t, key, n) = CHOOSE z \in (CHOOSE r: r = R(r))[N]: TRUE
  BY <1>0 DEF InsertPoint, Loop
<1> HIDE DEF N, F, Step
<1>4. PICK g: IsRun(g, P, F, x0, N)
  BY <1>1, <1>2, RunExists
<1>5. /\ g \in [0..N -> P] /\ g[0] = x0
      /\ \A i \in 1..N: g[i] = Step(g[i - 1])
  <2>1. \A i \in 1..N: i - 1 \in 0..N
    BY <1>1
  <2>2. QED BY <1>2, <1>4, <2>1 DEF IsRun
<1>6. \A y: {Step(z): z \in {y}} = {Step(y)}
  OBVIOUS
<1> DEFINE h == [i \in 0..N |-> {g[i]}]
<1>7. h = R(h)
  <2>1. \A i \in 1..N: h[i - 1] = {g[i - 1]} /\ h[i] = {g[i]}
    BY <1>1
  <2>2. h[0] = {x0}
    BY <1>1, <1>5
  <2>3. h = [i \in 0..N |-> h[i]]
    OBVIOUS
  <2> HIDE DEF h
  <2>4. \A i \in 1..N: h[i] = {Step(z): z \in h[i - 1]}
    <3> TAKE i \in 1..N
    <3>1. h[i] = {Step(g[i - 1])} /\ h[i - 1] = {g[i - 1]}
      BY <1>5, <2>1
    <3>2. QED BY <1>6, <3>1
  <2>5. \A i \in 0..N: i = 0 \/ (i \in 1..N /\ i # 0)
    BY <1>1
  <2>6. \A i \in 0..N: h[i] = IF i = 0 THEN {x0} ELSE {Step(z): z \in h[i - 1]}
    BY <2>2, <2>4, <2>5
  <2>7. QED BY <1>0, <2>3, <2>6
<1>8. \A r: r = R(r) => /\ r[0] = {x0}
                        /\ \A i \in 1..N: r[i] = {Step(z): z \in r[i - 1]}
  <2> SUFFICES ASSUME NEW r, r = R(r)
               PROVE  r[0] = {x0} /\ \A i \in 1..N: r[i] = {Step(z): z \in r[i - 1]}
    OBVIOUS
  <2>1. r = [i \in 0..N |-> IF i = 0 THEN {x0} ELSE {Step(z): z \in r[i - 1]}]
    BY <1>0
  <2> HIDE DEF R
  <2>2. QED BY ONLY <1>1, <2>1
<1> HIDE DEF R
<1>9. PICK f: f = (CHOOSE r: r = R(r)) /\ f = R(f)
  <2>1. QED BY <1>7
<1>10. Follows(f, g, N)
  <2>1. f[0] = {g[0]}
    BY <1>5, <1>8, <1>9
  <2>2. ASSUME NEW i \in 1..N, f[i - 1] = {g[i - 1]} PROVE f[i] = {g[i]}
    <3>1. f[i] = {Step(z): z \in f[i - 1]}
      BY <1>8, <1>9
    <3>2. f[i] = {Step(g[i - 1])}
      BY <1>6, <2>2, <3>1
    <3>3. QED BY <1>5, <3>2
  <2>3. QED BY <2>1, <2>2 DEF Follows
<1>11. InsertPoint(t, key, n) = g[N]
  <2>1. f[N] = {g[N]}
    BY <1>1, <1>10, OneRun
  <2>2. (CHOOSE z \in {g[N]}: TRUE) = g[N]
    OBVIOUS
  <2>3. QED BY <1>3, <1>9, <2>1, <2>2
<1>12. PointRun(t, key, n, P, g)
  BY <1>0, <1>5, <1>11 DEF N, PointRun, Step, Descended, At, Kid, Top
<1>13. QED BY <1>12

(* The descent ends where no node is. *)
LEMMA InsertPointIs ==
  ASSUME NEW key \in [Nodes -> Nat], NEW t, NEW M, NEW sub, Shaped(t, M, sub, key),
         NEW n \in Nodes, n \notin M, NEW r, r = InsertPoint(t, key, n)
  PROVE  r \in PointStates(t, M, sub, key, n) /\ At(r) = NULL
<1> DEFINE N == Cardinality(Nodes)
           S == PointStates(t, M, sub, key, n)
           T == {st \in S: At(st) = NULL}
           left == [st \in S |-> IF At(st) = NULL THEN 0 ELSE Cardinality(sub[At(st)])]
           start == [at |-> Top(t), last |-> NULL, side |-> "right"]
<1>1. start \in S
  <2>1. t \in Trees /\ Top(t) \in Nodes \cup {NULL} /\ "right" \in Sides
    BY SubtreeOf, TreeFields DEF Sides
  <2>2. PointFor(t, M, sub, key, n, NULL, "right", Top(t))
    BY <2>1 DEF PointFor
  <2>3. start.at = Top(t) /\ start.last = NULL /\ start.side = "right"
    OBVIOUS
  <2>4. start \in [at: Nodes \cup {NULL}, last: Nodes \cup {NULL}, side: Sides]
    BY <2>1
  <2> HIDE DEF start
  <2>5. QED BY <2>2, <2>3, <2>4 DEF PointStates
<1>2. \A st \in S: /\ Descended(t, key, n, st) \in S
                   /\ At(st) = NULL => Descended(t, key, n, st) = st
                   /\ At(st) # NULL => /\ At(st) \in M
                                       /\ LET a == At(Descended(t, key, n, st))
                                          IN  a = NULL \/ (a \in M /\ \E s \in Sides: a = Kid(t, s, At(st)))
  BY DescendedIs
<1>3. PICK g: PointRun(t, key, n, S, g)
  BY <1>1, <1>2, PointRuns
<1>4. /\ g \in [0..N -> S] /\ r = g[N]
      /\ \A i \in 1..N: g[i] = Descended(t, key, n, g[i - 1])
  BY <1>3 DEF PointRun
<1>5. N \in Nat /\ (\A m \in M: Cardinality(sub[m]) \in 1..N)
      /\ \A m \in M, s \in Sides: Kid(t, s, m) # NULL => Cardinality(sub[Kid(t, s, m)]) < Cardinality(sub[m])
  <2>1. /\ N \in Nat /\ Cardinality(M) \in 0..N
        /\ \A m \in M: Cardinality(sub[m]) \in 1..Cardinality(M)
        /\ \A m \in M, s \in Sides: Kid(t, s, m) # NULL => Cardinality(sub[Kid(t, s, m)]) < Cardinality(sub[m])
    BY SizeFacts
  <2> HIDE DEF N
  <2>2. QED BY <2>1
<1>6. NULL \notin M
  BY SubtreeOf
<1>7. /\ left \in [S -> Nat]
      /\ \A st \in S: left[st] \in 0..N /\ left[st] = IF At(st) = NULL THEN 0 ELSE Cardinality(sub[At(st)])
  <2>1. \A st \in S: At(st) = NULL \/ At(st) \in M
    BY <1>2
  <2> HIDE DEF N, S
  <2>2. QED BY <1>5, <2>1
<1>8. T \in SUBSET S /\ \A st \in S: st \in T <=> At(st) = NULL
  OBVIOUS
<1> HIDE DEF N, S, T, left, start
<1>9. \A i \in 0..N: g[i] \in S
  BY <1>4
<1>10. \A i \in 1..N: g[i - 1] \in S /\ g[i] \in S /\ g[i] = Descended(t, key, n, g[i - 1])
  BY <1>4, <1>5, <1>9
<1>11. left[g[0]] <= N
  BY <1>5, <1>7, <1>9
<1>12. \A i \in 1..N: (g[i - 1] \in T => g[i] \in T)
  BY <1>2, <1>8, <1>10
<1>13. \A i \in 1..N: (g[i - 1] \notin T => g[i] \in T \/ left[g[i]] < left[g[i - 1]])
  BY <1>2, <1>5, <1>6, <1>7, <1>8, <1>10
<1>14. \A st \in S: (left[st] = 0 => st \in T)
  BY <1>2, <1>5, <1>7, <1>8
<1>15. left \in [S -> Nat] /\ T \in SUBSET S
  BY <1>7, <1>8
<1>16. g[N] \in T
  <2>1. N \in Nat
    BY <1>5
  <2>2. CountsDown(N, g, S, T, left)
    BY ONLY <1>9, <1>11, <1>12, <1>13, <1>14, <1>15, <2>1 DEF CountsDown
  <2>3. QED BY ONLY <2>2, RunArrives
<1>17. QED BY <1>4, <1>16 DEF S, T

(* DSK_RBTREE_INSERT: into a red-black tree of M goes a node that is not *)
(* in it, and a red-black tree of M and the node comes out. *)
LEMMA RbInsertIs ==
  ASSUME NEW key \in [Nodes -> Nat], NEW t, NEW M, GoodTree(t, M, key), NEW n \in Nodes, n \notin M
  PROVE  GoodTree(RbInsert(t, key, n), M \cup {n}, key)
<1>1. PICK sub, h: Sound(t, M, sub, h, key)
  BY DEF GoodTree
<1>2. Shaped(t, M, sub, key)
  BY <1>1 DEF Sound
<1>3. PICK pt: pt = InsertPoint(t, key, n)
  OBVIOUS
<1>4. pt \in PointStates(t, M, sub, key, n) /\ At(pt) = NULL
  BY <1>2, <1>3, InsertPointIs
<1>5. PICK last, side: last = pt.last /\ side = pt.side
  OBVIOUS
<1>6. PointFor(t, M, sub, key, n, last, side, NULL) /\ last \in Nodes \cup {NULL} /\ side \in Sides
  BY <1>4, <1>5 DEF PointStates, At
<1>7. last # n /\ t \in Trees
  <2>1. last = NULL \/ last \in M
    BY <1>6 DEF PointFor
  <2>2. QED BY <1>2, <2>1, SideFacts, SubtreeOf
<1>8. PICK r: r = Hang(t, n, pt) /\ Hung(t, r, n, last, side)
  BY <1>5, <1>6, <1>7, HangIs
<1>9. Halfway(r, M \cup {n}, key, n) /\ r \in Trees
  BY <1>1, <1>6, <1>8, HungHalfway
<1>10. GoodTree(Restored(r, n), M \cup {n}, key)
  BY <1>9, RestoredIs
<1>11. QED BY <1>3, <1>8, <1>10 DEF RbInsert

-----------------------------------------------------------------------------
(* The fixup of DSK_RBTREE_REMOVE. *)

(* Halfway through a removal: below x, which is on side s of par, one *)
(* black node is missing; x is black, and w is its sibling. *)
Lacking(t, M, sub, h, key, x, par, s, w) ==
  /\ Shaped(t, M, sub, key) /\ Heights(t, M, h, par, s)
  /\ RedPairs(t, M, NULL, NULL) /\ ~IsRed(t, Top(t))
  /\ s \in Sides /\ par \in M /\ Kid(t, s, par) = x /\ ~IsRed(t, x)
  /\ w = Kid(t, Mirror(s), par)

(* The black heights of a tree that may lack a black node somewhere. *)
LEMMA ShortHeights ==
  ASSUME NEW key \in [Nodes -> Nat], NEW t, NEW M, NEW sub, Shaped(t, M, sub, key),
         NEW h, NEW p, NEW d, Heights(t, M, h, p, d)
  PROVE  /\ h \in [M -> Nat]
         /\ \A n \in M, e \in Sides: /\ h[n] = Ht(h, Kid(t, e, n)) + Wt(t, n) + Short(n, e, p, d)
                                     /\ h[n] \in Nat /\ Ht(h, Kid(t, e, n)) \in Nat
                                     /\ Wt(t, n) \in 0..1 /\ Short(n, e, p, d) \in 0..1
         /\ \A n \in M: Ht(h, n) = h[n]
<1>1. h \in [M -> Nat]
  BY DEF Heights
<1>2. /\ \A n \in M: h[n] \in Nat /\ Ht(h, n) = h[n]
      /\ \A n \in M, s \in Sides: Ht(h, Kid(t, s, n)) \in Nat
      /\ \A n \in M: Wt(t, n) \in 0..1
      /\ \A n, s: Short(n, s, p, d) \in 0..1
  BY <1>1, HeightNumbers
<1>3. \A n \in M, e \in Sides: h[n] = Ht(h, Kid(t, e, n)) + Wt(t, n) + Short(n, e, p, d)
  BY DEF Heights
<1>4. QED BY <1>1, <1>2, <1>3

(* A node short of a black one has a sibling, and that is not a leaf's *)
(* sentinel. *)
LEMMA SiblingIs ==
  ASSUME NEW key \in [Nodes -> Nat], NEW t, NEW M, NEW sub, NEW h, NEW x, NEW par, NEW s, NEW w,
         Lacking(t, M, sub, h, key, x, par, s, w)
  PROVE  /\ w \in M /\ h[w] = Ht(h, x) + 1 /\ h[par] = h[w] + Wt(t, par) /\ h[w] \in Nat /\ Ht(h, x) \in Nat
         /\ par # NULL /\ w # NULL /\ w # par /\ w # Top(t) /\ Par(t, w) = par
         /\ \A n \in M, e \in Sides: Kid(t, e, n) = w => n = par /\ e = Mirror(s)
         /\ \A e \in Sides: Kid(t, e, w) # w /\ Kid(t, e, w) # par
         /\ x # w
<1>1. /\ Shaped(t, M, sub, key) /\ Heights(t, M, h, par, s)
      /\ s \in Sides /\ par \in M /\ Kid(t, s, par) = x /\ w = Kid(t, Mirror(s), par)
  BY DEF Lacking
<1>2. PICK o \in Sides: o = Mirror(s) /\ o # s
  BY <1>1, SideFacts
<1>3. /\ h[par] = Ht(h, x) + Wt(t, par) + Short(par, s, par, s) /\ h[par] \in Nat
      /\ h[par] = Ht(h, w) + Wt(t, par) + Short(par, o, par, s) /\ Ht(h, x) \in Nat /\ Ht(h, w) \in Nat
      /\ Wt(t, par) \in 0..1
  BY <1>1, <1>2, ShortHeights
<1>4. Short(par, s, par, s) = 1 /\ Short(par, o, par, s) = 0
  BY <1>2 DEF Short
<1>5. h[par] = Ht(h, w) + Wt(t, par) /\ Ht(h, w) = Ht(h, x) + 1
  BY ONLY <1>3, <1>4
<1>6. w # NULL
  BY <1>3, <1>5 DEF Ht
<1>7. w \in M /\ Par(t, w) = par /\ w # Top(t) /\ w # par /\ w \in sub[w] /\ par \notin sub[w]
  BY <1>1, <1>2, <1>6, KidFacts
<1>8. Ht(h, w) = h[w]
  BY <1>6 DEF Ht
<1>9. \A n \in M, e \in Sides: Kid(t, e, n) = w => n = par /\ e = o
  <2>1. \A n \in M, e \in Sides: Kid(t, e, n) = w <=> n = Par(t, w) /\ e = SideOf(t, w)
    BY <1>1, <1>7, SideIs
  <2>2. QED BY <1>1, <1>2, <1>7, <2>1
<1>10. NULL \notin M
  BY <1>1, SubtreeOf
<1>11. \A e \in Sides: Kid(t, e, w) # w /\ Kid(t, e, w) # par
  <2> SUFFICES ASSUME NEW e \in Sides PROVE Kid(t, e, w) # w /\ Kid(t, e, w) # par
    OBVIOUS
  <2>1. PICK k: k = Kid(t, e, w)
    OBVIOUS
  <2>2. k # NULL => k \in sub[w] /\ k # w
    BY <1>1, <1>7, <2>1, KidFacts
  <2>3. QED BY <1>1, <1>7, <1>10, <2>1, <2>2
<1>12. x # w
  BY <1>1, <1>2, <1>9
<1>13. QED BY <1>1, <1>2, <1>3, <1>5, <1>6, <1>7, <1>8, <1>9, <1>10, <1>11, <1>12

(* A red sibling turned over the parent leaves a black one. *)
LEMMA RedSiblingTurned ==
  ASSUME NEW key \in [Nodes -> Nat], NEW t, NEW M, NEW sub, NEW h, NEW x, NEW par, NEW s, NEW w,
         Lacking(t, M, sub, h, key, x, par, s, w), Red(t, w),
         NEW u, RaiseColours(t, u, M, w, par),
         NEW r, Turned(u, r, M, par, w, s)
  PROVE  \E sub2, h2, w2: Lacking(r, M, sub2, h2, key, x, par, s, w2) /\ ~Red(r, w2) /\ Red(r, par)
<1>a. /\ Shaped(t, M, sub, key) /\ Heights(t, M, h, par, s)
      /\ RedPairs(t, M, NULL, NULL) /\ ~IsRed(t, Top(t))
      /\ s \in Sides /\ par \in M /\ Kid(t, s, par) = x /\ ~IsRed(t, x)
      /\ w = Kid(t, Mirror(s), par)
  BY DEF Lacking
<1>b. /\ w \in M /\ h[w] = Ht(h, x) + 1 /\ h[par] = h[w] + Wt(t, par) /\ h[w] \in Nat /\ Ht(h, x) \in Nat
      /\ par # NULL /\ w # NULL /\ w # par /\ w # Top(t) /\ Par(t, w) = par
      /\ \A n \in M, e \in Sides: Kid(t, e, n) = w => n = par /\ e = Mirror(s)
      /\ \A e \in Sides: Kid(t, e, w) # w /\ Kid(t, e, w) # par
      /\ x # w
  BY SiblingIs
<1>1. PICK o \in Sides: o = Mirror(s) /\ o # s /\ (\A e \in Sides: e = s \/ e = o)
  BY <1>a, SideFacts
<1>2. NULL \notin M /\ M \in SUBSET Nodes
  BY <1>a, SubtreeOf
<1>3. /\ Shaped(u, M, sub, key) /\ Top(u) = Top(t)
      /\ \A n \in M, e \in Sides: Kid(u, e, n) = Kid(t, e, n)
      /\ \A n \in M: Par(u, n) = Par(t, n)
  <2>1. SameLinks(t, u)
    BY DEF RaiseColours
  <2>2. QED BY <1>a, <1>2, <2>1, SameLinksShaped DEF SameLinks
<1>4. \A m \in M: Red(u, m) <=> m = par \/ (m # w /\ Red(t, m))
  BY DEF RaiseColours
<1>5. w = Kid(u, Mirror(s), par)
  BY <1>a, <1>1, <1>3
<1>6. PICK sub2: Shaped(r, M, sub2, key)
  BY <1>a, <1>b, <1>3, <1>5, TurnedShaped
<1>7. ~Red(t, par)
  BY <1>a, <1>b, <1>1, <1>2, IsRedIs DEF RedPairs
<1>8. \A n \in M, e \in Sides: Kid(t, e, n) # NULL => Kid(t, e, n) \in M
  BY <1>a DEF Shaped, KidsLink
<1>9. /\ h \in [M -> Nat]
      /\ \A n \in M, e \in Sides: /\ h[n] = Ht(h, Kid(t, e, n)) + Wt(t, n) + Short(n, e, par, s)
                                  /\ h[n] \in Nat /\ Ht(h, Kid(t, e, n)) \in Nat
  BY <1>a, ShortHeights
<1>10. Wt(t, par) = 1 /\ Wt(t, w) = 0 /\ h[par] = h[w] + 1
  <2>1. Wt(t, par) = 1 /\ Wt(t, w) = 0
    BY <1>7 DEF Wt
  <2>2. QED BY <1>b, <2>1
<1>11. \A e \in Sides: Ht(h, Kid(t, e, w)) = h[w] /\ Kid(t, e, w) \in M /\ ~Red(t, Kid(t, e, w))
  <2> TAKE e \in Sides
  <2>1. PICK k: k = Kid(t, e, w)
    OBVIOUS
  <2>2. Short(w, e, par, s) = 0
    BY <1>b DEF Short
  <2>3. Ht(h, k) = h[w]
    <3>1. h[w] = Ht(h, k) + Wt(t, w) + Short(w, e, par, s) /\ Ht(h, k) \in Nat
      BY <1>b, <1>9, <2>1
    <3>2. QED BY ONLY <1>10, <2>2, <3>1
  <2>4. k # NULL
    <3>1. Ht(h, k) # 0
      BY <1>b, <2>3
    <3>2. QED BY <3>1 DEF Ht
  <2>5. k \in M
    BY <1>b, <1>8, <2>1, <2>4
  <2>6. ~Red(t, k)
    BY <1>a, <1>b, <1>2, <2>1, <2>4, IsRedIs DEF RedPairs
  <2>7. QED BY <2>1, <2>3, <2>5, <2>6
<1> DEFINE h2 == [h EXCEPT ![par] = h[w], ![w] = h[par]]
<1>12. h2 \in [M -> Nat] /\ h2[par] = h[w] /\ h2[w] = h[par] /\ \A n \in M \ {par, w}: h2[n] = h[n]
  BY <1>a, <1>b, <1>9
<1> HIDE DEF h2
<1>13. Heights(r, M, h2, par, s)
  <2>1. \A n \in M: Wt(u, n) = IF n = par THEN 0 ELSE IF n = w THEN 1 ELSE Wt(t, n)
    BY <1>b, <1>4 DEF Wt
  <2>2. \A n \in M \ {par, w, NULL}: h2[n] = h[n]
                 /\ \A e \in Sides: h[n] = Ht(h, Kid(u, e, n)) + Wt(u, n) + Short(n, e, par, s)
    <3> TAKE n \in M \ {par, w, NULL}
    <3>1. \A e \in Sides: h[n] = Ht(h, Kid(u, e, n)) + Wt(u, n) + Short(n, e, par, s)
      <4> TAKE e \in Sides
      <4>1. h[n] = Ht(h, Kid(t, e, n)) + Wt(t, n) + Short(n, e, par, s)
        BY <1>9
      <4>2. Kid(u, e, n) = Kid(t, e, n) /\ Wt(u, n) = Wt(t, n)
        BY <1>3, <2>1
      <4>3. QED BY <4>1, <4>2
    <3>2. QED BY <1>12, <3>1
  <2>3. \A e \in Sides: Ht(h2, Kid(u, e, w)) = h[w]
    <3> TAKE e \in Sides
    <3>1. Kid(u, e, w) = Kid(t, e, w) /\ Kid(t, e, w) \in M \ {par, w} /\ Kid(t, e, w) # NULL
      BY <1>b, <1>2, <1>3, <1>11
    <3>2. QED BY <1>11, <1>12, <3>1 DEF Ht
  <2>4. Wt(u, par) = 0 /\ Wt(u, w) = 1 /\ Kid(u, s, par) = x
    BY <1>a, <1>b, <1>3, <2>1
  <2>5. /\ Short(par, s, par, s) = 1 /\ Short(par, o, par, s) = 0
        /\ Short(w, s, par, s) = 0 /\ Short(w, o, par, s) = 0
    BY <1>b, <1>1 DEF Short
  <2>6. TurnHeights(u, M, h, h2, par, w, s, NULL, par, s)
    <3>1. NULL \notin {par, w} /\ NULL \notin M
      BY <1>b, <1>2
    <3>2. /\ h2[par] = Ht(h, Kid(u, s, par)) + Wt(u, par) + Short(par, s, par, s)
          /\ h2[par] = Ht(h2, Kid(u, s, w)) + Wt(u, par) + Short(par, o, par, s)
      <4>1. Ht(h2, Kid(u, s, w)) = h[w] /\ Ht(h, Kid(u, s, par)) = Ht(h, x)
        BY <1>a, <2>3, <2>4
      <4>2. h[w] = Ht(h, x) + 1 /\ Ht(h, x) \in Nat
        BY <1>b
      <4>3. QED BY ONLY <1>12, <2>4, <2>5, <4>1, <4>2
    <3>3. /\ h2[w] = h2[par] + Wt(u, w) + Short(w, s, par, s)
          /\ h2[w] = Ht(h2, Kid(u, o, w)) + Wt(u, w) + Short(w, o, par, s)
      <4>1. Ht(h2, Kid(u, o, w)) = h[w] /\ h[w] \in Nat
        BY <1>b, <2>3
      <4>2. QED BY ONLY <1>10, <1>12, <2>4, <2>5, <4>1
    <3>4. QED BY ONLY <1>1, <1>9, <1>12, <2>2, <3>1, <3>2, <3>3 DEF TurnHeights
  <2>7. QED BY <1>a, <1>b, <1>3, <1>5, <2>6, TurnedHeights
<1>14. RedPairs(r, M, NULL, NULL)
  <2>1. ~Red(u, w)
    BY <1>b, <1>4
  <2>2. ~IsRed(u, Kid(u, s, par)) /\ ~IsRed(u, Kid(u, s, w))
    <3>1. x # NULL => x \in M /\ x # par
      BY <1>a, KidFacts
    <3>2. ~IsRed(u, x)
      BY <1>a, <1>4, <3>1, IsRedIs
    <3>3. ~IsRed(u, Kid(t, s, w))
      BY <1>a, <1>b, <1>4, <1>11, IsRedIs
    <3>4. QED BY <1>a, <1>b, <1>3, <3>2, <3>3
  <2>3. \A n \in M \ {par, w}, e \in Sides:
          IF Kid(u, e, n) = par THEN Red(u, n) /\ Red(u, w) => n = NULL \/ w = NULL
          ELSE Red(u, n) /\ IsRed(u, Kid(u, e, n)) => n = NULL \/ Kid(u, e, n) = NULL
    <3> TAKE n \in M \ {par, w}, e \in Sides
    <3>1. PICK k: k = Kid(u, e, n) /\ k = Kid(t, e, n)
      BY <1>3
    <3>2. CASE k = par
      BY <2>1, <3>1, <3>2
    <3>3. CASE k # par
      <4>1. SUFFICES ASSUME Red(u, n), IsRed(u, k) PROVE FALSE
        BY <3>1, <3>3
      <4>2. k # NULL /\ Red(u, k)
        BY <4>1, IsRedIs
      <4>3. k \in M
        BY <1>8, <3>1, <4>2
      <4>4. Red(t, n) /\ Red(t, k)
        BY <1>4, <3>3, <4>1, <4>2, <4>3
      <4>5. IsRed(t, k)
        BY <4>2, <4>4, IsRedIs
      <4>6. QED BY <1>a, <1>2, <3>1, <4>2, <4>4, <4>5 DEF RedPairs
    <3>4. QED BY <3>2, <3>3
  <2>4. TurnPairs(u, M, par, w, s, NULL, NULL)
    BY <2>1, <2>2, <2>3 DEF TurnPairs
  <2>5. QED BY <1>a, <1>b, <1>3, <1>5, <2>4, TurnedPairs
<1>15. \A n \in M: Red(r, n) = Red(u, n)
  BY <1>2 DEF Turned
<1>16. ~IsRed(r, Top(r))
  <2>1. Top(r) = IF Top(t) = par THEN w ELSE Top(t)
    BY <1>3 DEF Turned
  <2>2. Top(t) # NULL => Top(t) \in M
    BY <1>a, SubtreeOf
  <2>3. CASE Top(t) = par
    BY <1>b, <1>4, <1>15, <2>1, <2>3, IsRedIs
  <2>4. CASE Top(t) # par
    BY <1>a, <1>4, <1>15, <2>1, <2>2, <2>4, IsRedIs
  <2>5. QED BY <2>3, <2>4
<1>17. Kid(r, s, par) = x /\ Kid(r, Mirror(s), par) = Kid(t, s, w)
  BY <1>a, <1>b, <1>3 DEF Turned
<1>18. ~IsRed(r, x)
  <2>1. x # NULL => x \in M /\ x # par
    BY <1>a, KidFacts
  <2>2. QED BY <1>a, <1>4, <1>15, <2>1, IsRedIs
<1>19. PICK w2: w2 = Kid(t, s, w)
  OBVIOUS
<1>20. Lacking(r, M, sub2, h2, key, x, par, s, w2)
  BY <1>a, <1>6, <1>13, <1>14, <1>16, <1>17, <1>18, <1>19 DEF Lacking
<1>21. ~Red(r, w2) /\ Red(r, par)
  BY <1>a, <1>b, <1>4, <1>11, <1>15, <1>19
<1>22. QED BY <1>20, <1>21

(* The sibling's near child, red, turned over it makes the far child red. *)
LEMMA NearTurned ==
  ASSUME NEW key \in [Nodes -> Nat], NEW t, NEW M, NEW sub, NEW h, NEW x, NEW par, NEW s, NEW w,
         Lacking(t, M, sub, h, key, x, par, s, w), ~Red(t, w),
         NEW near, near = Kid(t, s, w), IsRed(t, near), ~IsRed(t, Kid(t, Mirror(s), w)),
         NEW u, RaiseColours(t, u, M, near, w),
         NEW r, Turned(u, r, M, w, near, Mirror(s))
  PROVE  \E sub2, h2: /\ Lacking(r, M, sub2, h2, key, x, par, s, near) /\ ~Red(r, near)
                      /\ IsRed(r, Kid(r, Mirror(s), near))
<1>a. /\ Shaped(t, M, sub, key) /\ Heights(t, M, h, par, s)
      /\ RedPairs(t, M, NULL, NULL) /\ ~IsRed(t, Top(t))
      /\ s \in Sides /\ par \in M /\ Kid(t, s, par) = x /\ ~IsRed(t, x)
      /\ w = Kid(t, Mirror(s), par)
  BY DEF Lacking
<1>b. /\ w \in M /\ h[w] \in Nat
      /\ par # NULL /\ w # NULL /\ w # par /\ w # Top(t) /\ Par(t, w) = par
      /\ \A n \in M, e \in Sides: Kid(t, e, n) = w => n = par /\ e = Mirror(s)
      /\ \A e \in Sides: Kid(t, e, w) # w /\ Kid(t, e, w) # par
      /\ x # w
  BY SiblingIs
<1>1. PICK o \in Sides: o = Mirror(s) /\ o # s /\ (\A e \in Sides: e = s \/ e = o) /\ Mirror(o) = s
  BY <1>a, SideFacts
<1>2. NULL \notin M /\ M \in SUBSET Nodes
  BY <1>a, SubtreeOf
<1>c. near # NULL /\ Red(t, near)
  BY IsRedIs
<1>d. /\ near \in M /\ near # w /\ near # par /\ Par(t, near) = w /\ near # Top(t)
      /\ near \in sub[near] /\ w \notin sub[near]
  <2>1. near \in M /\ Par(t, near) = w /\ near # Top(t) /\ near \in sub[near] /\ w \notin sub[near]
    BY <1>a, <1>b, <1>c, KidFacts
  <2>2. QED BY <1>a, <1>b, <2>1
<1>3. /\ Shaped(u, M, sub, key) /\ Top(u) = Top(t)
      /\ \A n \in M, e \in Sides: Kid(u, e, n) = Kid(t, e, n)
      /\ \A n \in M: Par(u, n) = Par(t, n)
  <2>1. SameLinks(t, u)
    BY DEF RaiseColours
  <2>2. QED BY <1>a, <1>2, <2>1, SameLinksShaped DEF SameLinks
<1>4. \A m \in M: Red(u, m) <=> m = w \/ (m # near /\ Red(t, m))
  BY DEF RaiseColours
<1>5. Turned(u, r, M, w, near, o) /\ near = Kid(u, Mirror(o), w)
  BY <1>a, <1>b, <1>1, <1>3
<1>6. PICK sub2: Shaped(r, M, sub2, key)
  BY <1>b, <1>c, <1>3, <1>5, TurnedShaped
<1>8. \A n \in M, e \in Sides: Kid(t, e, n) # NULL => Kid(t, e, n) \in M
  BY <1>a DEF Shaped, KidsLink
<1>9. /\ h \in [M -> Nat]
      /\ \A n \in M, e \in Sides: /\ h[n] = Ht(h, Kid(t, e, n)) + Wt(t, n) + Short(n, e, par, s)
                                  /\ h[n] \in Nat /\ Ht(h, Kid(t, e, n)) \in Nat
      /\ \A n \in M: Ht(h, n) = h[n]
  BY <1>a, ShortHeights
<1>10. Wt(t, w) = 1 /\ Wt(t, near) = 0
  BY <1>c DEF Wt
<1>11. /\ h[w] = h[near] + 1 /\ h[w] = Ht(h, Kid(t, o, w)) + 1
       /\ h[near] = Ht(h, Kid(t, o, near)) /\ h[near] = Ht(h, Kid(t, s, near))
       /\ h[near] \in Nat /\ Ht(h, Kid(t, o, w)) \in Nat
  <2>1. \A e \in Sides: Short(w, e, par, s) = 0 /\ Short(near, e, par, s) = 0
    BY <1>b, <1>d DEF Short
  <2>2. /\ h[w] = Ht(h, near) + Wt(t, w) + Short(w, s, par, s) /\ Ht(h, near) = h[near]
        /\ h[w] = Ht(h, Kid(t, o, w)) + Wt(t, w) + Short(w, o, par, s) /\ Ht(h, Kid(t, o, w)) \in Nat
    BY <1>a, <1>b, <1>d, <1>9
  <2>3. \A e \in Sides: /\ h[near] = Ht(h, Kid(t, e, near)) + Wt(t, near) + Short(near, e, par, s)
                        /\ h[near] \in Nat /\ Ht(h, Kid(t, e, near)) \in Nat
    BY <1>d, <1>9
  <2>4. Short(w, s, par, s) = 0 /\ Short(w, o, par, s) = 0 /\ s \in Sides
    BY <1>a, <2>1
  <2>5. \A e \in Sides: h[near] = Ht(h, Kid(t, e, near)) /\ h[near] \in Nat
    BY <1>10, <2>1, <2>3
  <2>6. h[w] = h[near] + 1 /\ h[w] = Ht(h, Kid(t, o, w)) + 1
    <3>1. h[near] \in Nat
      BY <1>d, <1>9
    <3>2. QED BY ONLY <1>10, <2>2, <2>4, <3>1
  <2>7. QED BY <1>a, <2>2, <2>5, <2>6
<1> DEFINE h2 == [h EXCEPT ![w] = h[near], ![near] = h[w]]
<1>12. h2 \in [M -> Nat] /\ h2[w] = h[near] /\ h2[near] = h[w] /\ \A n \in M \ {w, near}: h2[n] = h[n]
  BY <1>b, <1>d, <1>9
<1> HIDE DEF h2
<1>e. \A e \in Sides: Kid(t, e, near) # w /\ Kid(t, e, near) # near
  <2> SUFFICES ASSUME NEW e \in Sides PROVE Kid(t, e, near) # w /\ Kid(t, e, near) # near
    OBVIOUS
  <2>1. PICK k: k = Kid(t, e, near)
    OBVIOUS
  <2>2. k # NULL => k \in sub[near] /\ k # near
    BY <1>a, <1>d, <2>1, KidFacts
  <2>3. QED BY <1>b, <1>c, <1>d, <2>1, <2>2
<1>f. Kid(t, o, w) # near
  <2>1. \A n \in M, e \in Sides: Kid(t, e, n) = near <=> n = Par(t, near) /\ e = SideOf(t, near)
    BY <1>a, <1>d, SideIs
  <2>2. QED BY <1>a, <1>b, <1>1, <2>1
<1>13. Heights(r, M, h2, par, s)
  <2>1. \A n \in M: Wt(u, n) = IF n = w THEN 0 ELSE IF n = near THEN 1 ELSE Wt(t, n)
    BY <1>d, <1>4 DEF Wt
  <2>2. \A n \in M \ {w, near, NULL}: h2[n] = h[n]
                 /\ \A e \in Sides: h[n] = Ht(h, Kid(u, e, n)) + Wt(u, n) + Short(n, e, par, s)
    <3> TAKE n \in M \ {w, near, NULL}
    <3>1. \A e \in Sides: h[n] = Ht(h, Kid(u, e, n)) + Wt(u, n) + Short(n, e, par, s)
      <4> TAKE e \in Sides
      <4>1. h[n] = Ht(h, Kid(t, e, n)) + Wt(t, n) + Short(n, e, par, s)
        BY <1>9
      <4>2. Kid(u, e, n) = Kid(t, e, n) /\ Wt(u, n) = Wt(t, n)
        BY <1>3, <2>1
      <4>3. QED BY <4>1, <4>2
    <3>2. QED BY <1>12, <3>1
  <2>3. \A e \in Sides: Ht(h2, Kid(u, e, near)) = h[near]
    <3> TAKE e \in Sides
    <3>1. Kid(u, e, near) = Kid(t, e, near) /\ (Kid(t, e, near) # NULL => Kid(t, e, near) \in M \ {w, near})
      BY <1>d, <1>e, <1>3, <1>8
    <3>2. Ht(h2, Kid(t, e, near)) = Ht(h, Kid(t, e, near))
      BY <1>12, <3>1 DEF Ht
    <3>3. Ht(h, Kid(t, e, near)) = h[near]
      BY <1>1, <1>11
    <3>4. QED BY <3>1, <3>2, <3>3
  <2>4. Wt(u, w) = 0 /\ Wt(u, near) = 1 /\ Kid(u, o, w) = Kid(t, o, w)
    BY <1>b, <1>d, <1>3, <2>1
  <2>5. \A e \in Sides: Short(w, e, par, s) = 0 /\ Short(near, e, par, s) = 0
    BY <1>b, <1>d DEF Short
  <2>6. TurnHeights(u, M, h, h2, w, near, o, NULL, par, s)
    <3>1. NULL \notin {w, near} /\ NULL \notin M
      BY <1>b, <1>c, <1>2
    <3>2. /\ h2[w] = Ht(h, Kid(u, o, w)) + Wt(u, w) + Short(w, o, par, s)
          /\ h2[w] = Ht(h2, Kid(u, o, near)) + Wt(u, w) + Short(w, s, par, s)
      <4>1. Ht(h2, Kid(u, o, near)) = h[near] /\ Ht(h, Kid(u, o, w)) = Ht(h, Kid(t, o, w))
        BY <2>3, <2>4
      <4>2. Short(w, o, par, s) = 0 /\ Short(w, s, par, s) = 0
        BY <1>a, <2>5
      <4>3. QED BY ONLY <1>11, <1>12, <2>4, <4>1, <4>2
    <3>3. /\ h2[near] = h2[w] + Wt(u, near) + Short(near, o, par, s)
          /\ h2[near] = Ht(h2, Kid(u, s, near)) + Wt(u, near) + Short(near, s, par, s)
      <4>1. Ht(h2, Kid(u, s, near)) = h[near]
        BY <1>a, <2>3
      <4>2. Short(near, o, par, s) = 0 /\ Short(near, s, par, s) = 0
        BY <1>a, <2>5
      <4>3. QED BY ONLY <1>11, <1>12, <2>4, <4>1, <4>2
    <3>4. QED BY ONLY <1>1, <1>9, <1>12, <2>2, <3>1, <3>2, <3>3 DEF TurnHeights
  <2>7. QED BY <1>b, <1>c, <1>3, <1>5, <2>6, TurnedHeights
<1>14. RedPairs(r, M, NULL, NULL)
  <2>1. ~Red(u, near)
    BY <1>b, <1>d, <1>4
  <2>2. ~IsRed(u, Kid(u, o, w)) /\ ~IsRed(u, Kid(u, o, near))
    <3>1. ~IsRed(t, Kid(t, o, near))
      BY <1>a, <1>c, <1>d, <1>2, IsRedIs DEF RedPairs
    <3>2. ~IsRed(t, Kid(t, o, w))
      BY <1>1
    <3>3. \A n \in {w, near}: Kid(t, o, n) # NULL => Kid(t, o, n) \in M /\ Kid(t, o, n) # w
      BY <1>b, <1>d, <1>e, <1>8
    <3>4. \A n \in {w, near}: ~IsRed(u, Kid(t, o, n))
      BY <1>4, <3>1, <3>2, <3>3, IsRedIs
    <3>5. QED BY <1>b, <1>d, <1>3, <3>4
  <2>3. \A n \in M \ {w, near}, e \in Sides:
          IF Kid(u, e, n) = w THEN Red(u, n) /\ Red(u, near) => n = NULL \/ near = NULL
          ELSE Red(u, n) /\ IsRed(u, Kid(u, e, n)) => n = NULL \/ Kid(u, e, n) = NULL
    <3> TAKE n \in M \ {w, near}, e \in Sides
    <3>1. PICK k: k = Kid(u, e, n) /\ k = Kid(t, e, n)
      BY <1>3
    <3>2. CASE k = w
      BY <2>1, <3>1, <3>2
    <3>3. CASE k # w
      <4>1. SUFFICES ASSUME Red(u, n), IsRed(u, k) PROVE FALSE
        BY <3>1, <3>3
      <4>2. k # NULL /\ Red(u, k)
        BY <4>1, IsRedIs
      <4>3. k \in M
        BY <1>8, <3>1, <4>2
      <4>4. Red(t, n) /\ Red(t, k)
        BY <1>4, <3>3, <4>1, <4>2, <4>3
      <4>5. IsRed(t, k)
        BY <4>2, <4>4, IsRedIs
      <4>6. QED BY <1>a, <1>2, <3>1, <4>2, <4>4, <4>5 DEF RedPairs
    <3>4. QED BY <3>2, <3>3
  <2>4. TurnPairs(u, M, w, near, o, NULL, NULL)
    BY <2>1, <2>2, <2>3 DEF TurnPairs
  <2>5. QED BY <1>b, <1>c, <1>3, <1>5, <2>4, TurnedPairs
<1>15. \A n \in M: Red(r, n) = Red(u, n)
  BY <1>2, <1>5 DEF Turned
<1>16. ~IsRed(r, Top(r))
  <2>1. Top(r) = Top(t)
    BY <1>b, <1>3, <1>5 DEF Turned
  <2>2. Top(t) # NULL => Top(t) \in M
    BY <1>a, SubtreeOf
  <2>3. QED BY <1>a, <1>b, <1>4, <1>15, <2>1, <2>2, IsRedIs
<1>17. Kid(r, s, par) = x /\ Kid(r, Mirror(s), par) = near
  <2>1. par \in M \ {w, near}
    BY <1>a, <1>b, <1>d
  <2>2. \A e \in Sides: Kid(r, e, par) = IF Kid(u, e, par) = w THEN near ELSE Kid(u, e, par)
    BY <1>5, <2>1 DEF Turned
  <2>3. Kid(u, s, par) = x /\ Kid(u, o, par) = w
    BY <1>a, <1>1, <1>3
  <2>4. QED BY <1>a, <1>b, <1>1, <2>2, <2>3
<1>18. ~IsRed(r, x)
  <2>1. x # NULL => x \in M
    BY <1>a, KidFacts
  <2>2. QED BY <1>a, <1>b, <1>4, <1>15, <2>1, IsRedIs
<1>20. Lacking(r, M, sub2, h2, key, x, par, s, near)
  BY <1>a, <1>6, <1>13, <1>14, <1>16, <1>17, <1>18 DEF Lacking
<1>21. ~Red(r, near) /\ IsRed(r, Kid(r, Mirror(s), near))
  <2>1. Kid(r, o, near) = w
    BY <1>5 DEF Turned
  <2>2. Red(r, w) /\ ~Red(r, near)
    BY <1>b, <1>d, <1>4, <1>15
  <2>3. QED BY <1>b, <1>1, <2>1, <2>2, IsRedIs
<1>22. QED BY <1>20, <1>21

SiblingColours(t, u, M, par, w, far) ==
  /\ SameLinks(t, u)
  /\ \A m \in M: Red(u, m) <=> (m = w /\ Red(t, par)) \/ (m # w /\ m # par /\ m # far /\ Red(t, m))

(* The sibling turned over the parent makes up for the black node. *)
LEMMA SiblingRaised ==
  ASSUME NEW key \in [Nodes -> Nat], NEW t, NEW M, NEW sub, NEW h, NEW x, NEW par, NEW s, NEW w,
         Lacking(t, M, sub, h, key, x, par, s, w), ~Red(t, w),
         NEW far, far = Kid(t, Mirror(s), w), IsRed(t, far),
         NEW u, SiblingColours(t, u, M, par, w, far),
         NEW r, Turned(u, r, M, par, w, s)
  PROVE  GoodTree(r, M, key)
<1>a. /\ Shaped(t, M, sub, key) /\ Heights(t, M, h, par, s)
      /\ RedPairs(t, M, NULL, NULL) /\ ~IsRed(t, Top(t))
      /\ s \in Sides /\ par \in M /\ Kid(t, s, par) = x /\ ~IsRed(t, x)
      /\ w = Kid(t, Mirror(s), par)
  BY DEF Lacking
<1>b. /\ w \in M /\ h[w] = Ht(h, x) + 1 /\ h[par] = h[w] + Wt(t, par) /\ h[w] \in Nat /\ Ht(h, x) \in Nat
      /\ par # NULL /\ w # NULL /\ w # par /\ w # Top(t) /\ Par(t, w) = par
      /\ \A n \in M, e \in Sides: Kid(t, e, n) = w => n = par /\ e = Mirror(s)
      /\ \A e \in Sides: Kid(t, e, w) # w /\ Kid(t, e, w) # par
      /\ x # w
  BY SiblingIs
<1>1. PICK o \in Sides: o = Mirror(s) /\ o # s /\ (\A e \in Sides: e = s \/ e = o) /\ Mirror(o) = s
  BY <1>a, SideFacts
<1>2. NULL \notin M /\ M \in SUBSET Nodes
  BY <1>a, SubtreeOf
<1>c. far # NULL /\ Red(t, far)
  BY IsRedIs
<1>d. far \in M /\ far # w /\ far # par /\ Par(t, far) = w /\ far # Top(t) /\ far = Kid(t, o, w)
  <2>1. far \in M /\ Par(t, far) = w /\ far # Top(t)
    BY <1>b, <1>c, <1>1, <1>a, KidFacts
  <2>2. QED BY <1>a, <1>b, <1>1, <2>1
<1>e. \A n \in M, e \in Sides: Kid(t, e, n) = far => n = w /\ e = o
  <2>1. \A n \in M, e \in Sides: Kid(t, e, n) = far <=> n = Par(t, far) /\ e = SideOf(t, far)
    BY <1>a, <1>d, SideIs
  <2>2. QED BY <1>b, <1>d, <1>1, <2>1
<1>3. /\ Shaped(u, M, sub, key) /\ Top(u) = Top(t)
      /\ \A n \in M, e \in Sides: Kid(u, e, n) = Kid(t, e, n)
      /\ \A n \in M: Par(u, n) = Par(t, n)
  <2>1. SameLinks(t, u)
    BY DEF SiblingColours
  <2>2. QED BY <1>a, <1>2, <2>1, SameLinksShaped DEF SameLinks
<1>4. \A m \in M: Red(u, m) <=> (m = w /\ Red(t, par)) \/ (m # w /\ m # par /\ m # far /\ Red(t, m))
  BY DEF SiblingColours
<1>5. w = Kid(u, Mirror(s), par)
  BY <1>a, <1>1, <1>3
<1>6. PICK sub2: Shaped(r, M, sub2, key)
  BY <1>a, <1>b, <1>3, <1>5, TurnedShaped
<1>8. \A n \in M, e \in Sides: Kid(t, e, n) # NULL => Kid(t, e, n) \in M
  BY <1>a DEF Shaped, KidsLink
<1>9. /\ h \in [M -> Nat]
      /\ \A n \in M, e \in Sides: /\ h[n] = Ht(h, Kid(t, e, n)) + Wt(t, n) + Short(n, e, par, s)
                                  /\ h[n] \in Nat /\ Ht(h, Kid(t, e, n)) \in Nat
      /\ \A n \in M: Ht(h, n) = h[n] /\ Wt(t, n) \in 0..1
  BY <1>a, ShortHeights
<1>10. Wt(t, w) = 1 /\ Wt(t, far) = 0
  BY <1>c DEF Wt
<1>11. /\ h[far] = Ht(h, x) /\ Ht(h, Kid(t, s, w)) = Ht(h, x)
       /\ \A e \in Sides: Ht(h, Kid(t, e, far)) = Ht(h, x)
  <2>1. \A e \in Sides: Short(w, e, par, s) = 0 /\ Short(far, e, par, s) = 0
    BY <1>b, <1>d DEF Short
  <2>2. \A e \in Sides: Ht(h, Kid(t, e, w)) = Ht(h, x)
    <3> TAKE e \in Sides
    <3>1. h[w] = Ht(h, Kid(t, e, w)) + Wt(t, w) + Short(w, e, par, s) /\ Ht(h, Kid(t, e, w)) \in Nat
      BY <1>b, <1>9
    <3>2. Short(w, e, par, s) = 0 /\ h[w] = Ht(h, x) + 1 /\ Ht(h, x) \in Nat
      BY <1>b, <2>1
    <3>3. QED BY ONLY <1>10, <3>1, <3>2
  <2>3. h[far] = Ht(h, x)
    BY <1>d, <1>9, <2>2
  <2>4. \A e \in Sides: Ht(h, Kid(t, e, far)) = Ht(h, x)
    <3> TAKE e \in Sides
    <3>1. h[far] = Ht(h, Kid(t, e, far)) + Wt(t, far) + Short(far, e, par, s) /\ Ht(h, Kid(t, e, far)) \in Nat
      BY <1>d, <1>9
    <3>2. Short(far, e, par, s) = 0 /\ Ht(h, x) \in Nat
      BY <1>b, <2>1
    <3>3. QED BY ONLY <1>10, <2>3, <3>1, <3>2
  <2>5. QED BY <1>a, <2>2, <2>3, <2>4
<1> DEFINE h2 == [h EXCEPT ![par] = h[w], ![w] = h[par], ![far] = h[w]]
<1>12. /\ h2 \in [M -> Nat] /\ h2[par] = h[w] /\ h2[w] = h[par] /\ h2[far] = h[w]
       /\ \A n \in M \ {par, w, far}: h2[n] = h[n]
  BY <1>a, <1>b, <1>d, <1>9
<1> HIDE DEF h2
<1>13. Heights(r, M, h2, NULL, "left")
  <2>1. \A n \in M: Wt(u, n) = IF n = w THEN Wt(t, par) ELSE IF n = par \/ n = far THEN 1 ELSE Wt(t, n)
    BY <1>b, <1>d, <1>4 DEF Wt
  <2>0. \A n \in M, e \in Sides: Short(n, e, NULL, "left") = 0 /\ (n # par => Short(n, e, par, s) = 0)
    BY <1>2 DEF Short
  <2>2. \A n \in M \ {par, w, far}: h2[n] = h[n]
                 /\ \A e \in Sides: h[n] = Ht(h, Kid(u, e, n)) + Wt(u, n) + Short(n, e, NULL, "left")
    <3> TAKE n \in M \ {par, w, far}
    <3>1. \A e \in Sides: h[n] = Ht(h, Kid(u, e, n)) + Wt(u, n) + Short(n, e, NULL, "left")
      <4> TAKE e \in Sides
      <4>1. h[n] = Ht(h, Kid(t, e, n)) + Wt(t, n) + Short(n, e, par, s)
        BY <1>9
      <4>2. Kid(u, e, n) = Kid(t, e, n) /\ Wt(u, n) = Wt(t, n)
        BY <1>3, <2>1
      <4>3. Short(n, e, par, s) = Short(n, e, NULL, "left")
        BY <2>0
      <4>4. QED BY <4>1, <4>2, <4>3
    <3>2. QED BY <1>12, <3>1
  <2>3. Ht(h2, Kid(u, s, w)) = Ht(h, x)
    <3>1. Kid(u, s, w) = Kid(t, s, w) /\ (Kid(t, s, w) # NULL => Kid(t, s, w) \in M \ {par, w, far})
      BY <1>a, <1>b, <1>e, <1>1, <1>3, <1>8
    <3>2. Ht(h2, Kid(t, s, w)) = Ht(h, Kid(t, s, w))
      BY <1>12, <3>1 DEF Ht
    <3>3. QED BY <1>11, <3>1, <3>2
  <2>4. /\ Wt(u, par) = 1 /\ Wt(u, w) = Wt(t, par) /\ Wt(u, far) = 1
        /\ Kid(u, s, par) = x /\ Kid(u, o, w) = far /\ Ht(h2, far) = h[w]
    <3>1. Wt(u, par) = 1 /\ Wt(u, w) = Wt(t, par) /\ Wt(u, far) = 1
      BY <1>a, <1>b, <1>d, <2>1
    <3>2. Kid(u, s, par) = x /\ Kid(u, o, w) = far
      BY <1>a, <1>b, <1>d, <1>3
    <3>3. Ht(h2, far) = h[w]
      BY <1>c, <1>12 DEF Ht
    <3>4. QED BY <3>1, <3>2, <3>3
  <2>5. \A e \in Sides: /\ Short(par, e, NULL, "left") = 0 /\ Short(w, e, NULL, "left") = 0
                        /\ Short(far, e, NULL, "left") = 0
    BY <1>a, <1>b, <1>d, <2>0
  <2>6. TurnHeights(u, M, h, h2, par, w, s, far, NULL, "left")
    <3>1. far \notin {par, w} /\ Par(u, far) = w
      BY <1>d, <1>3
    <3>2. \A e \in Sides: h2[far] = Ht(h, Kid(u, e, far)) + Wt(u, far) + Short(far, e, NULL, "left")
      <4> TAKE e \in Sides
      <4>1. Ht(h, Kid(u, e, far)) = Ht(h, x)
        BY <1>d, <1>3, <1>11
      <4>2. Short(far, e, NULL, "left") = 0 /\ h[w] = Ht(h, x) + 1 /\ Ht(h, x) \in Nat
        BY <1>b, <2>5
      <4>3. QED BY ONLY <1>12, <2>4, <4>1, <4>2
    <3>3. /\ h2[par] = Ht(h, Kid(u, s, par)) + Wt(u, par) + Short(par, s, NULL, "left")
          /\ h2[par] = Ht(h2, Kid(u, s, w)) + Wt(u, par) + Short(par, o, NULL, "left")
      <4>1. Short(par, s, NULL, "left") = 0 /\ Short(par, o, NULL, "left") = 0
        BY <1>a, <2>5
      <4>2. h[w] = Ht(h, x) + 1 /\ Ht(h, x) \in Nat /\ Ht(h, Kid(u, s, par)) = Ht(h, x)
        BY <1>b, <2>4
      <4>3. QED BY ONLY <1>12, <2>3, <2>4, <4>1, <4>2
    <3>4. /\ h2[w] = h2[par] + Wt(u, w) + Short(w, s, NULL, "left")
          /\ h2[w] = Ht(h2, Kid(u, o, w)) + Wt(u, w) + Short(w, o, NULL, "left")
      <4>1. Short(w, s, NULL, "left") = 0 /\ Short(w, o, NULL, "left") = 0
        BY <1>a, <2>5
      <4>2. h[par] = h[w] + Wt(t, par) /\ h[w] \in Nat /\ Wt(t, par) \in 0..1 /\ Ht(h2, Kid(u, o, w)) = h[w]
        BY <1>a, <1>b, <1>9, <2>4
      <4>3. QED BY ONLY <1>12, <2>4, <4>1, <4>2
    <3>5. QED BY ONLY <1>1, <1>9, <1>12, <2>2, <3>1, <3>2, <3>3, <3>4 DEF TurnHeights
  <2>7. QED BY <1>a, <1>b, <1>3, <1>5, <2>6, TurnedHeights
<1>14. RedPairs(r, M, NULL, NULL)
  <2>1. ~Red(u, par) /\ ~Red(u, far)
    BY <1>a, <1>b, <1>d, <1>4
  <2>2. ~IsRed(u, Kid(u, o, w))
    BY <1>b, <1>d, <1>3, <2>1, IsRedIs
  <2>3. \A n \in M \ {par, w}, e \in Sides:
          IF Kid(u, e, n) = par THEN Red(u, n) /\ Red(u, w) => n = NULL \/ w = NULL
          ELSE Red(u, n) /\ IsRed(u, Kid(u, e, n)) => n = NULL \/ Kid(u, e, n) = NULL
    <3> TAKE n \in M \ {par, w}, e \in Sides
    <3>1. PICK k: k = Kid(u, e, n) /\ k = Kid(t, e, n)
      BY <1>3
    <3>2. CASE k = par
      <4>1. SUFFICES ASSUME Red(u, n), Red(u, w) PROVE FALSE
        BY <3>1, <3>2
      <4>2. Red(t, n) /\ Red(t, par)
        BY <1>b, <1>4, <4>1
      <4>3. IsRed(t, k)
        BY <1>b, <3>2, <4>2, IsRedIs
      <4>4. QED BY <1>a, <1>b, <1>2, <3>1, <3>2, <4>2, <4>3 DEF RedPairs
    <3>3. CASE k # par
      <4>1. SUFFICES ASSUME Red(u, n), IsRed(u, k) PROVE FALSE
        BY <3>1, <3>3
      <4>2. k # NULL /\ Red(u, k)
        BY <4>1, IsRedIs
      <4>3. k \in M /\ k # w
        BY <1>b, <1>8, <3>1, <4>2
      <4>4. Red(t, n) /\ Red(t, k)
        BY <1>4, <3>3, <4>1, <4>2, <4>3
      <4>5. IsRed(t, k)
        BY <4>2, <4>4, IsRedIs
      <4>6. QED BY <1>a, <1>2, <3>1, <4>2, <4>4, <4>5 DEF RedPairs
    <3>4. QED BY <3>2, <3>3
  <2>4. TurnPairs(u, M, par, w, s, NULL, NULL)
    BY <1>1, <2>1, <2>2, <2>3 DEF TurnPairs
  <2>5. QED BY <1>a, <1>b, <1>3, <1>5, <2>4, TurnedPairs
<1>15. \A n \in M: Red(r, n) = Red(u, n)
  BY <1>2 DEF Turned
<1>16. ~IsRed(r, Top(r))
  <2>1. Top(r) = IF Top(t) = par THEN w ELSE Top(t)
    BY <1>3 DEF Turned
  <2>2. Top(t) # NULL => Top(t) \in M
    BY <1>a, SubtreeOf
  <2>3. CASE Top(t) = par
    <3>1. ~Red(t, par)
      BY <1>a, <1>b, <2>3, IsRedIs
    <3>2. QED BY <1>b, <1>4, <1>15, <2>1, <2>3, <3>1, IsRedIs
  <2>4. CASE Top(t) # par
    BY <1>a, <1>b, <1>4, <1>15, <2>1, <2>2, <2>4, IsRedIs
  <2>5. QED BY <2>3, <2>4
<1>17. Sound(r, M, sub2, h2, key)
  BY <1>6, <1>13, <1>14, <1>16 DEF Sound
<1>18. QED BY <1>17 DEF GoodTree

(* Between two turns of the removal's loop: below x, on side d of par, one *)
(* black node is missing, unless par is NULL.  If x is red, it may be one *)
(* of a pair; that will not last. *)
Removing(t, M, sub, h, key, x, par, d) ==
  /\ Shaped(t, M, sub, key) /\ Heights(t, M, h, par, d)
  /\ RedPairs(t, M, x, x) /\ TopBlack(t, x) /\ d \in Sides
  /\ par = NULL => x = Top(t)
  /\ par # NULL => par \in M /\ Kid(t, d, par) = x
Missing(t, M, key, x, par) == \E sub, h, d: Removing(t, M, sub, h, key, x, par, d)
Filled(t, x) == x = Top(t) \/ IsRed(t, x)

(* Unless there is nothing to make up for there is a parent and a *)
(* sibling. *)
LEMMA LackingIs ==
  ASSUME NEW key \in [Nodes -> Nat], NEW t, NEW M, NEW sub, NEW h, NEW x, NEW par, NEW d,
         Removing(t, M, sub, h, key, x, par, d), ~Filled(t, x)
  PROVE  Lacking(t, M, sub, h, key, x, par, d, Kid(t, Mirror(d), par)) /\ par \in M
<1>1. /\ Shaped(t, M, sub, key) /\ Heights(t, M, h, par, d)
      /\ RedPairs(t, M, x, x) /\ TopBlack(t, x) /\ d \in Sides
      /\ x # Top(t) /\ ~IsRed(t, x) /\ par \in M /\ Kid(t, d, par) = x
  BY DEF Removing, Filled
<1>2. RedPairs(t, M, NULL, NULL)
  <2> SUFFICES ASSUME NEW n \in M, NEW e \in Sides, Red(t, n), IsRed(t, Kid(t, e, n)) PROVE FALSE
    BY DEF RedPairs
  <2>1. n = x \/ Kid(t, e, n) = x
    BY <1>1 DEF RedPairs
  <2>2. n # NULL
    BY <1>1, SubtreeOf
  <2>3. QED BY <1>1, <2>1, <2>2, IsRedIs
<1>3. ~IsRed(t, Top(t))
  BY <1>1 DEF TopBlack
<1>4. QED BY <1>1, <1>2, <1>3 DEF Lacking

(* Both children of the black sibling are black: it becomes red, and the *)
(* node that is missing is missing one level up. *)
LEMMA SiblingReddened ==
  ASSUME NEW key \in [Nodes -> Nat], NEW t, NEW M, NEW sub, NEW h, NEW x, NEW par, NEW s, NEW w,
         Lacking(t, M, sub, h, key, x, par, s, w), ~Red(t, w),
         \A e \in Sides: ~IsRed(t, Kid(t, e, w)),
         NEW u, Reddened(t, u, w)
  PROVE  Missing(u, M, key, par, Par(t, par)) /\ SameLinks(t, u) /\ Par(t, par) \in M \cup {NULL}
<1>a. /\ Shaped(t, M, sub, key) /\ Heights(t, M, h, par, s)
      /\ RedPairs(t, M, NULL, NULL) /\ ~IsRed(t, Top(t))
      /\ s \in Sides /\ par \in M /\ Kid(t, s, par) = x /\ ~IsRed(t, x)
      /\ w = Kid(t, Mirror(s), par)
  BY DEF Lacking
<1>b. /\ w \in M /\ h[w] = Ht(h, x) + 1 /\ h[par] = h[w] + Wt(t, par) /\ h[w] \in Nat /\ Ht(h, x) \in Nat
      /\ par # NULL /\ w # NULL /\ w # par /\ w # Top(t) /\ Par(t, w) = par
      /\ \A n \in M, e \in Sides: Kid(t, e, n) = w => n = par /\ e = Mirror(s)
      /\ \A e \in Sides: Kid(t, e, w) # w /\ Kid(t, e, w) # par
      /\ x # w
  BY SiblingIs
<1>1. PICK o \in Sides: o = Mirror(s) /\ o # s /\ (\A e \in Sides: e = s \/ e = o)
  BY <1>a, SideFacts
<1>2. NULL \notin M /\ M \in SUBSET Nodes
  BY <1>a, SubtreeOf
<1>3. SameLinks(t, u) /\ \A m \in M: Red(u, m) <=> m = w \/ Red(t, m)
  BY <1>2 DEF Reddened
<1>4. /\ Shaped(u, M, sub, key) /\ Top(u) = Top(t)
      /\ \A n \in M, e \in Sides: Kid(u, e, n) = Kid(t, e, n)
      /\ \A n \in M: Par(u, n) = Par(t, n)
  BY <1>a, <1>2, <1>3, SameLinksShaped DEF SameLinks
<1>5. PICK q \in M \cup {NULL}, d \in Sides:
        /\ q = Par(t, par) /\ q # par
        /\ q = NULL => par = Top(t)
        /\ q # NULL => Kid(t, d, q) = par
        /\ \A n \in M, e \in Sides: Kid(t, e, n) = par <=> n = q /\ e = d
  <2>1. CASE par = Top(t)
    <3>1. Par(t, par) = NULL /\ \A n \in M, e \in Sides: Kid(t, e, n) # par
      BY <1>a, <2>1, SideIs
    <3>2. QED BY <1>a, <1>b, <1>2, <2>1, <3>1
  <2>2. CASE par # Top(t)
    <3>1. /\ Par(t, par) \in M /\ SideOf(t, par) \in Sides /\ Par(t, par) # par
          /\ \A n \in M, e \in Sides: Kid(t, e, n) = par <=> n = Par(t, par) /\ e = SideOf(t, par)
      BY <1>a, <2>2, SideIs
    <3>2. QED BY <1>2, <2>2, <3>1
  <2>3. QED BY <2>1, <2>2
<1>6. \A n \in M, e \in Sides: Kid(t, e, n) # NULL => Kid(t, e, n) \in M
  BY <1>a DEF Shaped, KidsLink
<1>9. /\ h \in [M -> Nat]
      /\ \A n \in M, e \in Sides: /\ h[n] = Ht(h, Kid(t, e, n)) + Wt(t, n) + Short(n, e, par, s)
                                  /\ h[n] \in Nat /\ Ht(h, Kid(t, e, n)) \in Nat
      /\ \A n \in M: Ht(h, n) = h[n] /\ Wt(t, n) \in 0..1
  BY <1>a, ShortHeights
<1>10. Wt(t, w) = 1
  BY DEF Wt
<1> DEFINE h2 == [h EXCEPT ![par] = h[par] - 1, ![w] = h[w] - 1]
<1>11. h[par] - 1 \in Nat /\ h[w] - 1 \in Nat
  <2>1. Wt(t, par) \in 0..1
    BY <1>a, <1>9
  <2>2. QED BY <1>b, <2>1
<1>12. /\ h2 \in [M -> Nat] /\ h2[par] = h[par] - 1 /\ h2[w] = h[w] - 1
       /\ \A n \in M \ {par, w}: h2[n] = h[n]
  BY <1>a, <1>b, <1>9, <1>11
<1> HIDE DEF h2
<1>13. Heights(u, M, h2, q, d)
  <2>0. \A n \in M: Wt(u, n) = IF n = w THEN 0 ELSE Wt(t, n)
    BY <1>3 DEF Wt
  <2> SUFFICES ASSUME NEW n \in M, NEW e \in Sides
               PROVE  h2[n] = Ht(h2, Kid(u, e, n)) + Wt(u, n) + Short(n, e, q, d)
    BY <1>12 DEF Heights
  <2>1. PICK c: c = Kid(t, e, n) /\ c = Kid(u, e, n)
    BY <1>4
  <2>2. h[n] = Ht(h, c) + Wt(t, n) + Short(n, e, par, s) /\ h[n] \in Nat /\ Ht(h, c) \in Nat /\ Wt(t, n) \in 0..1
    BY <1>9, <2>1
  <2>3. CASE n = par
    <3>1. Short(n, e, q, d) = 0 /\ Wt(u, n) = Wt(t, n) /\ h2[n] = h[n] - 1
      BY <1>a, <1>b, <1>5, <1>12, <2>0, <2>3 DEF Short
    <3>2. CASE e = s
      <4>1. Short(n, e, par, s) = 1
        BY <2>3, <3>2 DEF Short
      <4>2. Ht(h2, c) = Ht(h, c)
        <5>1. c = x
          BY <1>a, <2>1, <2>3, <3>2
        <5>2. c # NULL => c \in M \ {par, w}
          <6>1. x # NULL => x \in M /\ x # par
            BY <1>a, KidFacts
          <6>2. QED BY <1>b, <5>1, <6>1
        <5>3. QED BY <1>12, <5>2 DEF Ht
      <4>3. QED BY ONLY <2>1, <2>2, <3>1, <4>1, <4>2
    <3>3. CASE e = o
      <4>1. Short(n, e, par, s) = 0 /\ c = w
        BY <1>a, <1>1, <2>1, <2>3, <3>3 DEF Short
      <4>2. Ht(h2, c) = h[w] - 1 /\ Ht(h, c) = h[w]
        BY <1>b, <1>12, <4>1 DEF Ht
      <4>3. QED BY ONLY <2>1, <2>2, <3>1, <4>1, <4>2
    <3>4. QED BY <1>1, <3>2, <3>3
  <2>4. CASE n = w
    <3>1. Short(n, e, q, d) = 0
      <4>1. n = q /\ e = d => Kid(t, e, n) = par
        BY <1>5
      <4>2. QED BY <1>b, <2>4, <4>1 DEF Short
    <3>2. Short(n, e, par, s) = 0 /\ Wt(t, n) = 1 /\ Wt(u, n) = 0 /\ h2[n] = h[n] - 1
      BY <1>b, <1>10, <1>12, <2>0, <2>4 DEF Short
    <3>3. c # NULL => c \in M \ {par, w}
      BY <1>b, <1>6, <2>1, <2>4
    <3>4. Ht(h2, c) = Ht(h, c)
      BY <1>12, <3>3 DEF Ht
    <3>5. QED BY ONLY <2>1, <2>2, <3>1, <3>2, <3>4
  <2>5. CASE n # par /\ n # w
    <3>1. Short(n, e, par, s) = 0 /\ Wt(u, n) = Wt(t, n) /\ h2[n] = h[n]
      BY <1>12, <2>0, <2>5 DEF Short
    <3>2. c # w
      BY <1>b, <2>1, <2>5
    <3>3. CASE c = par
      <4>1. Short(n, e, q, d) = 1
        BY <1>5, <2>1, <3>3 DEF Short
      <4>2. Ht(h, c) = h[par] /\ Ht(h2, c) = h[par] - 1
        BY <1>b, <1>12, <3>3 DEF Ht
      <4>3. QED BY ONLY <2>1, <2>2, <3>1, <4>1, <4>2
    <3>4. CASE c # par
      <4>1. Short(n, e, q, d) = 0
        BY <1>5, <2>1, <3>4 DEF Short
      <4>2. Ht(h2, c) = Ht(h, c)
        <5>1. c # NULL => c \in M \ {par, w}
          BY <1>6, <2>1, <3>2, <3>4
        <5>2. QED BY <1>12, <5>1 DEF Ht
      <4>3. QED BY ONLY <2>1, <2>2, <3>1, <4>1, <4>2
    <3>5. QED BY <3>3, <3>4
  <2>6. QED BY <2>3, <2>4, <2>5
<1>14. RedPairs(u, M, par, par)
  <2> SUFFICES ASSUME NEW n \in M, NEW e \in Sides, Red(u, n), IsRed(u, Kid(u, e, n)), n # par PROVE FALSE
    BY DEF RedPairs
  <2>1. PICK c: c = Kid(t, e, n) /\ c # NULL /\ Red(u, c)
    BY <1>4, IsRedIs
  <2>2. c \in M /\ c # w
    BY <1>b, <1>6, <2>1
  <2>3. Red(t, c) /\ IsRed(t, c)
    BY <1>3, <2>1, <2>2, IsRedIs
  <2>4. n # w
    BY <2>1, <2>3
  <2>5. Red(t, n)
    BY <1>3, <2>4
  <2>6. QED BY <1>a, <1>2, <2>1, <2>3, <2>5 DEF RedPairs
<1>15. TopBlack(u, par)
  <2> SUFFICES ASSUME IsRed(u, Top(u)) PROVE FALSE
    BY DEF TopBlack
  <2>1. Top(t) # NULL /\ Red(u, Top(t))
    BY <1>4, IsRedIs
  <2>2. Top(t) \in M
    BY <1>a, <2>1, SubtreeOf
  <2>3. QED BY <1>a, <1>b, <1>3, <2>1, <2>2, IsRedIs
<1>16. Removing(u, M, sub, h2, key, par, q, d)
  BY <1>4, <1>5, <1>13, <1>14, <1>15 DEF Removing
<1>17. QED BY <1>3, <1>5, <1>16 DEF Missing

(* x, red or the top, takes the black node that was missing. *)
LEMMA BlackenedSound ==
  ASSUME NEW key \in [Nodes -> Nat], NEW t, NEW M, NEW x, NEW par, Missing(t, M, key, x, par), Filled(t, x),
         NEW r, Blackened(t, r, x)
  PROVE  GoodTree(r, M, key)
<1>1. PICK sub, h, d: Removing(t, M, sub, h, key, x, par, d)
  BY DEF Missing
<1>2. /\ Shaped(t, M, sub, key) /\ Heights(t, M, h, par, d)
      /\ RedPairs(t, M, x, x) /\ TopBlack(t, x) /\ d \in Sides
      /\ par = NULL => x = Top(t)
      /\ par # NULL => par \in M /\ Kid(t, d, par) = x
  BY <1>1 DEF Removing
<1>3. NULL \notin M /\ M \in SUBSET Nodes /\ (Top(t) # NULL => Top(t) \in M)
  BY <1>2, SubtreeOf
<1>4. SameLinks(t, r) /\ \A m \in M: Red(r, m) <=> m # x /\ Red(t, m)
  BY <1>3 DEF Blackened
<1>5. /\ Shaped(r, M, sub, key) /\ Top(r) = Top(t)
      /\ \A n \in M, e \in Sides: Kid(r, e, n) = Kid(t, e, n)
  BY <1>2, <1>3, <1>4, SameLinksShaped DEF SameLinks
<1>6. x \in M \/ x = NULL
  BY <1>2, <1>3 DEF Shaped, KidsLink
<1>7. RedPairs(r, M, NULL, NULL)
  <2> SUFFICES ASSUME NEW n \in M, NEW e \in Sides, Red(r, n), IsRed(r, Kid(r, e, n)) PROVE FALSE
    BY DEF RedPairs
  <2>1. PICK c: c = Kid(t, e, n) /\ c # NULL /\ Red(r, c)
    BY <1>5, IsRedIs
  <2>2. c \in M
    BY <1>2, <2>1 DEF Shaped, KidsLink
  <2>3. c # x /\ n # x /\ Red(t, n) /\ IsRed(t, c)
    BY <1>4, <2>1, <2>2, IsRedIs
  <2>4. QED BY <1>2, <2>1, <2>3 DEF RedPairs
<1>8. ~IsRed(r, Top(r))
  BY <1>2, <1>3, <1>4, <1>5, IsRedIs DEF TopBlack
<1>9. /\ h \in [M -> Nat]
      /\ \A n \in M, e \in Sides: /\ h[n] = Ht(h, Kid(t, e, n)) + Wt(t, n) + Short(n, e, par, d)
                                  /\ h[n] \in Nat /\ Ht(h, Kid(t, e, n)) \in Nat /\ Wt(t, n) \in 0..1
  BY <1>2, ShortHeights
<1>10. \E h2: Heights(r, M, h2, NULL, "left")
  <2>0. \A n \in M, e \in Sides: Short(n, e, NULL, "left") = 0
    BY <1>3 DEF Short
  <2>1. CASE ~IsRed(t, x)
    <3>1. x = Top(t)
      BY <2>1 DEF Filled
    <3>2. par = NULL
      <4>1. CASE x = NULL
        <5>1. M = {}
          BY <1>2, <3>1, <4>1 DEF Shaped, TopIs
        <5>2. QED BY <1>2, <5>1
      <4>2. CASE x # NULL
        <5>1. par # NULL => Kid(t, d, par) # Top(t)
          BY <1>2, <1>3, <3>1, <4>2, KidFacts
        <5>2. QED BY <1>2, <3>1, <5>1
      <4>3. QED BY <4>1, <4>2
    <3>3. Heights(r, M, h, NULL, "left")
      <4> SUFFICES ASSUME NEW n \in M, NEW e \in Sides
                   PROVE  h[n] = Ht(h, Kid(r, e, n)) + Wt(r, n) + Short(n, e, NULL, "left")
        BY <1>9 DEF Heights
      <4>1. Short(n, e, par, d) = 0 /\ Short(n, e, NULL, "left") = 0
        BY <1>3, <3>2 DEF Short
      <4>2. Red(r, n) <=> Red(t, n)
        BY <1>3, <1>4, <2>1, IsRedIs
      <4>3. Wt(r, n) = Wt(t, n)
        BY <4>2 DEF Wt
      <4>4. QED BY <1>5, <1>9, <4>1, <4>3
    <3>4. QED BY <3>3
  <2>2. CASE IsRed(t, x)
    <3>1. x \in M /\ x # NULL /\ Red(t, x)
      BY <1>6, <2>2, IsRedIs
    <3> DEFINE h2 == [h EXCEPT ![x] = h[x] + 1]
    <3>2. h2 \in [M -> Nat] /\ h2[x] = h[x] + 1 /\ \A n \in M \ {x}: h2[n] = h[n]
      BY <1>9, <3>1
    <3> HIDE DEF h2
    <3>3. \A n \in M, e \in Sides: Kid(t, e, n) = x <=> n = par /\ e = d
      <4>1. CASE par = NULL
        <5>1. \A n \in M, e \in Sides: Kid(t, e, n) # x
          <6>1. x = Top(t) /\ Shaped(t, M, sub, key)
            BY <1>2, <4>1
          <6>2. \A n \in M, e \in Sides: Kid(t, e, n) # NULL => Kid(t, e, n) # Top(t)
            BY <6>1, KidFacts
          <6>3. QED BY <3>1, <6>1, <6>2
        <5>2. QED BY <1>3, <4>1, <5>1
      <4>2. CASE par # NULL
        <5>1. x # Top(t)
          <6>1. Kid(t, d, par) = x /\ Shaped(t, M, sub, key) /\ par \in M /\ d \in Sides
            BY <1>2, <4>2
          <6>2. QED BY <3>1, <6>1, KidFacts
        <5>2. \A n \in M, e \in Sides: Kid(t, e, n) = x <=> n = Par(t, x) /\ e = SideOf(t, x)
          BY <1>2, <3>1, <5>1, SideIs
        <5>3. par = Par(t, x) /\ d = SideOf(t, x)
          BY <1>2, <4>2, <5>2
        <5>4. QED BY <5>2, <5>3
      <4>3. QED BY <4>1, <4>2
    <3>4. Heights(r, M, h2, NULL, "left")
      <4> SUFFICES ASSUME NEW n \in M, NEW e \in Sides
                   PROVE  h2[n] = Ht(h2, Kid(r, e, n)) + Wt(r, n) + Short(n, e, NULL, "left")
        BY <3>2 DEF Heights
      <4>1. PICK c: c = Kid(t, e, n) /\ c = Kid(r, e, n) /\ (c = NULL \/ c \in M)
        BY <1>2, <1>5 DEF Shaped, KidsLink
      <4>2. h[n] = Ht(h, c) + Wt(t, n) + Short(n, e, par, d) /\ h[n] \in Nat /\ Ht(h, c) \in Nat /\ Wt(t, n) \in 0..1
        BY <1>9, <4>1
      <4>3. h2[n] = IF n = x THEN h[n] + 1 ELSE h[n]
        BY <3>2
      <4>4. Wt(r, n) = IF n = x THEN Wt(t, n) + 1 ELSE Wt(t, n)
        BY <1>4, <3>1 DEF Wt
      <4>5. Ht(h2, c) = Ht(h, c) + Short(n, e, par, d)
        <5>1. CASE c = x
          <6>1. Short(n, e, par, d) = 1
            BY <3>3, <4>1, <5>1 DEF Short
          <6>2. Ht(h2, c) = h[x] + 1 /\ Ht(h, c) = h[x]
            BY <3>1, <3>2, <5>1 DEF Ht
          <6>3. QED BY <6>1, <6>2
        <5>2. CASE c # x
          <6>1. Short(n, e, par, d) = 0
            BY <3>3, <4>1, <5>2 DEF Short
          <6>2. Ht(h2, c) = Ht(h, c)
            BY <3>2, <4>1, <5>2 DEF Ht
          <6>3. QED BY <4>2, <6>1, <6>2
        <5>3. QED BY <5>1, <5>2
      <4>6. Short(n, e, par, d) \in 0..1
        BY DEF Short
      <4>7. Short(n, e, NULL, "left") = 0
        BY <2>0
      <4>8. QED BY ONLY <4>1, <4>2, <4>3, <4>4, <4>5, <4>6, <4>7
    <3>5. QED BY <3>4
  <2>3. QED BY <2>1, <2>2
<1>11. PICK h2: Heights(r, M, h2, NULL, "left")
  BY <1>10
<1>12. Sound(r, M, sub, h2, key)
  BY <1>5, <1>7, <1>8, <1>11 DEF Sound
<1>13. QED BY <1>12 DEF GoodTree

(* After its first step the turn has a black sibling. *)
LEMMA BlackSiblingIs ==
  ASSUME NEW key \in [Nodes -> Nat], NEW t, NEW M, NEW sub, NEW h, NEW x, NEW par, NEW s, NEW w,
         Lacking(t, M, sub, h, key, x, par, s, w), NEW v, v = BlackSibling(t, par, s, w)
  PROVE  /\ \E sub2, h2, w2: Lacking(v, M, sub2, h2, key, x, par, s, w2) /\ ~Red(v, w2)
         /\ v = t \/ Red(v, par)
<1>1. /\ Shaped(t, M, sub, key) /\ par \in M /\ s \in Sides /\ w = Kid(t, Mirror(s), par)
  BY DEF Lacking
<1>2. w \in M /\ w # NULL
  BY SiblingIs
<1>3. CASE ~IsRed(t, w)
  <2>1. v = t
    BY <1>3 DEF BlackSibling
  <2>2. ~Red(t, w)
    BY <1>2, <1>3, IsRedIs
  <2>3. QED BY <2>1, <2>2
<1>4. CASE IsRed(t, w)
  <2>1. t \in Trees /\ M \in SUBSET Nodes
    BY <1>1, SubtreeOf
  <2>2. PICK u: u = RaiseTree(t, w, par) /\ RaiseColours(t, u, M, w, par)
    BY <1>1, <1>2, <2>1, RaiseTreeIs
  <2>3. v = Rotate(u, par, s)
    BY <1>4, <2>2 DEF BlackSibling, RaiseTree
  <2>4. SameLinks(t, u)
    BY <2>2 DEF RaiseColours
  <2>5. Shaped(u, M, sub, key) /\ w = Kid(u, Mirror(s), par)
    <3>1. Mirror(s) \in Sides /\ par \in Nodes
      BY <1>1, <2>1, SideFacts
    <3>2. QED BY <1>1, <2>4, <3>1, SameLinksShaped DEF SameLinks
  <2>6. Turned(u, v, M, par, w, s)
    BY <1>1, <1>2, <2>3, <2>5, RotateTurns
  <2>7. Red(t, w)
    BY <1>4, IsRedIs
  <2>8. \E sub2, h2, w2: Lacking(v, M, sub2, h2, key, x, par, s, w2) /\ ~Red(v, w2) /\ Red(v, par)
    BY <2>2, <2>6, <2>7, RedSiblingTurned
  <2>9. QED BY <2>8
<1>5. QED BY <1>3, <1>4

SiblingTree(t, par, w, far) ==
  SetIsRed(SetIsRed(SetIsRed(t, w, t.is_red[par]), par, FALSE), far, FALSE)

(* What is coloured before the sibling rises. *)
LEMMA SiblingTreeIs ==
  ASSUME NEW t \in Trees, NEW M \in SUBSET Nodes, NEW par \in M, NEW w \in M, NEW far \in M,
         par # w, w # far
  PROVE  SiblingColours(t, SiblingTree(t, par, w, far), M, par, w, far)
<1>1. par \in Nodes /\ w \in Nodes /\ far \in Nodes /\ Red(t, par) \in BOOLEAN
      /\ w \in Nodes \cup {NULL}
  BY TreeFields
<1>2. PICK a: a = SetIsRed(t, w, Red(t, par)) /\ ColourSet(t, a, w, Red(t, par))
  BY <1>1, SetIsRedIs
<1>3. a \in Trees /\ SameLinks(t, a)
  BY <1>2 DEF ColourSet, SameLinks
<1>4. \A m \in M: Red(a, m) <=> (m = w /\ Red(t, par)) \/ (m # w /\ Red(t, m))
  <2>1. \A m \in Nodes: Red(a, m) = IF m = w THEN Red(t, par) ELSE Red(t, m)
    BY <1>2 DEF ColourSet
  <2>2. \A m \in Nodes: Red(a, m) \in BOOLEAN /\ Red(t, m) \in BOOLEAN
    BY <1>3, TreeFields
  <2>3. QED BY <2>1, <2>2
<1>5. PICK b: b = SetIsRed(a, par, FALSE) /\ Blackened(a, b, par)
  BY <1>1, <1>3, BlackenedIs
<1>6. b \in Trees
  BY <1>5 DEF Blackened
<1>7. PICK c: c = SetIsRed(b, far, FALSE) /\ Blackened(b, c, far)
  BY <1>1, <1>6, BlackenedIs
<1>8. c = SiblingTree(t, par, w, far)
  BY <1>2, <1>5, <1>7 DEF SiblingTree, Red
<1>9. SameLinks(a, b) /\ SameLinks(b, c)
  BY <1>5, <1>7 DEF Blackened
<1>10. SameLinks(t, c)
  BY <1>3, <1>9, LinksStay
<1>11. \A m \in M: (Red(b, m) <=> m # par /\ Red(a, m)) /\ (Red(c, m) <=> m # far /\ Red(b, m))
  BY <1>5, <1>7 DEF Blackened
<1>12. \A m \in M: Red(c, m) <=> (m = w /\ Red(t, par)) \/ (m # w /\ m # par /\ m # far /\ Red(t, m))
  BY <1>4, <1>11
<1>13. SiblingColours(t, c, M, par, w, far)
  BY <1>10, <1>12 DEF SiblingColours
<1>14. QED BY <1>8, <1>13

(* The sibling raised, the tree is a red-black tree. *)
LEMMA RaiseSiblingIs ==
  ASSUME NEW key \in [Nodes -> Nat], NEW t, NEW M, NEW sub, NEW h, NEW x, NEW par, NEW s, NEW w,
         Lacking(t, M, sub, h, key, x, par, s, w), ~Red(t, w), IsRed(t, Kid(t, Mirror(s), w)),
         NEW v, v = RaiseSibling(t, par, s, w)
  PROVE  GoodTree(v, M, key)
<1>1. Shaped(t, M, sub, key) /\ par \in M /\ s \in Sides /\ w = Kid(t, Mirror(s), par) /\ Mirror(s) \in Sides
  BY SideFacts DEF Lacking
<1>2. w \in M /\ w # NULL /\ w # par /\ \A e \in Sides: Kid(t, e, w) # w
  BY SiblingIs
<1>3. PICK far: far = Kid(t, Mirror(s), w) /\ IsRed(t, far)
  OBVIOUS
<1>4. far \in M /\ far # w
  BY <1>1, <1>2, <1>3, IsRedIs DEF Shaped, KidsLink
<1>5. t \in Trees /\ M \in SUBSET Nodes
  BY <1>1, SubtreeOf
<1>6. PICK u: u = SiblingTree(t, par, w, far) /\ SiblingColours(t, u, M, par, w, far)
  BY <1>1, <1>2, <1>4, <1>5, SiblingTreeIs
<1>7. v = Rotate(u, par, s)
  BY <1>3, <1>6 DEF RaiseSibling, SiblingTree, Kid
<1>8. SameLinks(t, u)
  BY <1>6 DEF SiblingColours
<1>9. Shaped(u, M, sub, key) /\ w = Kid(u, Mirror(s), par)
  <2>1. par \in Nodes
    BY <1>1, <1>5
  <2>2. QED BY <1>1, <1>8, <2>1, SameLinksShaped DEF SameLinks
<1>10. Turned(u, v, M, par, w, s)
  BY <1>1, <1>2, <1>7, <1>9, RotateTurns
<1>11. QED BY <1>3, <1>6, <1>10, SiblingRaised

(* What a turn does once the sibling w is black: it moves what is missing *)
(* up to par, or is done. *)
MissedAbove(t, r, M, key, par) ==
  \E u: /\ r = [x |-> par, par |-> Par(t, par), tree |-> u] /\ u \in Trees /\ SameLinks(t, u)
        /\ Red(t, par) => Red(u, par)
        /\ Missing(u, M, key, par, Par(t, par)) /\ Par(t, par) \in M \cup {NULL}
AllDone(r, M, key) == \E v: r = [x |-> Top(v), par |-> NULL, tree |-> v] /\ GoodTree(v, M, key)

(* A turn of the fixup moves the lack of a black node up, or ends it. *)
LEMMA AddBlackIs ==
  ASSUME NEW key \in [Nodes -> Nat], NEW t, NEW M, NEW sub, NEW h, NEW x, NEW par, NEW s, NEW w,
         Lacking(t, M, sub, h, key, x, par, s, w), ~Red(t, w),
         NEW r, r = AddBlack(t, par, s, w)
  PROVE  MissedAbove(t, r, M, key, par) \/ AllDone(r, M, key)
<1>1. Shaped(t, M, sub, key) /\ par \in M /\ s \in Sides /\ w = Kid(t, Mirror(s), par) /\ Mirror(s) \in Sides
  BY SideFacts DEF Lacking
<1>2. w \in M /\ w # NULL /\ w # par /\ \A e \in Sides: Kid(t, e, w) # w
  BY SiblingIs
<1>3. t \in Trees /\ M \in SUBSET Nodes /\ w \in Nodes /\ par \in Nodes
  BY <1>1, <1>2, SubtreeOf
<1>4. CASE \A e \in Sides: ~IsRed(t, Kid(t, e, w))
  <2>1. PICK u: u = SetIsRed(t, w, TRUE) /\ Reddened(t, u, w)
    BY <1>3, ReddenedIs
  <2>2. r = [x |-> par, par |-> Par(t, par), tree |-> u]
    BY <1>4, <2>1 DEF AddBlack, Kid, Par
  <2>3. Missing(u, M, key, par, Par(t, par)) /\ SameLinks(t, u) /\ Par(t, par) \in M \cup {NULL}
    BY <1>4, <2>1, SiblingReddened
  <2>4. u \in Trees /\ (Red(t, par) => Red(u, par))
    BY <1>3, <2>1 DEF Reddened
  <2>5. QED BY <2>2, <2>3, <2>4 DEF MissedAbove
<1>5. CASE ~(\A e \in Sides: ~IsRed(t, Kid(t, e, w)))
  <2>1. PICK t2: t2 = RedFarChild(t, w, s)
    OBVIOUS
  <2>2. PICK v: v = RaiseSibling(t2, par, s, Kid(t2, Mirror(s), par))
    OBVIOUS
  <2>3. r = [x |-> Top(v), par |-> NULL, tree |-> v]
    <3>1. r = AtTop(v)
      BY <1>5, <2>1, <2>2 DEF AddBlack, Sibling, Kid
    <3>2. QED BY <3>1 DEF AtTop, Top
  <2>4. \E sub2, h2, w2: /\ Lacking(t2, M, sub2, h2, key, x, par, s, w2) /\ ~Red(t2, w2)
                         /\ IsRed(t2, Kid(t2, Mirror(s), w2))
    <3>1. CASE IsRed(t, Kid(t, Mirror(s), w))
      <4>1. t2 = t
        BY <2>1, <3>1 DEF RedFarChild, Kid
      <4>2. QED BY <3>1, <4>1
    <3>2. CASE ~IsRed(t, Kid(t, Mirror(s), w))
      <4>1. PICK near: near = Kid(t, s, w)
        OBVIOUS
      <4>2. IsRed(t, near)
        BY <1>1, <1>5, <3>2, <4>1, SideFacts
      <4>3. near \in M /\ near # NULL
        BY <1>1, <1>2, <4>1, <4>2, IsRedIs DEF Shaped, KidsLink
      <4>4. PICK u: u = RaiseTree(t, near, w) /\ RaiseColours(t, u, M, near, w)
        BY <1>2, <1>3, <4>3, RaiseTreeIs
      <4>5. t2 = Rotate(u, w, Mirror(s))
        BY <2>1, <3>2, <4>1, <4>4 DEF RedFarChild, RaiseTree, Kid
      <4>6. SameLinks(t, u)
        BY <4>4 DEF RaiseColours
      <4>7. PICK o \in Sides: o = Mirror(s) /\ Mirror(o) = s
        BY <1>1, SideFacts
      <4>8. Shaped(u, M, sub, key) /\ near = Kid(u, Mirror(o), w)
        BY <1>1, <1>3, <4>1, <4>6, <4>7, SameLinksShaped DEF SameLinks
      <4>9. Turned(u, Rotate(u, w, o), M, w, near, o)
        BY <1>2, <4>3, <4>8, RotateTurns
      <4>10. Turned(u, t2, M, w, near, Mirror(s))
        BY <4>5, <4>7, <4>9
      <4>11. \E sub2, h2: /\ Lacking(t2, M, sub2, h2, key, x, par, s, near) /\ ~Red(t2, near)
                          /\ IsRed(t2, Kid(t2, Mirror(s), near))
        BY <3>2, <4>1, <4>2, <4>4, <4>10, NearTurned
      <4>12. QED BY <4>11
    <3>3. QED BY <3>1, <3>2
  <2>5. PICK sub2, h2, w2: /\ Lacking(t2, M, sub2, h2, key, x, par, s, w2) /\ ~Red(t2, w2)
                           /\ IsRed(t2, Kid(t2, Mirror(s), w2))
    BY <2>4
  <2>6. w2 = Kid(t2, Mirror(s), par)
    BY <2>5 DEF Lacking
  <2>7. GoodTree(v, M, key)
    BY <2>2, <2>5, <2>6, RaiseSiblingIs
  <2>8. QED BY <2>3, <2>7 DEF AllDone
<1>6. QED BY <1>4, <1>5

(* A red-black tree lacks nothing at the top. *)
LEMMA GoodMissing ==
  ASSUME NEW key \in [Nodes -> Nat], NEW t, NEW M, GoodTree(t, M, key)
  PROVE  Missing(t, M, key, Top(t), NULL) /\ t \in Trees /\ Top(t) \in M \cup {NULL}
<1>1. PICK sub, h: Sound(t, M, sub, h, key)
  BY DEF GoodTree
<1>2. /\ Shaped(t, M, sub, key) /\ Heights(t, M, h, NULL, "left")
      /\ RedPairs(t, M, NULL, NULL) /\ ~IsRed(t, Top(t))
  BY <1>1 DEF Sound
<1>3. t \in Trees /\ NULL \notin M /\ Top(t) \in M \cup {NULL}
  BY <1>2, SubtreeOf
<1>4. RedPairs(t, M, Top(t), Top(t))
  <2> SUFFICES ASSUME NEW n \in M, NEW e \in Sides, Red(t, n), IsRed(t, Kid(t, e, n)) PROVE FALSE
    BY DEF RedPairs
  <2>1. n = NULL \/ Kid(t, e, n) = NULL
    BY <1>2 DEF RedPairs
  <2>2. QED BY <1>3, <2>1, IsRedIs
<1>5. "left" \in Sides
  BY DEF Sides
<1>6. Removing(t, M, sub, h, key, Top(t), NULL, "left")
  BY <1>2, <1>4, <1>5 DEF Removing, TopBlack
<1>7. QED BY <1>3, <1>6 DEF Missing

XOf(st) == st.x
ParOf(st) == st.par
RemoveStates(M, key) ==
  {st \in [x: Nodes \cup {NULL}, par: Nodes \cup {NULL}, tree: Trees]: Missing(st.tree, M, key, st.x, st.par)}
HowFar(st) == IF ParOf(st) = NULL THEN 0 ELSE Cardinality(Ancestors(Tree(st), ParOf(st)))
RemoveStep(st, r, M, key) ==
  /\ r \in RemoveStates(M, key)
  /\ Filled(Tree(st), XOf(st)) => r = st
  /\ Filled(Tree(st), XOf(st)) \/ Filled(Tree(r), XOf(r)) \/ HowFar(r) < HowFar(st)

(* A turn of the loop keeps what holds in it, and comes closer to its *)
(* end. *)
LEMMA RemoveFixupIs ==
  ASSUME NEW key \in [Nodes -> Nat], NEW M, NEW st \in RemoveStates(M, key)
  PROVE  RemoveStep(st, RemoveFixup(st), M, key)
<1>1. PICK t, x, par: t = Tree(st) /\ x = XOf(st) /\ par = ParOf(st)
  OBVIOUS
<1>2. PICK sub, h, d: Removing(t, M, sub, h, key, x, par, d)
  BY <1>1 DEF RemoveStates, Missing, Tree, XOf, ParOf
<1>3. PICK r: r = RemoveFixup(st)
  OBVIOUS
<1>4. PICK s: s = IF x = Kid(t, "left", par) THEN "left" ELSE "right"
  OBVIOUS
<1>5. r = IF Filled(t, x) THEN st
          ELSE LET v == BlackSibling(t, par, s, Kid(t, Mirror(s), par))
               IN  AddBlack(v, par, s, Kid(v, Mirror(s), par))
  BY <1>1, <1>3, <1>4 DEF RemoveFixup, Filled, Sibling, Tree, XOf, ParOf, Kid, Top
<1>6. CASE Filled(t, x)
  BY <1>1, <1>3, <1>5, <1>6 DEF RemoveStep
<1>7. CASE ~Filled(t, x)
  <2>1. PICK w: w = Kid(t, Mirror(d), par)
    OBVIOUS
  <2>2. Lacking(t, M, sub, h, key, x, par, d, w) /\ par \in M
    BY <1>2, <1>7, <2>1, LackingIs
  <2>3. s = d
    <3>1. d \in Sides /\ Kid(t, d, par) = x /\ x # w
      BY <2>2, SiblingIs DEF Lacking
    <3>2. CASE d = "left"
      BY <1>4, <3>1, <3>2
    <3>3. CASE d = "right"
      <4>1. Mirror(d) = "left"
        BY <3>3 DEF Mirror
      <4>2. QED BY <1>4, <2>1, <3>1, <3>3, <4>1
    <3>4. QED BY <3>1, <3>2, <3>3 DEF Sides
  <2>4. PICK v: v = BlackSibling(t, par, d, w)
    OBVIOUS
  <2>5. PICK sub2, h2, w2: Lacking(v, M, sub2, h2, key, x, par, d, w2) /\ ~Red(v, w2)
    BY <2>2, <2>4, BlackSiblingIs
  <2>6. v = t \/ Red(v, par)
    BY <2>2, <2>4, BlackSiblingIs
  <2>7. w2 = Kid(v, Mirror(d), par)
    BY <2>5 DEF Lacking
  <2>8. r = AddBlack(v, par, d, w2)
    BY <1>5, <1>7, <2>1, <2>3, <2>4, <2>7
  <2>9. MissedAbove(v, r, M, key, par) \/ AllDone(r, M, key)
    BY <2>5, <2>8, AddBlackIs
  <2>10. Shaped(t, M, sub, key) /\ M \in SUBSET Nodes /\ NULL \notin M
    BY <2>2, SubtreeOf DEF Lacking
  <2>11. CASE AllDone(r, M, key)
    <3>1. PICK c: r = [x |-> Top(c), par |-> NULL, tree |-> c] /\ GoodTree(c, M, key)
      BY <2>11 DEF AllDone
    <3>2. Missing(c, M, key, Top(c), NULL) /\ c \in Trees /\ Top(c) \in M \cup {NULL}
      BY <3>1, GoodMissing
    <3>3. r.x = Top(c) /\ r.par = NULL /\ r.tree = c
      BY <3>1
    <3>4. r \in [x: Nodes \cup {NULL}, par: Nodes \cup {NULL}, tree: Trees]
      BY <2>10, <3>1, <3>2
    <3>5. r \in RemoveStates(M, key)
      BY <3>2, <3>3, <3>4 DEF RemoveStates
    <3>6. Filled(Tree(r), XOf(r))
      BY <3>3 DEF Filled, Tree, XOf
    <3>7. QED BY <1>1, <1>3, <1>7, <3>5, <3>6 DEF RemoveStep
  <2>12. CASE MissedAbove(v, r, M, key, par)
    <3>1. PICK u: /\ r = [x |-> par, par |-> Par(v, par), tree |-> u] /\ u \in Trees /\ SameLinks(v, u)
                  /\ Red(v, par) => Red(u, par)
                  /\ Missing(u, M, key, par, Par(v, par)) /\ Par(v, par) \in M \cup {NULL}
      BY <2>12 DEF MissedAbove
    <3>2. PICK q \in M \cup {NULL}: q = Par(v, par)
      BY <3>1
    <3>3. r.x = par /\ r.par = q /\ r.tree = u
      BY <3>1, <3>2
    <3>4. r \in [x: Nodes \cup {NULL}, par: Nodes \cup {NULL}, tree: Trees]
      BY <2>2, <2>10, <3>1, <3>2
    <3>5. r \in RemoveStates(M, key)
      BY <3>1, <3>2, <3>3, <3>4 DEF RemoveStates
    <3>6. Tree(r) = u /\ XOf(r) = par /\ ParOf(r) = q
      BY <3>3 DEF Tree, XOf, ParOf
    <3>7. CASE Red(v, par)
      <4>1. Filled(Tree(r), XOf(r))
        BY <2>2, <2>10, <3>1, <3>6, <3>7, IsRedIs DEF Filled
      <4>2. QED BY <1>1, <1>3, <1>7, <3>5, <4>1 DEF RemoveStep
    <3>8. CASE ~Red(v, par)
      <4>1. v = t
        BY <2>6, <3>8
      <4>2. Shaped(u, M, sub, key)
        BY <2>10, <3>1, <4>1, SameLinksShaped
      <4>3. HowFar(st) = Cardinality(Ancestors(t, par)) /\ Cardinality(Ancestors(t, par)) \in 1..Cardinality(Nodes)
        BY <1>1, <2>2, <2>10, SomeAbove DEF HowFar
      <4>4. HowFar(r) < HowFar(st)
        <5>1. CASE q = NULL
          <6>1. HowFar(r) = 0
            BY <3>6, <5>1 DEF HowFar
          <6>2. QED BY <4>3, <6>1, NodesCount
        <5>2. CASE q # NULL
          <6>1. par # Top(t) /\ q \in M /\ q = Par(t, par)
            BY <2>2, <2>10, <3>2, <4>1, <5>2, SideIs
          <6>2. SideOf(t, par) \in Sides /\ Kid(t, SideOf(t, par), q) = par /\ q # par
            BY <2>2, <2>10, <6>1, SideIs
          <6>3. par \in sub[q]
            BY <2>2, <2>10, <6>1, <6>2, KidFacts
          <6>4. Cardinality(Ancestors(u, q)) < Cardinality(Ancestors(t, par))
            BY <2>2, <2>10, <4>2, <6>1, <6>2, <6>3, FewerAbove
          <6>5. HowFar(r) = Cardinality(Ancestors(u, q))
            BY <3>6, <5>2 DEF HowFar
          <6>6. QED BY <4>3, <6>4, <6>5
        <5>3. QED BY <5>1, <5>2
      <4>5. QED BY <1>1, <1>3, <1>7, <3>5, <4>4 DEF RemoveStep
    <3>9. QED BY <3>7, <3>8
  <2>13. QED BY <2>9, <2>11, <2>12
<1>8. QED BY <1>6, <1>7

RemoveRun(t, x, par, M, key, g) ==
  /\ g \in [0..Cardinality(Nodes) -> RemoveStates(M, key)]
  /\ g[0] = [tree |-> t, x |-> x, par |-> par]
  /\ \A i \in 1..Cardinality(Nodes): g[i] = RemoveFixup(g[i - 1])
  /\ Loop(RemoveFixup, [tree |-> t, x |-> x, par |-> par]) = g[Cardinality(Nodes)]

(* The loop of DSK_RBTREE_REMOVE runs through trees that lack one black *)
(* node. *)
LEMMA RemoveRuns ==
  ASSUME NEW key \in [Nodes -> Nat], NEW M, NEW t, NEW x, NEW par,
         [tree |-> t, x |-> x, par |-> par] \in RemoveStates(M, key)
  PROVE  \E g: RemoveRun(t, x, par, M, key, g)
<1>0. PICK x0 \in RemoveStates(M, key): x0 = [tree |-> t, x |-> x, par |-> par]
  OBVIOUS
<1> DEFINE N == Cardinality(Nodes)
           Step(z) == RemoveFixup(z)
           F == [z \in RemoveStates(M, key) |-> Step(z)]
           R(f) == [i \in 0..N |-> IF i = 0 THEN {[tree |-> t, x |-> x, par |-> par]} ELSE {Step(z): z \in f[i - 1]}]
<1>1. N \in Nat
  BY NodesCount
<1>2. F \in [RemoveStates(M, key) -> RemoveStates(M, key)] /\ \A z \in RemoveStates(M, key): F[z] = Step(z)
  <2>1. \A z \in RemoveStates(M, key): RemoveFixup(z) \in RemoveStates(M, key)
    BY RemoveFixupIs DEF RemoveStep
  <2>2. QED BY <2>1
<1>3. Loop(RemoveFixup, [tree |-> t, x |-> x, par |-> par]) = CHOOSE z \in (CHOOSE r: r = R(r))[N]: TRUE
  BY <1>0 DEF Step, Loop
<1> HIDE DEF N, F, Step
<1>4. PICK g: IsRun(g, RemoveStates(M, key), F, x0, N)
  BY <1>1, <1>2, RunExists
<1>5. /\ g \in [0..N -> RemoveStates(M, key)] /\ g[0] = x0
      /\ \A i \in 1..N: g[i] = Step(g[i - 1])
  <2>1. \A i \in 1..N: i - 1 \in 0..N
    BY <1>1
  <2>2. QED BY <1>2, <1>4, <2>1 DEF IsRun
<1>6. \A y: {Step(z): z \in {y}} = {Step(y)}
  OBVIOUS
<1> DEFINE h == [i \in 0..N |-> {g[i]}]
<1>7. h = R(h)
  <2>1. \A i \in 1..N: h[i - 1] = {g[i - 1]} /\ h[i] = {g[i]}
    BY <1>1
  <2>2. h[0] = {x0}
    BY <1>1, <1>5
  <2>3. h = [i \in 0..N |-> h[i]]
    OBVIOUS
  <2> HIDE DEF h
  <2>4. \A i \in 1..N: h[i] = {Step(z): z \in h[i - 1]}
    <3> TAKE i \in 1..N
    <3>1. h[i] = {Step(g[i - 1])} /\ h[i - 1] = {g[i - 1]}
      BY <1>5, <2>1
    <3>2. QED BY <1>6, <3>1
  <2>5. \A i \in 0..N: i = 0 \/ (i \in 1..N /\ i # 0)
    BY <1>1
  <2>6. \A i \in 0..N: h[i] = IF i = 0 THEN {x0} ELSE {Step(z): z \in h[i - 1]}
    BY <2>2, <2>4, <2>5
  <2>7. QED BY <1>0, <2>3, <2>6
<1>8. \A r: r = R(r) => /\ r[0] = {x0}
                        /\ \A i \in 1..N: r[i] = {Step(z): z \in r[i - 1]}
  <2> SUFFICES ASSUME NEW r, r = R(r)
               PROVE  r[0] = {x0} /\ \A i \in 1..N: r[i] = {Step(z): z \in r[i - 1]}
    OBVIOUS
  <2>1. r = [i \in 0..N |-> IF i = 0 THEN {x0} ELSE {Step(z): z \in r[i - 1]}]
    BY <1>0
  <2> HIDE DEF R
  <2>2. QED BY ONLY <1>1, <2>1
<1> HIDE DEF R
<1>9. PICK f: f = (CHOOSE r: r = R(r)) /\ f = R(f)
  <2>1. QED BY <1>7
<1>10. Follows(f, g, N)
  <2>1. f[0] = {g[0]}
    BY <1>5, <1>8, <1>9
  <2>2. ASSUME NEW i \in 1..N, f[i - 1] = {g[i - 1]} PROVE f[i] = {g[i]}
    <3>1. f[i] = {Step(z): z \in f[i - 1]}
      BY <1>8, <1>9
    <3>2. f[i] = {Step(g[i - 1])}
      BY <1>6, <2>2, <3>1
    <3>3. QED BY <1>5, <3>2
  <2>3. QED BY <2>1, <2>2 DEF Follows
<1>11. Loop(RemoveFixup, [tree |-> t, x |-> x, par |-> par]) = g[N]
  <2>1. f[N] = {g[N]}
    BY <1>1, <1>10, OneRun
  <2>2. (CHOOSE z \in {g[N]}: TRUE) = g[N]
    OBVIOUS
  <2>3. QED BY <1>3, <1>9, <2>1, <2>2
<1>12. RemoveRun(t, x, par, M, key, g)
  BY <1>0, <1>5, <1>11 DEF N, RemoveRun, Step
<1>13. QED BY <1>12

(* The loop of DSK_RBTREE_REMOVE ends, and the tree is a red-black tree. *)
LEMMA RemoveLoopIs ==
  ASSUME NEW key \in [Nodes -> Nat], NEW M, NEW t, NEW x, NEW par, M \in SUBSET Nodes,
         t \in Trees, x \in M \cup {NULL}, par \in M \cup {NULL}, Missing(t, M, key, x, par),
         NEW r, r = Loop(RemoveFixup, [tree |-> t, x |-> x, par |-> par])
  PROVE  GoodTree(SetIsRed(Tree(r), XOf(r), FALSE), M, key)
<1> DEFINE N == Cardinality(Nodes)
           S == RemoveStates(M, key)
           T == {st \in S: Filled(Tree(st), XOf(st))}
           left == [st \in S |-> HowFar(st)]
           start == [tree |-> t, x |-> x, par |-> par]
<1>1. start \in S
  <2>1. start \in [x: Nodes \cup {NULL}, par: Nodes \cup {NULL}, tree: Trees]
    OBVIOUS
  <2>2. start.x = x /\ start.par = par /\ start.tree = t
    OBVIOUS
  <2> HIDE DEF start
  <2>3. QED BY <2>1, <2>2 DEF RemoveStates
<1>2. PICK g: RemoveRun(t, x, par, M, key, g)
  BY <1>1, RemoveRuns
<1>3. /\ r = g[N] /\ g \in [0..N -> S]
      /\ \A i \in 1..N: g[i] = RemoveFixup(g[i - 1])
  BY <1>2 DEF RemoveRun
<1>4. N \in Nat
  BY NodesCount
<1>5. \A st \in S: HowFar(st) \in 0..N /\ (HowFar(st) = 0 => Filled(Tree(st), XOf(st)))
  <2> TAKE st \in S
  <2>1. Missing(Tree(st), M, key, XOf(st), ParOf(st))
    BY DEF RemoveStates, Tree, XOf, ParOf
  <2>2. PICK sub, h, d: Removing(Tree(st), M, sub, h, key, XOf(st), ParOf(st), d)
    BY <2>1 DEF Missing
  <2>3. CASE ParOf(st) = NULL
    <3>1. XOf(st) = Top(Tree(st)) /\ HowFar(st) = 0
      BY <2>2, <2>3 DEF Removing, HowFar
    <3>2. QED BY <1>4, <3>1 DEF Filled
  <2>4. CASE ParOf(st) # NULL
    <3>1. Shaped(Tree(st), M, sub, key) /\ ParOf(st) \in M
      BY <2>2, <2>4 DEF Removing
    <3>2. HowFar(st) = Cardinality(Ancestors(Tree(st), ParOf(st)))
      BY <2>4 DEF HowFar
    <3>3. Cardinality(Ancestors(Tree(st), ParOf(st))) \in 1..Cardinality(Nodes)
      BY <3>1, SomeAbove
    <3>4. QED BY <1>4, <3>2, <3>3
  <2>5. QED BY <2>3, <2>4
<1>6. left \in [S -> Nat] /\ \A st \in S: left[st] = HowFar(st)
  BY <1>4, <1>5
<1>7. T \in SUBSET S /\ \A st \in S: st \in T <=> Filled(Tree(st), XOf(st))
  OBVIOUS
<1>8. \A st \in S: RemoveStep(st, RemoveFixup(st), M, key)
  BY RemoveFixupIs
<1> HIDE DEF N, S, T, left
<1>9. \A i \in 0..N: g[i] \in S
  BY <1>3
<1>10. \A i \in 1..N: g[i - 1] \in S /\ g[i] \in S /\ RemoveStep(g[i - 1], g[i], M, key)
  BY <1>3, <1>4, <1>8, <1>9
<1>11. left[g[0]] <= N
  BY <1>4, <1>5, <1>6, <1>9
<1>12. \A i \in 1..N: (g[i - 1] \in T => g[i] \in T)
  BY <1>7, <1>10 DEF RemoveStep
<1>13. \A i \in 1..N: (g[i - 1] \notin T => g[i] \in T \/ left[g[i]] < left[g[i - 1]])
  BY <1>6, <1>7, <1>10 DEF RemoveStep
<1>14. \A st \in S: (left[st] = 0 => st \in T)
  BY <1>5, <1>6, <1>7
<1>15. left \in [S -> Nat] /\ T \in SUBSET S
  BY <1>6, <1>7
<1>16. g[N] \in T
  <2>1. N \in Nat
    BY <1>4
  <2>2. CountsDown(N, g, S, T, left)
    BY ONLY <1>9, <1>11, <1>12, <1>13, <1>14, <1>15, <2>1 DEF CountsDown
  <2>3. QED BY ONLY <2>2, RunArrives
<1>17. r \in S /\ Filled(Tree(r), XOf(r))
  BY <1>3, <1>7, <1>16
<1>18. /\ Missing(Tree(r), M, key, XOf(r), ParOf(r)) /\ Tree(r) \in Trees
       /\ XOf(r) \in Nodes \cup {NULL}
  BY <1>17 DEF S, RemoveStates, Tree, XOf, ParOf
<1>19. Blackened(Tree(r), SetIsRed(Tree(r), XOf(r), FALSE), XOf(r))
  BY <1>18, BlackenedIs
<1>20. QED BY <1>17, <1>18, <1>19, BlackenedSound

-----------------------------------------------------------------------------
(* Unlinking a node. *)

(* y, which has no child but x, leaves a tree of M; x takes its place. *)
Plucked(t, r, M, y, x) ==
  /\ r \in Trees /\ Top(r) = IF Top(t) = y THEN x ELSE Top(t)
  /\ \A n \in M \ {y}, e \in Sides: Kid(r, e, n) = IF Kid(t, e, n) = y THEN x ELSE Kid(t, e, n)
  /\ \A n \in M \ {y}: Par(r, n) = IF n = x THEN Par(t, y) ELSE Par(t, n)
  /\ \A n \in Nodes: (Red(r, n) <=> Red(t, n)) /\ Cnt(r, n) = Cnt(t, n)

OnlyKid(t, M, y, x, s) ==
  /\ y \in M /\ s \in Sides /\ x = Kid(t, s, y) /\ Kid(t, Mirror(s), y) = NULL

PluckTree(t, y, x) == SetParent(Replace(t, y, x), x, Par(t, y))

(* What unlinking a node with one child at most changes. *)
LEMMA PluckIs ==
  ASSUME NEW key \in [Nodes -> Nat], NEW t, NEW M, NEW sub, Shaped(t, M, sub, key),
         NEW y, NEW x, NEW s, OnlyKid(t, M, y, x, s)
  PROVE  Plucked(t, PluckTree(t, y, x), M, y, x)
<1>1. y \in M /\ s \in Sides /\ x = Kid(t, s, y) /\ Kid(t, Mirror(s), y) = NULL
  BY DEF OnlyKid
<1>2. M \in SUBSET Nodes /\ NULL \notin M /\ t \in Trees
  BY SubtreeOf
<1>3. y \in Nodes /\ x \in Nodes \cup {NULL} /\ Par(t, y) \in Nodes \cup {NULL}
  BY <1>1, <1>2, TreeFields
<1>4. PICK u: u = Replace(t, y, x) /\ Replaced(t, u, y, x)
  BY <1>2, <1>3, ReplaceIs
<1>5. PICK r: r = PluckTree(t, y, x) /\ ParentSet(u, r, x, Par(t, y))
  BY <1>3, <1>4, SetParentIs DEF Replaced, PluckTree
<1>6. /\ y = Top(t) <=> Par(t, y) = NULL
      /\ y # Top(t) => /\ Par(t, y) \in M /\ SideOf(t, y) \in Sides /\ Par(t, y) # y
                       /\ \A m \in M, d \in Sides:
                            Kid(t, d, m) = y <=> m = Par(t, y) /\ d = SideOf(t, y)
      /\ y = Top(t) => \A m \in M, d \in Sides: Kid(t, d, m) # y
  BY <1>1, SideIs
<1>7. \A n \in M, e \in Sides: (n = Par(t, y) /\ e = SideOf(t, y)) <=> Kid(t, e, n) = y
  BY <1>2, <1>6
<1>8. r \in Trees /\ Top(r) = IF Top(t) = y THEN x ELSE Top(t)
  BY <1>4, <1>5, <1>6 DEF Replaced, ParentSet
<1>9. \A n \in Nodes: (Red(r, n) <=> Red(t, n)) /\ Cnt(r, n) = Cnt(t, n)
  BY <1>4, <1>5 DEF Replaced, ParentSet
<1>10. \A n \in M \ {y}: Par(r, n) = IF n = x THEN Par(t, y) ELSE Par(t, n)
  BY <1>2, <1>4, <1>5 DEF Replaced, ParentSet
<1>11. \A n \in M \ {y}, e \in Sides: Kid(r, e, n) = IF Kid(t, e, n) = y THEN x ELSE Kid(t, e, n)
  BY <1>2, <1>4, <1>5, <1>7 DEF Replaced, ParentSet
<1>12. QED BY <1>5, <1>8, <1>9, <1>10, <1>11 DEF Plucked

(* A node with one child at most, and its subtree. *)
LEMMA OnlyKidIs ==
  ASSUME NEW key \in [Nodes -> Nat], NEW t, NEW M, NEW sub, Shaped(t, M, sub, key),
         NEW y, NEW x, NEW s, OnlyKid(t, M, y, x, s)
  PROVE  /\ y \in M /\ y # NULL /\ x # y /\ (x = NULL \/ x \in M) /\ s \in Sides
         /\ x # NULL => Par(t, x) = y /\ x # Top(t)
         /\ \A e \in Sides: Kid(t, e, y) = x \/ Kid(t, e, y) = NULL
         /\ Kid(t, s, y) = x
         /\ \A m \in M: m \in sub[y] <=> m = y \/ m \in Below(sub, x)
         /\ y \notin Below(sub, x)
<1>1. y \in M /\ s \in Sides /\ x = Kid(t, s, y) /\ Kid(t, Mirror(s), y) = NULL
  BY DEF OnlyKid
<1>2. M \in SUBSET Nodes /\ NULL \notin M
  BY SubtreeOf
<1>3. PICK o \in Sides: o = Mirror(s) /\ o # s /\ (\A e \in Sides: e = s \/ e = o)
  BY <1>1, SideFacts
<1>4. x # NULL => x \in M /\ Par(t, x) = y /\ x # y /\ x # Top(t) /\ y \notin sub[x]
  BY <1>1, KidFacts
<1>5. \A m \in M: m \in sub[y] <=> (m = y \/ \E e \in Sides: m \in Below(sub, Kid(t, e, y)))
  BY <1>1 DEF Shaped, Subtrees
<1>6. Below(sub, Kid(t, o, y)) = {} /\ Below(sub, Kid(t, s, y)) = Below(sub, x)
  BY <1>1, <1>3 DEF Below
<1>7. \A m \in M: m \in sub[y] <=> m = y \/ m \in Below(sub, x)
  BY <1>1, <1>3, <1>5, <1>6
<1>8. y \notin Below(sub, x)
  BY <1>4 DEF Below
<1>9. \A e \in Sides: Kid(t, e, y) = x \/ Kid(t, e, y) = NULL
  BY <1>1, <1>3
<1>10. QED BY <1>1, <1>2, <1>4, <1>7, <1>8, <1>9

(* Without it the tree is a search tree of the other nodes. *)
LEMMA PluckedShaped ==
  ASSUME NEW key \in [Nodes -> Nat], NEW t, NEW M, NEW sub, Shaped(t, M, sub, key),
         NEW y, NEW x, NEW s, OnlyKid(t, M, y, x, s),
         NEW r, Plucked(t, r, M, y, x)
  PROVE  Shaped(r, M \ {y}, [n \in M \ {y} |-> sub[n] \ {y}], key)
<1> DEFINE N == M \ {y}
           sub2 == [n \in N |-> sub[n] \ {y}]
<1>1. /\ y \in M /\ y # NULL /\ x # y /\ (x = NULL \/ x \in M) /\ s \in Sides
      /\ x # NULL => Par(t, x) = y /\ x # Top(t)
      /\ \A e \in Sides: Kid(t, e, y) = x \/ Kid(t, e, y) = NULL
      /\ Kid(t, s, y) = x
      /\ \A m \in M: m \in sub[y] <=> m = y \/ m \in Below(sub, x)
      /\ y \notin Below(sub, x)
  BY OnlyKidIs
<1>2. M \in SUBSET Nodes /\ NULL \notin M /\ \A n \in M: n \in sub[n] /\ sub[n] \in SUBSET M
  BY SubtreeOf
<1>3. /\ r \in Trees /\ Top(r) = IF Top(t) = y THEN x ELSE Top(t)
      /\ \A n \in M \ {y}, e \in Sides: Kid(r, e, n) = IF Kid(t, e, n) = y THEN x ELSE Kid(t, e, n)
      /\ \A n \in M \ {y}: Par(r, n) = IF n = x THEN Par(t, y) ELSE Par(t, n)
  BY DEF Plucked
<1>4. /\ \A n \in N: sub2[n] = sub[n] \ {y} /\ sub2[n] \in SUBSET N
      /\ sub2 \in [N -> SUBSET N] /\ N \in SUBSET Nodes
  BY <1>2
<1>5. \A n: n \in N <=> n \in M /\ n # y
  OBVIOUS
<1> HIDE DEF N, sub2
<1>6. \A n \in M, e \in Sides: Kid(t, e, n) # NULL => Kid(t, e, n) \in M /\ Par(t, Kid(t, e, n)) = n
  BY DEF Shaped, KidsLink
<1>7. \A n \in N, e \in Sides: Below(sub2, Kid(r, e, n)) = Below(sub, Kid(t, e, n)) \ {y}
  <2> TAKE n \in N, e \in Sides
  <2>1. Kid(r, e, n) = IF Kid(t, e, n) = y THEN x ELSE Kid(t, e, n)
    BY <1>3, <1>5
  <2>2. CASE Kid(t, e, n) = y
    <3>1. Below(sub, Kid(t, e, n)) \ {y} = Below(sub, x)
      <4>1. Below(sub, y) = sub[y] /\ Below(sub, x) \in SUBSET M
        BY <1>1, <1>2 DEF Below
      <4>2. QED BY <1>1, <1>2, <2>2, <4>1
    <3>2. Below(sub2, x) = Below(sub, x)
      <4>1. CASE x = NULL
        BY <4>1 DEF Below
      <4>2. CASE x # NULL
        <5>1. x \in N /\ y \notin sub[x] /\ Below(sub, x) = sub[x] /\ Below(sub2, x) = sub2[x]
          BY <1>1, <1>5, <4>2 DEF Below
        <5>2. QED BY <1>4, <5>1
      <4>3. QED BY <4>1, <4>2
    <3>3. QED BY <2>1, <2>2, <3>1, <3>2
  <2>3. CASE Kid(t, e, n) # y /\ Kid(t, e, n) # NULL
    <3>1. Kid(t, e, n) \in N
      BY <1>5, <1>6, <2>3
    <3>2. QED BY <1>4, <2>1, <2>3, <3>1 DEF Below
  <2>4. CASE Kid(t, e, n) # y /\ Kid(t, e, n) = NULL
    BY <2>1, <2>4 DEF Below
  <2>5. QED BY <2>2, <2>3, <2>4
<1>8. TypedTree(r, N, sub2)
  <2>1. \A n \in Nodes: Cnt(r, n) = 0
    BY DEF Plucked, Shaped, TypedTree
  <2>2. QED BY <1>3, <1>4, <2>1 DEF TypedTree
<1>9. TopIs(r, N, sub2)
  <2>1. Top(t) # NULL /\ Top(t) \in M /\ sub[Top(t)] = M /\ Par(t, Top(t)) = NULL
    BY <1>1 DEF Shaped, TopIs
  <2>2. CASE Top(t) = y
    <3>1. \A m \in M: m = y \/ m \in Below(sub, x)
      BY <1>1, <2>1, <2>2
    <3>2. CASE x = NULL
      <4>1. N = {}
        BY <1>5, <3>1, <3>2 DEF Below
      <4>2. QED BY <1>3, <2>2, <3>2, <4>1 DEF TopIs
    <3>3. CASE x # NULL
      <4>1. x \in N /\ Par(r, x) = NULL
        BY <1>1, <1>3, <1>5, <2>1, <2>2, <3>3
      <4>2. sub2[x] = N
        <5>1. sub[x] = Below(sub, x)
          BY <3>3 DEF Below
        <5>2. sub2[x] = sub[x] \ {y}
          BY <1>4, <4>1
        <5>3. \A m \in N: m \in sub2[x]
          BY <1>5, <3>1, <5>1, <5>2
        <5>4. sub2[x] \in SUBSET N
          BY <1>4, <4>1
        <5>5. QED BY <5>3, <5>4
      <4>3. QED BY <1>3, <2>2, <3>3, <4>1, <4>2 DEF TopIs
    <3>4. QED BY <3>2, <3>3
  <2>3. CASE Top(t) # y
    <3>1. Top(r) = Top(t) /\ Top(t) \in N /\ Top(t) # x
      BY <1>1, <1>3, <1>5, <2>1, <2>3
    <3>2. Par(r, Top(t)) = NULL
      BY <1>3, <1>5, <2>1, <3>1
    <3>3. sub2[Top(t)] = N
      <4>1. sub2[Top(t)] = M \ {y}
        BY <1>4, <2>1, <3>1
      <4>2. QED BY <4>1 DEF N
    <3>4. QED BY <2>1, <3>1, <3>2, <3>3 DEF TopIs
  <2>4. QED BY <2>2, <2>3
<1>10. ParentsLink(r, N)
  <2> SUFFICES ASSUME NEW n \in N, n # Top(r)
               PROVE  Par(r, n) \in N /\ \E d \in Sides: Kid(r, d, Par(r, n)) = n
    BY DEF ParentsLink
  <2>0. n \in M /\ n # y /\ n # NULL
    BY <1>2, <1>5
  <2>1. CASE n = x
    <3>1. y # Top(t)
      BY <1>3, <2>1
    <3>2. Par(t, y) \in M /\ Par(t, y) # y /\ SideOf(t, y) \in Sides /\ Kid(t, SideOf(t, y), Par(t, y)) = y
      BY <1>1, <3>1, SideIs
    <3>3. QED BY <1>3, <1>5, <2>0, <2>1, <3>2
  <2>2. CASE n # x
    <3>1. n # Top(t)
      BY <1>3, <2>0
    <3>2. PICK p \in M, d \in Sides: p = Par(t, n) /\ Kid(t, d, p) = n
      BY <2>0, <3>1 DEF Shaped, ParentsLink
    <3>3. p # y
      BY <1>1, <2>0, <2>2, <3>2
    <3>4. QED BY <1>3, <1>5, <2>0, <2>2, <3>2, <3>3
  <2>3. QED BY <2>1, <2>2
<1>11. KidsLink(r, N)
  <2> SUFFICES ASSUME NEW n \in N, NEW d \in Sides, Kid(r, d, n) # NULL
               PROVE  Kid(r, d, n) \in N /\ Par(r, Kid(r, d, n)) = n
    BY DEF KidsLink
  <2>0. n \in M /\ n # y
    BY <1>5
  <2>1. Kid(r, d, n) = IF Kid(t, d, n) = y THEN x ELSE Kid(t, d, n)
    BY <1>3, <2>0
  <2>2. CASE Kid(t, d, n) = y
    <3>1. Par(t, y) = n
      BY <1>1, <1>6, <2>0, <2>2
    <3>2. QED BY <1>1, <1>3, <1>5, <2>1, <2>2, <3>1
  <2>3. CASE Kid(t, d, n) # y
    <3>1. PICK c: c = Kid(t, d, n) /\ c = Kid(r, d, n) /\ c # NULL /\ c # y
      BY <2>1, <2>3
    <3>2. c \in M /\ Par(t, c) = n /\ c \in N
      BY <1>5, <1>6, <2>0, <3>1
    <3>3. c # x
      BY <1>1, <2>0, <3>1, <3>2
    <3>4. QED BY <1>3, <1>5, <3>1, <3>2, <3>3
  <2>4. QED BY <2>2, <2>3
<1>12. Subtrees(r, N, sub2)
  <2> SUFFICES ASSUME NEW n \in N, NEW m \in N
               PROVE  m \in sub2[n] <=> (m = n \/ \E d \in Sides: m \in Below(sub2, Kid(r, d, n)))
    BY DEF Subtrees
  <2>1. m \in sub[n] <=> (m = n \/ \E d \in Sides: m \in Below(sub, Kid(t, d, n)))
    BY <1>5 DEF Shaped, Subtrees
  <2>2. QED BY <1>4, <1>5, <1>7, <2>1
<1>13. InOrder(r, N, sub2, key)
  <2>1. \A n \in M, e \in Sides: \A m \in Below(sub, Kid(t, e, n)): OnSide(key, e, m, n)
    BY DEF Shaped, InOrder
  <2>2. QED BY <1>5, <1>7, <2>1 DEF InOrder
<1>14. Shaped(r, N, sub2, key)
  BY <1>8, <1>9, <1>10, <1>11, <1>12, <1>13 DEF Shaped
<1>15. QED BY <1>14 DEF N, sub2

(* Where x then hangs. *)
XHangs(t, M, y, par, d) ==
  /\ par = Par(t, y) /\ d \in Sides /\ y # par
  /\ par = NULL => y = Top(t)
  /\ par # NULL => par \in M /\ y # Top(t)
  /\ \A n \in M, e \in Sides: Kid(t, e, n) = y <=> n = par /\ e = d

(* What hangs in its place is on some side of its parent. *)
LEMMA XHangsSome ==
  ASSUME NEW key \in [Nodes -> Nat], NEW t, NEW M, NEW sub, Shaped(t, M, sub, key), NEW y \in M
  PROVE  \E d: XHangs(t, M, y, Par(t, y), d)
<1>1. M \in SUBSET Nodes /\ NULL \notin M
  BY SubtreeOf
<1>2. CASE y = Top(t)
  <2>1. Par(t, y) = NULL /\ \A n \in M, e \in Sides: Kid(t, e, n) # y
    BY <1>2, SideIs
  <2>2. "left" \in Sides
    BY DEF Sides
  <2>3. XHangs(t, M, y, Par(t, y), "left")
    BY <1>1, <1>2, <2>1, <2>2 DEF XHangs
  <2>4. QED BY <2>3
<1>3. CASE y # Top(t)
  <2>1. /\ Par(t, y) \in M /\ SideOf(t, y) \in Sides /\ Par(t, y) # y
        /\ \A n \in M, e \in Sides: Kid(t, e, n) = y <=> n = Par(t, y) /\ e = SideOf(t, y)
    BY <1>3, SideIs
  <2>2. XHangs(t, M, y, Par(t, y), SideOf(t, y))
    BY <1>1, <1>3, <2>1 DEF XHangs
  <2>3. QED BY <2>2
<1>4. QED BY <1>2, <1>3

(* If y was black, one black node is now missing above x; if it was red, *)
(* none is. *)
LEMMA PluckedIs ==
  ASSUME NEW key \in [Nodes -> Nat], NEW t, NEW M, NEW sub, NEW h, Sound(t, M, sub, h, key),
         NEW y, NEW x, NEW s, OnlyKid(t, M, y, x, s),
         NEW r, Plucked(t, r, M, y, x)
  PROVE  \E sub2, h2, d: IF Red(t, y) THEN Sound(r, M \ {y}, sub2, h2, key)
                         ELSE Removing(r, M \ {y}, sub2, h2, key, x, Par(t, y), d)
<1> DEFINE N == M \ {y}
           h2 == [n \in N |-> h[n]]
<1>1. Shaped(t, M, sub, key) /\ Heights(t, M, h, NULL, "left") /\ RedPairs(t, M, NULL, NULL) /\ ~IsRed(t, Top(t))
  BY DEF Sound
<1>2. /\ y \in M /\ y # NULL /\ x # y /\ (x = NULL \/ x \in M) /\ s \in Sides
      /\ x # NULL => Par(t, x) = y /\ x # Top(t)
      /\ Kid(t, s, y) = x
  BY <1>1, OnlyKidIs
<1>3. M \in SUBSET Nodes /\ NULL \notin M
  BY <1>1, SubtreeOf
<1>4. /\ r \in Trees /\ Top(r) = IF Top(t) = y THEN x ELSE Top(t)
      /\ \A n \in M \ {y}, e \in Sides: Kid(r, e, n) = IF Kid(t, e, n) = y THEN x ELSE Kid(t, e, n)
      /\ \A n \in M: Red(r, n) <=> Red(t, n)
  BY <1>3 DEF Plucked
<1>5. PICK sub2: Shaped(r, N, sub2, key)
  BY <1>1, PluckedShaped
<1>6. PICK par, d: par = Par(t, y) /\ XHangs(t, M, y, par, d)
  BY <1>1, <1>2, XHangsSome
<1>7. /\ d \in Sides /\ y # par /\ (par = NULL => y = Top(t))
      /\ par # NULL => par \in M /\ y # Top(t)
      /\ \A n \in M, e \in Sides: Kid(t, e, n) = y <=> n = par /\ e = d
  BY <1>6 DEF XHangs
<1>8. /\ h \in [M -> Nat]
      /\ \A n \in M, e \in Sides: h[n] = Ht(h, Kid(t, e, n)) + Wt(t, n) /\ h[n] \in Nat
                                  /\ Ht(h, Kid(t, e, n)) \in Nat
      /\ \A n \in M: Wt(t, n) = IF Red(t, n) THEN 0 ELSE 1
  BY <1>1, HeightsAre
<1>9. h2 \in [N -> Nat] /\ \A n \in N: h2[n] = h[n]
  BY <1>8
<1>10. \A n: n \in N <=> n \in M /\ n # y
  OBVIOUS
<1> HIDE DEF N, h2
<1>11. \A n \in M, e \in Sides: Kid(t, e, n) = NULL \/ Kid(t, e, n) \in M
  BY <1>1 DEF Shaped, KidsLink
<1>12. \A n \in N, e \in Sides: /\ Ht(h2, Kid(r, e, n)) = Ht(h, IF Kid(t, e, n) = y THEN x ELSE Kid(t, e, n))
                                /\ Wt(r, n) = Wt(t, n)
  <2> TAKE n \in N, e \in Sides
  <2>1. PICK c: c = Kid(r, e, n) /\ c = IF Kid(t, e, n) = y THEN x ELSE Kid(t, e, n)
    BY <1>4, <1>10
  <2>2. c = NULL \/ c \in N
    BY <1>2, <1>10, <1>11, <2>1
  <2>3. Ht(h2, c) = Ht(h, c)
    BY <1>9, <2>2 DEF Ht
  <2>4. QED BY <1>4, <1>10, <2>1, <2>3 DEF Wt
<1>13. Ht(h, y) = Ht(h, x) + Wt(t, y) /\ Ht(h, x) \in Nat
  <2>1. Ht(h, y) = h[y]
    BY <1>2 DEF Ht
  <2>2. QED BY <1>2, <1>8, <2>1
<1>14. CASE Red(t, y)
  <2>1. Wt(t, y) = 0 /\ y # Top(t) /\ par # NULL
    BY <1>1, <1>2, <1>7, <1>8, <1>14, IsRedIs
  <2>2. Heights(r, N, h2, NULL, "left")
    <3> SUFFICES ASSUME NEW n \in N, NEW e \in Sides
                 PROVE  h2[n] = Ht(h2, Kid(r, e, n)) + Wt(r, n) + Short(n, e, NULL, "left")
      BY <1>9 DEF Heights
    <3>1. Short(n, e, NULL, "left") = 0
      BY <1>3, <1>10 DEF Short
    <3>2. n \in M /\ h[n] = Ht(h, Kid(t, e, n)) + Wt(t, n) /\ Ht(h, Kid(t, e, n)) \in Nat /\ Wt(t, n) \in Nat
      BY <1>8, <1>10
    <3>3. Ht(h2, Kid(r, e, n)) = Ht(h, Kid(t, e, n))
      BY <1>12, <1>13, <2>1
    <3>4. QED BY <1>9, <1>12, <3>1, <3>2, <3>3
  <2>3. RedPairs(r, N, NULL, NULL)
    <3> SUFFICES ASSUME NEW n \in N, NEW e \in Sides, Red(r, n), IsRed(r, Kid(r, e, n)) PROVE FALSE
      BY DEF RedPairs
    <3>1. n \in M /\ Red(t, n) /\ n # y
      BY <1>4, <1>10
    <3>2. Kid(t, e, n) # y
      <4>1. IsRed(t, y)
        BY <1>2, <1>14, IsRedIs
      <4>2. n # NULL
        BY <1>3, <3>1
      <4>3. QED BY <1>1, <1>2, <3>1, <4>1, <4>2 DEF RedPairs
    <3>3. Kid(r, e, n) = Kid(t, e, n) /\ Kid(t, e, n) \in M
      BY <1>4, <1>11, <3>1, <3>2, IsRedIs
    <3>4. IsRed(t, Kid(t, e, n)) /\ n # NULL /\ Kid(t, e, n) # NULL
      BY <1>3, <1>4, <3>1, <3>3, IsRedIs
    <3>5. QED BY <1>1, <3>1, <3>4 DEF RedPairs
  <2>4. ~IsRed(r, Top(r))
    <3>1. Top(r) = Top(t) /\ (Top(t) = NULL \/ Top(t) \in M)
      BY <1>1, <1>4, <2>1, SubtreeOf
    <3>2. QED BY <1>1, <1>4, <3>1, IsRedIs
  <2>5. Sound(r, N, sub2, h2, key)
    BY <1>5, <2>2, <2>3, <2>4 DEF Sound
  <2>6. QED BY <1>14, <2>5 DEF N
<1>15. CASE ~Red(t, y)
  <2>1. Wt(t, y) = 1
    BY <1>2, <1>8, <1>15
  <2>2. Heights(r, N, h2, par, d)
    <3> SUFFICES ASSUME NEW n \in N, NEW e \in Sides
                 PROVE  h2[n] = Ht(h2, Kid(r, e, n)) + Wt(r, n) + Short(n, e, par, d)
      BY <1>9 DEF Heights
    <3>1. Short(n, e, par, d) = IF Kid(t, e, n) = y THEN 1 ELSE 0
      BY <1>7, <1>10 DEF Short
    <3>2. n \in M /\ h[n] = Ht(h, Kid(t, e, n)) + Wt(t, n) /\ Ht(h, Kid(t, e, n)) \in Nat /\ Wt(t, n) \in Nat
      BY <1>8, <1>10
    <3>3. Ht(h2, Kid(r, e, n)) = IF Kid(t, e, n) = y THEN Ht(h, x) ELSE Ht(h, Kid(t, e, n))
      BY <1>12
    <3>4. CASE Kid(t, e, n) = y
      <4>1. h[n] = Ht(h, x) + 1 + Wt(t, n)
        BY <1>13, <2>1, <3>2, <3>4
      <4>2. QED BY <1>9, <1>12, <1>13, <3>1, <3>2, <3>3, <3>4, <4>1
    <3>5. CASE Kid(t, e, n) # y
      BY <1>9, <1>12, <3>1, <3>2, <3>3, <3>5
    <3>6. QED BY <3>4, <3>5
  <2>3. RedPairs(r, N, x, x)
    <3> SUFFICES ASSUME NEW n \in N, NEW e \in Sides, Red(r, n), IsRed(r, Kid(r, e, n)), Kid(r, e, n) # x
                 PROVE FALSE
      BY DEF RedPairs
    <3>1. n \in M /\ Red(t, n) /\ n # y
      BY <1>4, <1>10
    <3>2. Kid(r, e, n) = Kid(t, e, n) /\ Kid(t, e, n) \in M
      BY <1>4, <1>11, <3>1, IsRedIs
    <3>3. IsRed(t, Kid(t, e, n)) /\ n # NULL /\ Kid(t, e, n) # NULL
      BY <1>3, <1>4, <3>1, <3>2, IsRedIs
    <3>4. QED BY <1>1, <3>1, <3>3 DEF RedPairs
  <2>4. TopBlack(r, x)
    <3> SUFFICES ASSUME IsRed(r, Top(r)), Top(r) # x PROVE FALSE
      BY DEF TopBlack
    <3>1. Top(r) = Top(t) /\ (Top(t) = NULL \/ Top(t) \in M)
      BY <1>1, <1>4, SubtreeOf
    <3>2. QED BY <1>1, <1>4, <3>1, IsRedIs
  <2>5. /\ par = NULL => x = Top(r)
        /\ par # NULL => par \in N /\ Kid(r, d, par) = x
    BY <1>4, <1>7, <1>10
  <2>6. Removing(r, N, sub2, h2, key, x, par, d)
    BY <1>5, <1>7, <2>2, <2>3, <2>4, <2>5 DEF Removing
  <2>7. QED BY <1>6, <1>15, <2>6 DEF N
<1>16. QED BY <1>14, <1>15

-----------------------------------------------------------------------------
(* A node in the place of another. *)

(* y, no node of a tree of M, takes the place of z. *)
Put(c, z, y) == IF c = z THEN y ELSE c
TookPlace(t, r, M, z, y) ==
  /\ r \in Trees /\ Top(r) = Put(Top(t), z, y)
  /\ \A n \in M \ {z}, e \in Sides: Kid(r, e, n) = Put(Kid(t, e, n), z, y)
  /\ \A e \in Sides: Kid(r, e, y) = Kid(t, e, z)
  /\ \A n \in M \ {z}: Par(r, n) = Put(Par(t, n), z, y)
  /\ Par(r, y) = Par(t, z) /\ (Red(r, y) <=> Red(t, z))
  /\ \A n \in M \ {z}: Red(r, n) <=> Red(t, n)
  /\ \A n \in Nodes: Cnt(r, n) = Cnt(t, n)

(* What is said of M's nodes holds of N's, with y for z. *)
Swapped(M, N, z, y) ==
  /\ M \in SUBSET Nodes /\ N \in SUBSET Nodes /\ NULL \notin M /\ NULL \notin N
  /\ z \in M /\ y \in N /\ y \notin M /\ z \notin N
  /\ \A n \in N: Put(n, y, z) \in M /\ Put(Put(n, y, z), z, y) = n /\ (n # y => n \in M \ {z})
  /\ \A m \in M: Put(m, z, y) \in N /\ Put(Put(m, z, y), y, z) = m
  /\ Put(NULL, z, y) = NULL /\ Put(NULL, y, z) = NULL

(* One node for another. *)
LEMMA SwappedIs ==
  ASSUME NEW M \in SUBSET Nodes, NEW z \in M, NEW y \in Nodes, y \notin M
  PROVE  Swapped(M, (M \ {z}) \cup {y}, z, y)
BY SideFacts DEF Swapped, Put

LinksSwapped(t, r, M, N, z, y) ==
  /\ r \in Trees /\ Top(r) = Put(Top(t), z, y)
  /\ \A n \in N, e \in Sides: Kid(r, e, n) = Put(Kid(t, e, Put(n, y, z)), z, y)
  /\ \A n \in N: Par(r, n) = Put(Par(t, Put(n, y, z)), z, y)
  /\ \A n \in N: Red(r, n) <=> Red(t, Put(n, y, z))
  /\ \A n \in Nodes: Cnt(r, n) = Cnt(t, n)

(* A node that takes the place of another gets all its links. *)
LEMMA LinksSwap ==
  ASSUME NEW key \in [Nodes -> Nat], NEW t, NEW M, NEW sub, Shaped(t, M, sub, key),
         NEW N, NEW z, NEW y, Swapped(M, N, z, y),
         NEW r, TookPlace(t, r, M, z, y)
  PROVE  LinksSwapped(t, r, M, N, z, y)
<1>1. z \in M /\ y \in N /\ \A n \in N: n # y => n \in M \ {z}
  BY DEF Swapped
<1>2. Par(t, z) # z
  <2>1. z = Top(t) => Par(t, z) = NULL
    BY <1>1, SideIs
  <2>2. z # Top(t) => Par(t, z) # z
    BY <1>1, SideIs
  <2>3. z # NULL
    BY <1>1 DEF Swapped
  <2>4. QED BY <2>1, <2>2, <2>3
<1>3. ASSUME NEW e \in Sides PROVE Kid(t, e, z) # z
  <2>1. Kid(t, e, z) # NULL => Kid(t, e, z) # z
    BY <1>1, KidFacts
  <2>2. z # NULL
    BY <1>1 DEF Swapped
  <2>3. QED BY <2>1, <2>2
<1>4. ASSUME NEW n \in N, NEW e \in Sides
      PROVE  /\ Kid(r, e, n) = Put(Kid(t, e, Put(n, y, z)), z, y)
             /\ Par(r, n) = Put(Par(t, Put(n, y, z)), z, y)
             /\ Red(r, n) <=> Red(t, Put(n, y, z))
  <2>1. CASE n = y
    BY <1>2, <1>3, <2>1 DEF TookPlace, Put
  <2>2. CASE n # y
    <3>1. Put(n, y, z) = n /\ n \in M \ {z}
      BY <1>1, <2>2 DEF Put
    <3>2. QED BY <3>1 DEF TookPlace
  <2>3. QED BY <2>1, <2>2
<1>5. "left" \in Sides
  BY DEF Sides
<1>6. r \in Trees /\ Top(r) = Put(Top(t), z, y) /\ \A n \in Nodes: Cnt(r, n) = Cnt(t, n)
  BY DEF TookPlace
<1>7. QED BY <1>4, <1>5, <1>6 DEF LinksSwapped

(* y compares with the others as z does. *)
StandsFor(key, M, z, y) ==
  \A m \in M \ {z}, e \in Sides: OnSide(key, e, m, z) => OnSide(key, e, m, y)

SwappedSub(sub, N, z, y) == [n \in N |-> {m \in N: Put(m, y, z) \in sub[Put(n, y, z)]}]

(* The tree is a search tree if the node compares as the other did. *)
LEMMA SwappedShaped ==
  ASSUME NEW key \in [Nodes -> Nat], NEW t, NEW M, NEW sub, Shaped(t, M, sub, key),
         NEW N, NEW z, NEW y, Swapped(M, N, z, y), StandsFor(key, M, z, y),
         NEW r, LinksSwapped(t, r, M, N, z, y)
  PROVE  Shaped(r, N, SwappedSub(sub, N, z, y), key)
<1> DEFINE sub2 == SwappedSub(sub, N, z, y)
           B(n) == Put(n, y, z)
           R(m) == Put(m, z, y)
<1>1. /\ M \in SUBSET Nodes /\ N \in SUBSET Nodes /\ NULL \notin M /\ NULL \notin N
      /\ z \in M /\ y \in N /\ y \notin M /\ z \notin N
      /\ \A n \in N: B(n) \in M /\ R(B(n)) = n
      /\ \A m \in M: R(m) \in N /\ B(R(m)) = m
      /\ R(NULL) = NULL /\ B(NULL) = NULL
  BY DEF Swapped
<1>2. /\ r \in Trees /\ Top(r) = R(Top(t))
      /\ \A n \in N, e \in Sides: Kid(r, e, n) = R(Kid(t, e, B(n)))
      /\ \A n \in N: Par(r, n) = R(Par(t, B(n)))
      /\ \A n \in Nodes: Cnt(r, n) = Cnt(t, n)
  BY DEF LinksSwapped
<1>3. /\ sub2 \in [N -> SUBSET N]
      /\ \A n \in N, m \in N: m \in sub2[n] <=> B(m) \in sub[B(n)]
      /\ \A n \in N: sub2[n] \in SUBSET N
  BY DEF SwappedSub
<1>4. \A n \in N: (n = y /\ B(n) = z) \/ (n \in M /\ n # y /\ n # z /\ B(n) = n)
  BY DEF Swapped, Put
<1> HIDE DEF sub2, B, R
<1>5. \A n \in M, e \in Sides: Kid(t, e, n) # NULL => Kid(t, e, n) \in M /\ Par(t, Kid(t, e, n)) = n
  BY DEF Shaped, KidsLink
<1>6. ASSUME NEW n \in N, NEW e \in Sides
      PROVE  /\ \A m \in N: m \in Below(sub2, Kid(r, e, n)) <=> B(m) \in Below(sub, Kid(t, e, B(n)))
             /\ Kid(r, e, n) # NULL => Kid(t, e, B(n)) # NULL /\ Kid(t, e, B(n)) \in M /\ Kid(r, e, n) \in N
  <2>1. PICK c: c = Kid(t, e, B(n)) /\ Kid(r, e, n) = R(c)
    BY <1>2
  <2>2. CASE c = NULL
    <3>1. Below(sub2, R(c)) = {} /\ Below(sub, c) = {}
      BY <1>1, <2>2 DEF Below
    <3>2. QED BY <1>1, <2>1, <2>2, <3>1
  <2>3. CASE c # NULL
    <3>1. c \in M /\ R(c) \in N /\ B(R(c)) = c /\ R(c) # NULL
      BY <1>1, <1>5, <2>1, <2>3
    <3>2. Below(sub2, R(c)) = sub2[R(c)] /\ Below(sub, c) = sub[c]
      BY <2>3, <3>1 DEF Below
    <3>3. QED BY <1>3, <2>1, <2>3, <3>1, <3>2
  <2>4. QED BY <2>2, <2>3
<1>7. TypedTree(r, N, sub2)
  <2>1. \A n \in Nodes: Cnt(t, n) = 0
    BY DEF Shaped, TypedTree
  <2>2. QED BY <1>1, <1>2, <1>3, <2>1 DEF TypedTree
<1>8. TopIs(r, N, sub2)
  <2>1. PICK p: p = Top(t) /\ Top(r) = R(p)
    BY <1>2
  <2>2. p # NULL /\ p \in M /\ sub[p] = M /\ Par(t, p) = NULL
    BY <1>1, <2>1 DEF Shaped, TopIs
  <2>3. R(p) \in N /\ B(R(p)) = p /\ R(p) # NULL
    BY <1>1, <2>2
  <2>4. Par(r, R(p)) = NULL
    BY <1>1, <1>2, <2>2, <2>3
  <2>5. sub2[R(p)] = N
    <3>1. \A m \in N: m \in sub2[R(p)]
      BY <1>1, <1>3, <2>2, <2>3
    <3>2. QED BY <1>3, <2>3, <3>1
  <2>6. QED BY <2>1, <2>3, <2>4, <2>5 DEF TopIs
<1>9. ParentsLink(r, N)
  <2> SUFFICES ASSUME NEW n \in N, n # Top(r)
               PROVE  Par(r, n) \in N /\ \E d \in Sides: Kid(r, d, Par(r, n)) = n
    BY DEF ParentsLink
  <2>1. B(n) \in M /\ R(B(n)) = n
    BY <1>1
  <2>2. B(n) # Top(t)
    BY <1>2, <2>1
  <2>3. PICK p \in M, d \in Sides: p = Par(t, B(n)) /\ Kid(t, d, p) = B(n)
    BY <2>1, <2>2 DEF Shaped, ParentsLink
  <2>4. R(p) \in N /\ B(R(p)) = p
    BY <1>1, <2>3
  <2>5. Kid(r, d, R(p)) = n /\ Par(r, n) = R(p)
    BY <1>2, <2>1, <2>3, <2>4
  <2>6. QED BY <2>3, <2>4, <2>5
<1>10. KidsLink(r, N)
  <2> SUFFICES ASSUME NEW n \in N, NEW d \in Sides, Kid(r, d, n) # NULL
               PROVE  Kid(r, d, n) \in N /\ Par(r, Kid(r, d, n)) = n
    BY DEF KidsLink
  <2>1. PICK c: c = Kid(t, d, B(n)) /\ Kid(r, d, n) = R(c) /\ c # NULL /\ c \in M /\ R(c) \in N
    BY <1>2, <1>6
  <2>2. B(n) \in M /\ R(B(n)) = n /\ B(R(c)) = c
    BY <1>1, <2>1
  <2>3. Par(t, c) = B(n)
    BY <1>5, <2>1, <2>2
  <2>4. QED BY <1>2, <2>1, <2>2, <2>3
<1>11. Subtrees(r, N, sub2)
  <2> SUFFICES ASSUME NEW n \in N, NEW m \in N
               PROVE  m \in sub2[n] <=> (m = n \/ \E d \in Sides: m \in Below(sub2, Kid(r, d, n)))
    BY DEF Subtrees
  <2>1. B(n) \in M /\ B(m) \in M /\ (B(m) = B(n) <=> m = n)
    BY <1>1
  <2>2. B(m) \in sub[B(n)] <=> (B(m) = B(n) \/ \E d \in Sides: B(m) \in Below(sub, Kid(t, d, B(n))))
    BY <2>1 DEF Shaped, Subtrees
  <2>3. \A d \in Sides: m \in Below(sub2, Kid(r, d, n)) <=> B(m) \in Below(sub, Kid(t, d, B(n)))
    BY <1>6
  <2>4. QED BY <1>3, <2>1, <2>2, <2>3
<1>12. InOrder(r, N, sub2, key)
  <2> SUFFICES ASSUME NEW n \in N, NEW e \in Sides, NEW m \in Below(sub2, Kid(r, e, n))
               PROVE  OnSide(key, e, m, n)
    BY DEF InOrder
  <2>1. m \in N
    <3>1. Kid(r, e, n) # NULL => Kid(r, e, n) \in N
      BY <1>6
    <3>2. QED BY <1>3, <3>1 DEF Below
  <2>2. B(m) \in Below(sub, Kid(t, e, B(n))) /\ B(n) \in M /\ B(m) \in M
    BY <1>1, <1>6, <2>1
  <2>3. OnSide(key, e, B(m), B(n))
    BY <2>2 DEF Shaped, InOrder
  <2>4. B(m) # B(n)
    <3>1. ~OnSide(key, e, B(n), B(n))
      BY <1>1, <2>2, OrderFacts
    <3>2. QED BY <2>3, <3>1
  <2>5. CASE n = y
    <3>1. B(n) = z /\ B(m) = m /\ m \in M \ {z}
      BY <1>4, <2>1, <2>4, <2>5, <1>1
    <3>2. QED BY <2>3, <2>5, <3>1 DEF StandsFor
  <2>6. CASE m = y
    <3>1. B(m) = z /\ B(n) = n /\ n \in M \ {z}
      BY <1>4, <2>4, <2>6, <1>1
    <3>2. PICK o \in Sides: o = Mirror(e) /\ Mirror(o) = e
      BY SideFacts
    <3>3. OnSide(key, o, n, z)
      BY <1>1, <2>3, <3>1, <3>2, OrderFacts
    <3>4. OnSide(key, o, n, y)
      BY <3>1, <3>3 DEF StandsFor
    <3>5. QED BY <1>1, <2>6, <3>2, <3>4, OrderFacts
  <2>7. CASE n # y /\ m # y
    <3>1. B(n) = n /\ B(m) = m
      BY <1>4, <2>1, <2>7
    <3>2. QED BY <2>3, <3>1
  <2>8. QED BY <2>5, <2>6, <2>7
<1>13. Shaped(r, N, sub2, key)
  BY <1>7, <1>8, <1>9, <1>10, <1>11, <1>12 DEF Shaped
<1>14. QED BY <1>13 DEF sub2

SwappedHeights(h, N, z, y) == [n \in N |-> h[Put(n, y, z)]]

(* The black heights are those of before. *)
LEMMA SwappedHeightsAre ==
  ASSUME NEW key \in [Nodes -> Nat], NEW t, NEW M, NEW sub, Shaped(t, M, sub, key),
         NEW N, NEW z, NEW y, Swapped(M, N, z, y),
         NEW r, LinksSwapped(t, r, M, N, z, y),
         NEW h, NEW p \in M \cup {NULL}, NEW d, Heights(t, M, h, p, d)
  PROVE  Heights(r, N, SwappedHeights(h, N, z, y), Put(p, z, y), d)
<1> DEFINE h2 == SwappedHeights(h, N, z, y)
           B(n) == Put(n, y, z)
           R(m) == Put(m, z, y)
<1>1. /\ NULL \notin M /\ NULL \notin N
      /\ \A n \in N: B(n) \in M /\ R(B(n)) = n
      /\ \A m \in M: R(m) \in N /\ B(R(m)) = m
      /\ R(NULL) = NULL /\ B(NULL) = NULL
  BY DEF Swapped
<1>2. /\ \A n \in N, e \in Sides: Kid(r, e, n) = R(Kid(t, e, B(n)))
      /\ \A n \in N: Red(r, n) <=> Red(t, B(n))
  BY DEF LinksSwapped
<1>3. h \in [M -> Nat] /\ \A n \in M, e \in Sides: h[n] = Ht(h, Kid(t, e, n)) + Wt(t, n) + Short(n, e, p, d)
  BY DEF Heights
<1>4. h2 \in [N -> Nat] /\ \A n \in N: h2[n] = h[B(n)]
  BY <1>1, <1>3 DEF SwappedHeights
<1> HIDE DEF h2, B, R
<1>5. \A n \in M, e \in Sides: Kid(t, e, n) = NULL \/ Kid(t, e, n) \in M
  BY DEF Shaped, KidsLink
<1>6. ASSUME NEW n \in N, NEW e \in Sides
      PROVE  h2[n] = Ht(h2, Kid(r, e, n)) + Wt(r, n) + Short(n, e, R(p), d)
  <2>1. PICK c: c = Kid(t, e, B(n)) /\ Kid(r, e, n) = R(c) /\ (c = NULL \/ c \in M)
    BY <1>1, <1>2, <1>5
  <2>2. Ht(h2, R(c)) = Ht(h, c)
    <3>1. CASE c = NULL
      BY <1>1, <3>1 DEF Ht
    <3>2. CASE c # NULL
      <4>1. c \in M /\ R(c) \in N /\ B(R(c)) = c /\ R(c) # NULL
        BY <1>1, <2>1, <3>2
      <4>2. QED BY <1>4, <3>2, <4>1 DEF Ht
    <3>3. QED BY <3>1, <3>2
  <2>3. Wt(r, n) = Wt(t, B(n))
    BY <1>2 DEF Wt
  <2>4. n = R(p) <=> B(n) = p
    BY <1>1
  <2>5. Short(n, e, R(p), d) = Short(B(n), e, p, d)
    BY <2>4 DEF Short
  <2>6. h[B(n)] = Ht(h, c) + Wt(t, B(n)) + Short(B(n), e, p, d)
    BY <1>1, <1>3, <2>1
  <2>7. QED BY <1>4, <2>1, <2>2, <2>3, <2>5, <2>6
<1>7. QED BY <1>4, <1>6 DEF Heights, h2, R

(* No red node gets a red child that had none. *)
LEMMA SwappedPairs ==
  ASSUME NEW key \in [Nodes -> Nat], NEW t, NEW M, NEW sub, Shaped(t, M, sub, key),
         NEW N, NEW z, NEW y, Swapped(M, N, z, y),
         NEW r, LinksSwapped(t, r, M, N, z, y),
         NEW x \in M \cup {NULL}, RedPairs(t, M, x, x)
  PROVE  RedPairs(r, N, Put(x, z, y), Put(x, z, y))
<1> DEFINE B(n) == Put(n, y, z)
           R(m) == Put(m, z, y)
<1>1. /\ NULL \notin M /\ NULL \notin N
      /\ \A n \in N: B(n) \in M /\ R(B(n)) = n
      /\ \A m \in M: R(m) \in N /\ B(R(m)) = m
      /\ R(NULL) = NULL /\ B(NULL) = NULL
  BY DEF Swapped
<1>2. /\ \A n \in N, e \in Sides: Kid(r, e, n) = R(Kid(t, e, B(n)))
      /\ \A n \in N: Red(r, n) <=> Red(t, B(n))
  BY DEF LinksSwapped
<1> HIDE DEF B, R
<1>3. \A n \in M, e \in Sides: Kid(t, e, n) = NULL \/ Kid(t, e, n) \in M
  BY DEF Shaped, KidsLink
<1>4. ASSUME NEW n \in N, NEW e \in Sides, Red(r, n), IsRed(r, Kid(r, e, n))
      PROVE  n = R(x) \/ Kid(r, e, n) = R(x)
  <2>1. PICK c: c = Kid(t, e, B(n)) /\ Kid(r, e, n) = R(c) /\ (c = NULL \/ c \in M)
    BY <1>1, <1>2, <1>3
  <2>2. c # NULL /\ c \in M /\ R(c) \in N /\ B(R(c)) = c
    BY <1>1, <1>4, <2>1, IsRedIs
  <2>3. Red(t, c) /\ Red(t, B(n))
    BY <1>2, <1>4, <2>1, <2>2, IsRedIs
  <2>4. IsRed(t, c)
    BY <2>2, <2>3, IsRedIs
  <2>5. B(n) = x \/ c = x
    BY <1>1, <2>1, <2>3, <2>4 DEF RedPairs
  <2>6. QED BY <1>1, <2>1, <2>2, <2>5
<1>5. QED BY <1>4 DEF RedPairs, R

(* The top is as red as it was. *)
LEMMA SwappedTop ==
  ASSUME NEW key \in [Nodes -> Nat], NEW t, NEW M, NEW sub, Shaped(t, M, sub, key),
         NEW N, NEW z, NEW y, Swapped(M, N, z, y),
         NEW r, LinksSwapped(t, r, M, N, z, y)
  PROVE  IsRed(r, Top(r)) <=> IsRed(t, Top(t))
<1> DEFINE B(n) == Put(n, y, z)
           R(m) == Put(m, z, y)
<1>1. /\ NULL \notin M /\ NULL \notin N
      /\ \A m \in M: R(m) \in N /\ B(R(m)) = m
      /\ R(NULL) = NULL /\ B(NULL) = NULL
  BY DEF Swapped
<1>2. Top(r) = R(Top(t)) /\ \A n \in N: Red(r, n) <=> Red(t, B(n))
  BY DEF LinksSwapped
<1> HIDE DEF B, R
<1>3. Top(t) = NULL \/ Top(t) \in M
  BY SubtreeOf
<1>4. QED BY <1>1, <1>2, <1>3, IsRedIs

(* A red-black tree stays one. *)
LEMMA SwappedSound ==
  ASSUME NEW key \in [Nodes -> Nat], NEW t, NEW M, NEW sub, NEW h, Sound(t, M, sub, h, key),
         NEW N, NEW z, NEW y, Swapped(M, N, z, y), StandsFor(key, M, z, y),
         NEW r, LinksSwapped(t, r, M, N, z, y)
  PROVE  GoodTree(r, N, key)
<1>1. Shaped(t, M, sub, key) /\ Heights(t, M, h, NULL, "left") /\ RedPairs(t, M, NULL, NULL) /\ ~IsRed(t, Top(t))
  BY DEF Sound
<1>2. Shaped(r, N, SwappedSub(sub, N, z, y), key)
  BY <1>1, SwappedShaped
<1>3. Put(NULL, z, y) = NULL
  BY DEF Swapped
<1>4. Heights(r, N, SwappedHeights(h, N, z, y), NULL, "left")
  <2>1. Heights(r, N, SwappedHeights(h, N, z, y), Put(NULL, z, y), "left")
    BY <1>1, SwappedHeightsAre
  <2>2. QED BY <1>3, <2>1
<1>5. RedPairs(r, N, NULL, NULL)
  <2>1. RedPairs(r, N, Put(NULL, z, y), Put(NULL, z, y))
    BY <1>1, SwappedPairs
  <2>2. QED BY <1>3, <2>1
<1>6. ~IsRed(r, Top(r))
  BY <1>1, SwappedTop
<1>7. Sound(r, N, SwappedSub(sub, N, z, y), SwappedHeights(h, N, z, y), key)
  BY <1>2, <1>4, <1>5, <1>6 DEF Sound
<1>8. QED BY <1>7 DEF GoodTree

(* A tree that lacks a black node lacks it where it did. *)
LEMMA SwappedMissing ==
  ASSUME NEW key \in [Nodes -> Nat], NEW t, NEW M, NEW sub, NEW h, NEW x, NEW par, NEW d,
         Removing(t, M, sub, h, key, x, par, d), par = NULL \/ par \in M, x = NULL \/ x \in M,
         NEW N, NEW z, NEW y, Swapped(M, N, z, y), StandsFor(key, M, z, y),
         NEW r, LinksSwapped(t, r, M, N, z, y)
  PROVE  Missing(r, N, key, Put(x, z, y), Put(par, z, y))
<1>1. /\ Shaped(t, M, sub, key) /\ Heights(t, M, h, par, d)
      /\ RedPairs(t, M, x, x) /\ TopBlack(t, x) /\ d \in Sides
      /\ par = NULL => x = Top(t)
      /\ par # NULL => par \in M /\ Kid(t, d, par) = x
  BY DEF Removing
<1>2. PICK x2, par2: x2 = Put(x, z, y) /\ par2 = Put(par, z, y)
  OBVIOUS
<1>3. Shaped(r, N, SwappedSub(sub, N, z, y), key)
  BY <1>1, SwappedShaped
<1>4. Heights(r, N, SwappedHeights(h, N, z, y), par2, d)
  BY <1>1, <1>2, SwappedHeightsAre
<1>5. RedPairs(r, N, x2, x2)
  BY <1>1, <1>2, SwappedPairs
<1>6. Top(r) = Put(Top(t), z, y)
  BY DEF LinksSwapped
<1>7. TopBlack(r, x2)
  <2>1. IsRed(r, Top(r)) => IsRed(t, Top(t))
    BY <1>1, SwappedTop
  <2>2. QED BY <1>1, <1>2, <1>6, <2>1 DEF TopBlack
<1>8. par2 = NULL => x2 = Top(r)
  <2>1. par2 = NULL => par = NULL
    BY <1>2 DEF Swapped
  <2>2. QED BY <1>1, <1>2, <1>6, <2>1
<1>9. par2 # NULL => par2 \in N /\ Kid(r, d, par2) = x2
  <2>1. par2 # NULL => par # NULL
    BY <1>2 DEF Swapped
  <2>2. par # NULL => par2 \in N /\ Put(par2, y, z) = par
    BY <1>1, <1>2 DEF Swapped
  <2>3. QED BY <1>1, <1>2, <2>1, <2>2 DEF LinksSwapped
<1>10. Removing(r, N, SwappedSub(sub, N, z, y), SwappedHeights(h, N, z, y), key, x2, par2, d)
  BY <1>1, <1>3, <1>4, <1>5, <1>7, <1>8, <1>9 DEF Removing
<1>11. QED BY <1>2, <1>10 DEF Missing

TakePlaceColours(t, z, y) == SetIsRed(t, y, t.is_red[z])
TakePlaceLinks(t, u, z, y) ==
  SetParent(
    SetParent(SetChild(SetParent(SetChild(u, y, "left", Kid(t, "left", z)), Kid(t, "left", z), y),
                       y, "right", Kid(t, "right", z)),
              Kid(t, "right", z), y),
    y, Par(t, z))

(* The assignments of TakePlace, one after the other. *)
LEMMA TakePlaceParts ==
  ASSUME NEW t, NEW z, NEW y, y # NULL
  PROVE  TakePlace(t, z, y) = TakePlaceLinks(t, Replace(TakePlaceColours(t, z, y), z, y), z, y)
BY DEF TakePlace, TakePlaceLinks, TakePlaceColours, SetParent, Kid, Par

Adopted(u, r, z, y, a, b, p) ==
  /\ r \in Trees /\ Top(r) = Top(u)
  /\ \A e \in Sides, n \in Nodes: Kid(r, e, n) = IF n = y THEN (IF e = "left" THEN a ELSE b) ELSE Kid(u, e, n)
  /\ \A n \in Nodes: Par(r, n) = IF n = y THEN p ELSE IF n = a \/ n = b THEN y ELSE Par(u, n)
  /\ \A n \in Nodes: Red(r, n) = Red(u, n) /\ Cnt(r, n) = Cnt(u, n)

(* What the assignments to the node's own links change. *)
LEMMA AdoptedIs ==
  ASSUME NEW t, NEW u \in Trees, NEW z, NEW y \in Nodes, NEW a \in Nodes \cup {NULL}, NEW b \in Nodes \cup {NULL},
         NEW p \in Nodes \cup {NULL}, a = Kid(t, "left", z), b = Kid(t, "right", z), p = Par(t, z)
  PROVE  Adopted(u, TakePlaceLinks(t, u, z, y), z, y, a, b, p)
<1>0. "left" \in Sides /\ "right" \in Sides /\ y \in Nodes \cup {NULL} /\ \A e \in Sides: e # "left" <=> e = "right"
  BY DEF Sides
<1>1. PICK u1: u1 = SetChild(u, y, "left", a) /\ ChildSet(u, u1, y, "left", a)
  BY <1>0, SetChildIs
<1>2. PICK u2: u2 = SetParent(u1, a, y) /\ ParentSet(u1, u2, a, y)
  BY <1>0, <1>1, SetParentIs DEF ChildSet
<1>3. PICK u3: u3 = SetChild(u2, y, "right", b) /\ ChildSet(u2, u3, y, "right", b)
  BY <1>0, <1>2, SetChildIs DEF ParentSet
<1>4. PICK u4: u4 = SetParent(u3, b, y) /\ ParentSet(u3, u4, b, y)
  BY <1>0, <1>3, SetParentIs DEF ChildSet
<1>5. PICK r: r = SetParent(u4, y, p) /\ ParentSet(u4, r, y, p)
  <2>1. u4 \in Trees
    BY <1>4 DEF ParentSet
  <2>2. ParentSet(u4, SetParent(u4, y, p), y, p)
    BY <1>0, <2>1, SetParentIs
  <2>3. QED BY <2>2
<1>6. r = TakePlaceLinks(t, u, z, y)
  BY <1>1, <1>2, <1>3, <1>4, <1>5 DEF TakePlaceLinks
<1>7. r \in Trees /\ Top(r) = Top(u)
  BY <1>1, <1>2, <1>3, <1>4, <1>5 DEF ChildSet, ParentSet
<1>8. \A n \in Nodes: Red(r, n) = Red(u, n) /\ Cnt(r, n) = Cnt(u, n)
  BY <1>1, <1>2, <1>3, <1>4, <1>5 DEF ChildSet, ParentSet
<1>9. \A n \in Nodes: Par(r, n) = IF n = y THEN p ELSE IF n = a \/ n = b THEN y ELSE Par(u, n)
  <2> TAKE n \in Nodes
  <2>1. Par(r, n) = IF n = y THEN p ELSE Par(u4, n)
    BY <1>5 DEF ParentSet
  <2>2. Par(u4, n) = IF n = b THEN y ELSE Par(u3, n)
    BY <1>4 DEF ParentSet
  <2>3. Par(u3, n) = Par(u2, n)
    BY <1>3 DEF ChildSet
  <2>4. Par(u2, n) = IF n = a THEN y ELSE Par(u1, n)
    BY <1>2 DEF ParentSet
  <2>5. Par(u1, n) = Par(u, n)
    BY <1>1 DEF ChildSet
  <2>6. QED BY ONLY <2>1, <2>2, <2>3, <2>4, <2>5
<1>10. \A e \in Sides, n \in Nodes: Kid(r, e, n) = IF n = y THEN (IF e = "left" THEN a ELSE b) ELSE Kid(u, e, n)
  <2> TAKE e \in Sides, n \in Nodes
  <2>1. Kid(r, e, n) = Kid(u4, e, n) /\ Kid(u4, e, n) = Kid(u3, e, n)
    BY <1>4, <1>5 DEF ParentSet
  <2>2. Kid(u3, e, n) = IF e = "right" /\ n = y THEN b ELSE Kid(u2, e, n)
    BY <1>3 DEF ChildSet
  <2>3. Kid(u2, e, n) = Kid(u1, e, n)
    BY <1>2 DEF ParentSet
  <2>4. Kid(u1, e, n) = IF e = "left" /\ n = y THEN a ELSE Kid(u, e, n)
    BY <1>1 DEF ChildSet
  <2>5. e # "left" <=> e = "right"
    BY <1>0
  <2>6. QED BY ONLY <2>1, <2>2, <2>3, <2>4, <2>5
<1>11. QED BY <1>6, <1>7, <1>8, <1>9, <1>10 DEF Adopted

(* TakePlace gives the node the place of the other. *)
LEMMA TakePlaceIs ==
  ASSUME NEW key \in [Nodes -> Nat], NEW t, NEW M, NEW sub, Shaped(t, M, sub, key),
         NEW z \in M, NEW y \in Nodes, y \notin M
  PROVE  TookPlace(t, TakePlace(t, z, y), M, z, y)
<1>1. M \in SUBSET Nodes /\ NULL \notin M /\ t \in Trees /\ z # y /\ y # NULL
  BY SubtreeOf, SideFacts
<1>2. PICK a \in M \cup {NULL}, b \in M \cup {NULL}, p \in M \cup {NULL}:
        a = Kid(t, "left", z) /\ b = Kid(t, "right", z) /\ p = Par(t, z)
  <2>1. "left" \in Sides /\ "right" \in Sides
    BY DEF Sides
  <2>2. \A e \in Sides: Kid(t, e, z) \in M \cup {NULL}
    BY DEF Shaped, KidsLink
  <2>3. Par(t, z) \in M \cup {NULL}
    <3>1. z = Top(t) => Par(t, z) = NULL
      BY SideIs
    <3>2. z # Top(t) => Par(t, z) \in M
      BY SideIs
    <3>3. QED BY <3>1, <3>2
  <2>4. QED BY <2>1, <2>2, <2>3
<1>3. PICK t0: t0 = TakePlaceColours(t, z, y) /\ ColourSet(t, t0, y, Red(t, z))
  <2>1. Red(t, z) \in BOOLEAN /\ y \in Nodes \cup {NULL}
    BY <1>1, TreeFields
  <2>2. TakePlaceColours(t, z, y) = SetIsRed(t, y, Red(t, z))
    BY DEF TakePlaceColours, Red
  <2>3. QED BY <1>1, <2>1, <2>2, SetIsRedIs
<1>4. PICK u: u = Replace(t0, z, y) /\ Replaced(t0, u, z, y)
  <2>1. t0 \in Trees /\ z \in Nodes /\ y \in Nodes \cup {NULL}
    BY <1>1, <1>3 DEF ColourSet
  <2>2. QED BY <2>1, ReplaceIs
<1>5. PICK r: r = TakePlace(t, z, y) /\ Adopted(u, r, z, y, a, b, p)
  <2>1. u \in Trees /\ a \in Nodes \cup {NULL} /\ b \in Nodes \cup {NULL} /\ p \in Nodes \cup {NULL}
    BY <1>1, <1>4 DEF Replaced
  <2>2. Adopted(u, TakePlaceLinks(t, u, z, y), z, y, a, b, p)
    BY <1>2, <2>1, AdoptedIs
  <2>3. TakePlace(t, z, y) = TakePlaceLinks(t, u, z, y)
    BY <1>1, <1>3, <1>4, TakePlaceParts
  <2>4. QED BY <2>2, <2>3
<1>6. /\ z = Top(t) <=> p = NULL
      /\ z # Top(t) => /\ p \in M /\ SideOf(t, z) \in Sides /\ p # z
                       /\ \A m \in M, d \in Sides: Kid(t, d, m) = z <=> m = p /\ d = SideOf(t, z)
      /\ z = Top(t) => \A m \in M, d \in Sides: Kid(t, d, m) # z
  BY <1>2, SideIs
<1>7. Par(t0, z) = p /\ (p # NULL => SideOf(t0, z) = SideOf(t, z))
  <2>1. Par(t0, z) = p
    BY <1>1, <1>2, <1>3 DEF ColourSet
  <2>2. "left" \in Sides
    BY DEF Sides
  <2>3. p # NULL => Kid(t0, "left", p) = Kid(t, "left", p)
    BY <1>1, <1>3, <2>2 DEF ColourSet
  <2>4. QED BY <1>2, <2>1, <2>3 DEF SideOf, Kid, Par
<1>8. \A n \in Nodes: /\ Red(u, n) = IF n = y THEN Red(t, z) ELSE Red(t, n)
                      /\ Cnt(u, n) = Cnt(t, n) /\ Par(u, n) = Par(t, n)
  BY <1>3, <1>4 DEF ColourSet, Replaced
<1>9. \A n \in M, e \in Sides: Kid(u, e, n) = IF Kid(t, e, n) = z THEN y ELSE Kid(t, e, n)
  <2> TAKE n \in M, e \in Sides
  <2>1. Kid(u, e, n) = IF n = p /\ e = SideOf(t0, z) THEN y ELSE Kid(t0, e, n)
    BY <1>1, <1>4, <1>7 DEF Replaced
  <2>2. Kid(t0, e, n) = Kid(t, e, n)
    BY <1>1, <1>3 DEF ColourSet
  <2>3. (n = p /\ e = SideOf(t0, z)) <=> Kid(t, e, n) = z
    BY <1>1, <1>6, <1>7
  <2>4. QED BY <2>1, <2>2, <2>3
<1>10. Top(u) = IF Top(t) = z THEN y ELSE Top(t)
  <2>1. Top(u) = IF p = NULL THEN y ELSE Top(t0)
    BY <1>4, <1>7 DEF Replaced
  <2>2. Top(t0) = Top(t)
    BY <1>3 DEF ColourSet
  <2>3. QED BY <1>6, <2>1, <2>2
<1>11. /\ r \in Trees /\ Top(r) = Put(Top(t), z, y)
       /\ \A n \in M \ {z}, e \in Sides: Kid(r, e, n) = Put(Kid(t, e, n), z, y)
       /\ \A e \in Sides: Kid(r, e, y) = Kid(t, e, z)
  <2>1. \A e \in Sides: e = "left" \/ e = "right"
    BY DEF Sides
  <2>2. \A n \in M: n \in Nodes /\ n # y
    BY <1>1
  <2>3. \A e \in Sides, n \in Nodes: Kid(r, e, n) = IF n = y THEN (IF e = "left" THEN a ELSE b) ELSE Kid(u, e, n)
    BY <1>5 DEF Adopted
  <2>4. r \in Trees /\ Top(r) = Top(u)
    BY <1>5 DEF Adopted
  <2>5. \A e \in Sides: Kid(r, e, y) = Kid(t, e, z)
    BY <1>2, <2>1, <2>3
  <2>6. \A n \in M \ {z}, e \in Sides: Kid(r, e, n) = Put(Kid(t, e, n), z, y)
    BY <1>9, <2>2, <2>3 DEF Put
  <2>7. QED BY <1>10, <2>4, <2>5, <2>6 DEF Put
<1>12. ASSUME NEW n \in M \ {z} PROVE (n = a \/ n = b) <=> Par(t, n) = z
  <2>1. "left" \in Sides /\ "right" \in Sides /\ \A e \in Sides: e = "left" \/ e = "right"
    BY DEF Sides
  <2>2. n # NULL /\ n \in M
    BY <1>1
  <2>3. \A e \in Sides: Kid(t, e, z) = n => Par(t, n) = z
    BY <2>2 DEF Shaped, KidsLink
  <2>4. Par(t, n) = z => n # Top(t)
    BY <1>1, <2>2, SideIs
  <2>5. n # Top(t) => \E e \in Sides: Kid(t, e, Par(t, n)) = n
    BY <2>2 DEF Shaped, ParentsLink
  <2>6. QED BY <1>2, <2>1, <2>3, <2>4, <2>5
<1>13. /\ \A n \in M \ {z}: Par(r, n) = Put(Par(t, n), z, y)
       /\ Par(r, y) = Par(t, z)
  <2>1. \A n \in Nodes: Par(r, n) = IF n = y THEN p ELSE IF n = a \/ n = b THEN y ELSE Par(u, n)
    BY <1>5 DEF Adopted
  <2>2. \A n \in M: n \in Nodes /\ n # y
    BY <1>1
  <2>3. QED BY <1>2, <1>8, <1>12, <2>1, <2>2 DEF Put
<1>14. /\ Red(r, y) <=> Red(t, z)
       /\ \A n \in M \ {z}: Red(r, n) <=> Red(t, n)
       /\ \A n \in Nodes: Cnt(r, n) = Cnt(t, n)
  <2>1. \A n \in Nodes: Red(r, n) = Red(u, n) /\ Cnt(r, n) = Cnt(u, n)
    BY <1>5 DEF Adopted
  <2>2. \A n \in M: n \in Nodes /\ n # y
    BY <1>1
  <2>3. QED BY <1>8, <2>1, <2>2
<1>15. TookPlace(t, r, M, z, y)
  BY <1>11, <1>13, <1>14 DEF TookPlace
<1>16. QED BY <1>5, <1>15

(* A node outside a subtree compares alike with all of the subtree. *)
LEMMA OutsideAlike ==
  ASSUME NEW key \in [Nodes -> Nat], NEW t, NEW M, NEW sub, Shaped(t, M, sub, key)
  PROVE  \A n \in M: \A m \in M, a \in M, b \in M, e \in Sides:
           m \notin sub[n] /\ a \in sub[n] /\ b \in sub[n] /\ OnSide(key, e, m, a) => OnSide(key, e, m, b)
<1> DEFINE Alike(n) == \A m \in M, a \in M, b \in M, e \in Sides:
             m \notin sub[n] /\ a \in sub[n] /\ b \in sub[n] /\ OnSide(key, e, m, a) => OnSide(key, e, m, b)
           B == {n \in M: ~Alike(n)}
<1> SUFFICES ASSUME B # {} PROVE FALSE
  OBVIOUS
<1>1. PICK n \in B: Par(t, n) \notin B
  <2>1. B \in SUBSET M
    OBVIOUS
  <2> HIDE DEF B
  <2>2. QED BY <2>1, HighestNode
<1>2. n \in M /\ ~Alike(n)
  OBVIOUS
<1>3. PICK m \in M, a \in M, b \in M, e \in Sides:
        m \notin sub[n] /\ a \in sub[n] /\ b \in sub[n] /\ OnSide(key, e, m, a) /\ ~OnSide(key, e, m, b)
  BY <1>2
<1>4. n # Top(t)
  <2>1. Top(t) # NULL => sub[Top(t)] = M
    BY SubtreeOf
  <2>2. n # NULL
    BY <1>2, SubtreeOf
  <2>3. QED BY <1>3, <2>1, <2>2
<1>5. PICK p \in M, s \in Sides: p = Par(t, n) /\ Kid(t, s, p) = n
  BY <1>2, <1>4 DEF Shaped, ParentsLink
<1>6. Alike(p)
  BY <1>1, <1>5
<1> HIDE DEF Alike, B
<1>7. /\ sub[n] \subseteq sub[p] /\ n # NULL
      /\ \A k \in sub[n]: OnSide(key, s, k, p)
  <2>1. n # NULL
    BY <1>2, SubtreeOf
  <2>2. QED BY <1>5, <2>1, KidFacts
<1>8. M \in SUBSET Nodes
  BY SubtreeOf
<1>9. m \in sub[p]
  BY <1>3, <1>6, <1>7 DEF Alike
<1>10. PICK o \in Sides: o = Mirror(s) /\ Mirror(o) = s /\ (\A d \in Sides: d = s \/ d = o)
  BY SideFacts
<1>11. \A k \in M: k \in sub[n] => OnSide(key, o, m, k)
  <2>1. CASE m = p
    BY <1>7, <1>8, <1>10, <2>1, OrderFacts
  <2>2. CASE m # p
    <3>1. PICK d \in Sides: m \in Below(sub, Kid(t, d, p))
      BY <1>9, <2>2 DEF Shaped, Subtrees
    <3>2. d # s
      BY <1>3, <1>5, <1>7, <3>1 DEF Below
    <3>3. OnSide(key, o, m, p)
      BY <1>10, <3>1, <3>2 DEF Shaped, InOrder
    <3>4. ASSUME NEW k \in M, k \in sub[n] PROVE OnSide(key, o, m, k)
      <4>1. OnSide(key, o, p, k)
        BY <1>7, <1>8, <1>10, <3>4, OrderFacts
      <4>2. QED BY <1>8, <3>3, <4>1, OrderFacts
    <3>5. QED BY <3>4
  <2>3. QED BY <2>1, <2>2
<1>12. e = o
  <2>1. CASE e = s
    <3>1. OnSide(key, o, m, a) /\ OnSide(key, s, m, a)
      BY <1>3, <1>11, <2>1
    <3>2. OnSide(key, s, a, m)
      BY <1>8, <1>10, <3>1, OrderFacts
    <3>3. QED BY <1>8, <3>1, <3>2, OrderFacts
  <2>2. QED BY <1>10, <2>1
<1>13. QED BY <1>3, <1>11, <1>12

(* The leftmost node of z's right subtree comes next after z. *)
LEMMA NextStandsFor ==
  ASSUME NEW key \in [Nodes -> Nat], NEW t, NEW M, NEW sub, Shaped(t, M, sub, key),
         NEW z \in M, NEW c, c = Kid(t, "right", z), c # NULL,
         NEW y, ExtremeOf(t, M, sub, key, "left", c, y)
  PROVE  y # z /\ StandsFor(key, M \ {y}, z, y)
<1>0. "left" \in Sides /\ "right" \in Sides /\ Mirror("left") = "right" /\ Mirror("right") = "left"
  BY DEF Sides, Mirror
<1>1. y \in sub[c] /\ y \in M /\ \A m \in sub[c]: m # y => OnSide(key, "left", y, m)
  BY DEF ExtremeOf
<1>2. c \in M /\ sub[c] \subseteq sub[z] /\ z \notin sub[c] /\ (\A m \in sub[c]: OnSide(key, "right", m, z)) /\ z \in sub[z]
  BY <1>0, KidFacts
<1>3. M \in SUBSET Nodes
  BY SubtreeOf
<1>4. OnSide(key, "right", y, z) /\ OnSide(key, "left", z, y) /\ y # z
  BY <1>0, <1>1, <1>2, <1>3, OrderFacts
<1>5. ASSUME NEW m \in (M \ {y}) \ {z}, NEW e \in Sides, OnSide(key, e, m, z) PROVE OnSide(key, e, m, y)
  <2>1. CASE e = "left"
    BY <1>0, <1>1, <1>3, <1>4, <1>5, <2>1, OrderFacts
  <2>2. CASE e = "right"
    <3>1. CASE m \notin sub[z]
      BY <1>1, <1>2, <1>5, <3>1, OutsideAlike
    <3>2. CASE m \in sub[z]
      <4>1. PICK d \in Sides: m \in Below(sub, Kid(t, d, z))
        BY <3>2 DEF Shaped, Subtrees
      <4>2. OnSide(key, d, m, z)
        BY <4>1 DEF Shaped, InOrder
      <4>3. d # "left"
        <5>1. OnSide(key, "left", m, z) => OnSide(key, "right", z, m)
          BY <1>0, <1>3, OrderFacts
        <5>2. ~(OnSide(key, "right", m, z) /\ OnSide(key, "right", z, m))
          BY <1>0, <1>3, OrderFacts
        <5>3. QED BY <1>5, <2>2, <4>2, <5>1, <5>2
      <4>4. d = "right"
        BY <4>3 DEF Sides
      <4>5. m \in sub[c]
        BY <4>1, <4>4 DEF Below
      <4>6. OnSide(key, "left", y, m)
        BY <1>1, <4>5
      <4>7. QED BY <1>0, <1>1, <1>3, <2>2, <4>6, OrderFacts
    <3>3. QED BY <3>1, <3>2
  <2>3. QED BY <2>1, <2>2 DEF Sides
<1>6. QED BY <1>4, <1>5 DEF StandsFor

(* A good tree stays one if nothing of its nodes changes. *)
SameOn(t, r, M) ==
  /\ r \in Trees /\ Top(r) = Top(t)
  /\ \A n \in M, e \in Sides: Kid(r, e, n) = Kid(t, e, n)
  /\ \A n \in M: Par(r, n) = Par(t, n) /\ (Red(r, n) <=> Red(t, n))
  /\ \A n \in Nodes: Cnt(r, n) = 0

(* What is not in the tree does not count: neither the pointers of other *)
(* nodes nor their keys. *)
LEMMA GoodStays ==
  ASSUME NEW key \in [Nodes -> Nat], NEW t, NEW M, GoodTree(t, M, key),
         NEW r, SameOn(t, r, M),
         NEW key2 \in [Nodes -> Nat], \A n \in M: key2[n] = key[n]
  PROVE  GoodTree(r, M, key2)
<1>1. PICK sub, h: Sound(t, M, sub, h, key)
  BY DEF GoodTree
<1>2. Shaped(t, M, sub, key) /\ Heights(t, M, h, NULL, "left") /\ RedPairs(t, M, NULL, NULL) /\ ~IsRed(t, Top(t))
  BY <1>1 DEF Sound
<1>3. M \in SUBSET Nodes /\ NULL \notin M /\ (Top(t) # NULL => Top(t) \in M) /\ \A n \in M: sub[n] \in SUBSET M
  BY <1>2, SubtreeOf
<1>4. /\ r \in Trees /\ Top(r) = Top(t)
      /\ \A n \in M, e \in Sides: Kid(r, e, n) = Kid(t, e, n)
      /\ \A n \in M: Par(r, n) = Par(t, n) /\ (Red(r, n) <=> Red(t, n))
      /\ \A n \in Nodes: Cnt(r, n) = 0
  BY DEF SameOn
<1>5. \A n \in M, e \in Sides: Kid(t, e, n) = NULL \/ Kid(t, e, n) \in M
  BY <1>2 DEF Shaped, KidsLink
<1>6. TypedTree(r, M, sub)
  BY <1>2, <1>4 DEF Shaped, TypedTree
<1>7. TopIs(r, M, sub)
  BY <1>2, <1>3, <1>4 DEF Shaped, TopIs
<1>8. ParentsLink(r, M)
  BY <1>2, <1>4 DEF Shaped, ParentsLink
<1>9. KidsLink(r, M)
  BY <1>2, <1>4, <1>5 DEF Shaped, KidsLink
<1>10. Subtrees(r, M, sub)
  BY <1>2, <1>4 DEF Shaped, Subtrees
<1>11. InOrder(r, M, sub, key2)
  <2> SUFFICES ASSUME NEW n \in M, NEW e \in Sides, NEW m \in Below(sub, Kid(r, e, n)) PROVE OnSide(key2, e, m, n)
    BY DEF InOrder
  <2>1. m \in Below(sub, Kid(t, e, n)) /\ m \in M
    BY <1>3, <1>4, <1>5 DEF Below
  <2>2. OnSide(key, e, m, n)
    BY <1>2, <2>1 DEF Shaped, InOrder
  <2>3. key2[m] = key[m] /\ key2[n] = key[n]
    BY <2>1
  <2>4. QED BY <2>2, <2>3 DEF OnSide, Before
<1>12. Shaped(r, M, sub, key2)
  BY <1>6, <1>7, <1>8, <1>9, <1>10, <1>11 DEF Shaped
<1>13. Heights(r, M, h, NULL, "left")
  <2>1. \A n \in M: Wt(r, n) = Wt(t, n)
    BY <1>4 DEF Wt
  <2>2. QED BY <1>2, <1>4, <2>1 DEF Heights
<1>14. RedPairs(r, M, NULL, NULL)
  <2> SUFFICES ASSUME NEW n \in M, NEW e \in Sides, Red(r, n), IsRed(r, Kid(r, e, n)) PROVE FALSE
    BY DEF RedPairs
  <2>1. Red(t, n) /\ IsRed(t, Kid(t, e, n)) /\ Kid(t, e, n) # NULL
    BY <1>4, <1>5, IsRedIs
  <2>2. QED BY <1>2, <1>3, <2>1 DEF RedPairs
<1>15. ~IsRed(r, Top(r))
  BY <1>2, <1>3, <1>4, IsRedIs
<1>16. Sound(r, M, sub, h, key2)
  BY <1>12, <1>13, <1>14, <1>15 DEF Sound
<1>17. QED BY <1>16 DEF GoodTree

-----------------------------------------------------------------------------
(* DSK_RBTREE_REMOVE. *)

(* Clearing the pointers of a node that is not in the tree changes *)
(* nothing. *)
LEMMA IsolateIs ==
  ASSUME NEW key \in [Nodes -> Nat], NEW t, NEW M, GoodTree(t, M, key), NEW z \in Nodes, z \notin M
  PROVE  GoodTree(Isolate(t, z), M, key)
<1>1. PICK sub, h: Sound(t, M, sub, h, key)
  BY DEF GoodTree
<1>2. Shaped(t, M, sub, key)
  BY <1>1 DEF Sound
<1>3. t \in Trees /\ M \in SUBSET Nodes /\ \A n \in Nodes: Cnt(t, n) = 0
  BY <1>2 DEF Shaped, TypedTree
<1>4. Cardinality(Nodes) \in Nat
  BY NodesCount
<1>5. PICK r: r = Isolate(t, z)
  OBVIOUS
<1>6. r \in Trees
  <2>1. PICK u: /\ u = [t EXCEPT !.child["left"][z] = NULL, !.child["right"][z] = NULL, !.parent[z] = NULL]
                /\ u \in Trees
    BY <1>3, BareIs DEF Bared
  <2>2. r = [u EXCEPT !.is_red[z] = FALSE, !.count[z] = 0]
    BY <1>3, <1>5, <2>1 DEF Isolate, Trees
  <2>3. PICK v: v = SetIsRed(u, z, FALSE) /\ v \in Trees
    BY <1>3, <2>1, BlackenedIs DEF Blackened
  <2>4. r = [v EXCEPT !.count[z] = 0]
    <3>1. z # NULL
      BY SideFacts
    <3>2. v = [u EXCEPT !.is_red[z] = FALSE]
      BY <2>3, <3>1 DEF SetIsRed
    <3>3. r = [[u EXCEPT !.is_red[z] = FALSE] EXCEPT !.count[z] = 0]
      BY <2>1, <2>2 DEF Trees
    <3>4. QED BY <3>2, <3>3
  <2>5. 0 \in 0..Cardinality(Nodes)
    BY <1>4
  <2>6. [v.count EXCEPT ![z] = 0] \in [Nodes -> 0..Cardinality(Nodes)]
    BY <2>3, <2>5 DEF Trees
  <2>7. QED BY <2>3, <2>4, <2>6 DEF Trees
<1>7. Top(r) = Top(t) /\ \A n \in Nodes: Cnt(r, n) = 0
  BY <1>3, <1>5 DEF Isolate, Trees, Top, Cnt
<1>8. \A n \in M, e \in Sides: Kid(r, e, n) = Kid(t, e, n)
  BY <1>3, <1>5 DEF Isolate, Trees, Kid, Sides
<1>9. \A n \in M: Par(r, n) = Par(t, n) /\ (Red(r, n) <=> Red(t, n))
  BY <1>3, <1>5 DEF Isolate, Trees, Par, Red
<1>10. SameOn(t, r, M)
  BY <1>6, <1>7, <1>8, <1>9 DEF SameOn
<1>11. QED BY <1>5, <1>10, GoodStays

(* The tree without z before its fixup: y is spliced out and, if it is not *)
(* z, moved into z's place. *)
MovedTree(t, z, y, x) == IF y = z THEN PluckTree(t, y, x) ELSE TakePlace(PluckTree(t, y, x), z, y)
MovedPar(t, z, y) == IF y # z /\ Par(t, y) = z THEN y ELSE Par(t, y)
Refilled(r) == SetIsRed(Tree(r), XOf(r), FALSE)

(* DSK_RBTREE_REMOVE, one step after the other. *)
LEMMA RbRemoveParts ==
  ASSUME NEW t, NEW z, NEW y, y = SplicedOut(t, z), NEW x, x = OnlyChild(t, y)
  PROVE  RbRemove(t, z) =
           Isolate(IF Red(t, y) THEN MovedTree(t, z, y, x)
                   ELSE Refilled(Loop(RemoveFixup, [tree |-> MovedTree(t, z, y, x), x |-> x,
                                                    par |-> MovedPar(t, z, y)])), z)
BY DEF RbRemove, Splice, MovedTree, MovedPar, Refilled, PluckTree, Red, Par, Tree, XOf

(* Which node is spliced out. *)
Spliceable(t, M, key, z, y, x) ==
  /\ \E s: OnlyKid(t, M, y, x, s)
  /\ y # z => StandsFor(key, M \ {y}, z, y) /\ x # z

(* The node unlinked has one child at most, and is the one removed or the *)
(* next. *)
LEMMA SplicedOutIs ==
  ASSUME NEW key \in [Nodes -> Nat], NEW t, NEW M, NEW sub, Shaped(t, M, sub, key),
         NEW z \in M, NEW y, y = SplicedOut(t, z), NEW x, x = OnlyChild(t, y)
  PROVE  Spliceable(t, M, key, z, y, x)
<1>0. "left" \in Sides /\ "right" \in Sides /\ Mirror("left") = "right" /\ Mirror("right") = "left"
  BY DEF Sides, Mirror
<1>1. PICK a, b: a = Kid(t, "left", z) /\ b = Kid(t, "right", z)
  OBVIOUS
<1>2. ASSUME Kid(t, "left", y) = NULL \/ Kid(t, "right", y) = NULL, y \in M
      PROVE  \E s: OnlyKid(t, M, y, x, s)
  <2>1. CASE Kid(t, "left", y) = NULL
    <3>1. x = Kid(t, "right", y)
      BY <2>1 DEF OnlyChild, Kid
    <3>2. OnlyKid(t, M, y, x, "right")
      BY <1>0, <1>2, <2>1, <3>1 DEF OnlyKid
    <3>3. QED BY <3>2
  <2>2. CASE Kid(t, "left", y) # NULL
    <3>1. x = Kid(t, "left", y)
      BY <2>2 DEF OnlyChild, Kid
    <3>2. OnlyKid(t, M, y, x, "left")
      BY <1>0, <1>2, <2>2, <3>1 DEF OnlyKid
    <3>3. QED BY <3>2
  <2>3. QED BY <2>1, <2>2
<1>3. CASE a = NULL \/ b = NULL
  <2>1. y = z
    BY <1>1, <1>3 DEF SplicedOut, Kid
  <2>2. QED BY <1>1, <1>2, <1>3, <2>1 DEF Spliceable
<1>4. CASE ~(a = NULL \/ b = NULL)
  <2>1. y = Extreme(t, b, "left")
    BY <1>1, <1>4 DEF SplicedOut, RbNext, Kid
  <2>2. b \in M /\ z \notin sub[b]
    BY <1>0, <1>1, <1>4, KidFacts
  <2>3. ExtremeOf(t, M, sub, key, "left", b, y)
    BY <1>0, <2>1, <2>2, ExtremeIs
  <2>4. y # z /\ StandsFor(key, M \ {y}, z, y)
    BY <1>1, <1>4, <2>3, NextStandsFor
  <2>5. y \in M /\ Kid(t, "left", y) = NULL /\ y \in sub[b]
    BY <2>3 DEF ExtremeOf
  <2>6. x # z
    <3>1. x = Kid(t, "right", y)
      BY <2>5 DEF OnlyChild, Kid
    <3>2. x = NULL \/ (x \in sub[y])
      BY <1>0, <2>5, <3>1, KidFacts
    <3>3. sub[y] \subseteq sub[b]
      BY <2>2, <2>5, SubtreesNest
    <3>4. z # NULL
      BY SubtreeOf
    <3>5. QED BY <2>2, <3>2, <3>3, <3>4
  <2>7. QED BY <1>2, <2>4, <2>5, <2>6 DEF Spliceable
<1>5. QED BY <1>3, <1>4

(* What is left to mend when z has left the tree. *)
LeftOver(t, r, M, key, red, x, par) ==
  IF red THEN GoodTree(r, M, key)
  ELSE r \in Trees /\ x \in M \cup {NULL} /\ par \in M \cup {NULL} /\ Missing(r, M, key, x, par)

(* What is left before the fixup. *)
LEMMA MovedTreeIs ==
  ASSUME NEW key \in [Nodes -> Nat], NEW t, NEW M, NEW sub, NEW h, Sound(t, M, sub, h, key),
         NEW z \in M, NEW y, y = SplicedOut(t, z), NEW x, x = OnlyChild(t, y)
  PROVE  LeftOver(t, MovedTree(t, z, y, x), M \ {z}, key, Red(t, y), x, MovedPar(t, z, y))
<1>1. Shaped(t, M, sub, key)
  BY DEF Sound
<1>0. Spliceable(t, M, key, z, y, x)
  BY <1>1, SplicedOutIs
<1>2. PICK s: OnlyKid(t, M, y, x, s)
  BY <1>0 DEF Spliceable
<1>3. y # z => StandsFor(key, M \ {y}, z, y) /\ x # z
  BY <1>0 DEF Spliceable
<1>4. PICK u: u = PluckTree(t, y, x) /\ Plucked(t, u, M, y, x)
  BY <1>1, <1>2, PluckIs
<1>5. PICK sub2, h2, d: IF Red(t, y) THEN Sound(u, M \ {y}, sub2, h2, key)
                        ELSE Removing(u, M \ {y}, sub2, h2, key, x, Par(t, y), d)
  BY <1>2, <1>4, PluckedIs
<1>6. y \in M /\ y # NULL /\ x # y /\ (x = NULL \/ x \in M \ {y})
  BY <1>1, <1>2, OnlyKidIs
<1>7. Par(t, y) = NULL \/ Par(t, y) \in M \ {y}
  <2>1. y = Top(t) => Par(t, y) = NULL
    BY <1>1, <1>6, SideIs
  <2>2. y # Top(t) => Par(t, y) \in M /\ Par(t, y) # y
    BY <1>1, <1>6, SideIs
  <2>3. QED BY <2>1, <2>2
<1>8. u \in Trees
  BY <1>4 DEF Plucked
<1>9. CASE y = z
  <2>1. MovedTree(t, z, y, x) = u /\ MovedPar(t, z, y) = Par(t, y)
    BY <1>4, <1>9 DEF MovedTree, MovedPar
  <2>2. CASE Red(t, y)
    <3>1. GoodTree(u, M \ {z}, key)
      BY <1>5, <1>9, <2>2 DEF GoodTree
    <3>2. QED BY <2>1, <2>2, <3>1 DEF LeftOver
  <2>3. CASE ~Red(t, y)
    <3>1. Missing(u, M \ {z}, key, x, Par(t, y))
      BY <1>5, <1>9, <2>3 DEF Missing
    <3>2. QED BY <1>6, <1>7, <1>8, <1>9, <2>1, <2>3, <3>1 DEF LeftOver
  <2>4. QED BY <2>2, <2>3
<1>10. CASE y # z
  <2> DEFINE P == M \ {y}
             N == M \ {z}
  <2>1. P \in SUBSET Nodes /\ z \in P /\ y \in Nodes /\ y \notin P /\ N = (P \ {z}) \cup {y}
    BY <1>1, <1>6, <1>10, SubtreeOf
  <2>2. Swapped(P, N, z, y)
    <3> HIDE DEF P, N
    <3>1. QED BY <2>1, SwappedIs
  <2>3. PICK r: r = MovedTree(t, z, y, x) /\ r = TakePlace(u, z, y)
    BY <1>4, <1>10 DEF MovedTree
  <2>4. Shaped(u, P, sub2, key)
    <3>1. Red(t, y) => Shaped(u, P, sub2, key)
      BY <1>5 DEF Sound
    <3>2. ~Red(t, y) => Shaped(u, P, sub2, key)
      BY <1>5 DEF Removing
    <3>3. QED BY <3>1, <3>2
  <2>5. /\ StandsFor(key, P, z, y) /\ (x = NULL \/ x \in P) /\ (Par(t, y) = NULL \/ Par(t, y) \in P)
        /\ IF Red(t, y) THEN Sound(u, P, sub2, h2, key) ELSE Removing(u, P, sub2, h2, key, x, Par(t, y), d)
    BY <1>3, <1>5, <1>6, <1>7, <1>10
  <2> HIDE DEF P, N
  <2>6. TookPlace(u, r, P, z, y)
    BY <2>1, <2>3, <2>4, TakePlaceIs
  <2>7. LinksSwapped(u, r, P, N, z, y)
    BY <2>2, <2>4, <2>6, LinksSwap
  <2>8. CASE Red(t, y)
    <3>1. GoodTree(r, N, key)
      BY <2>2, <2>5, <2>7, <2>8, SwappedSound
    <3>2. QED BY <2>3, <2>8, <3>1 DEF LeftOver, N
  <2>9. CASE ~Red(t, y)
    <3>1. PICK x2, par2: x2 = Put(x, z, y) /\ par2 = Put(Par(t, y), z, y) /\ Missing(r, N, key, x2, par2)
      BY <2>2, <2>5, <2>7, <2>9, SwappedMissing
    <3>2. x2 = x /\ par2 = MovedPar(t, z, y)
      BY <1>3, <1>10, <3>1 DEF Put, MovedPar
    <3>3. x2 \in N \cup {NULL} /\ par2 \in N \cup {NULL}
      BY <2>2, <2>5, <3>1 DEF Swapped
    <3>4. r \in Trees
      BY <2>6 DEF TookPlace
    <3>5. QED BY <2>3, <2>9, <3>1, <3>2, <3>3, <3>4 DEF LeftOver, N
  <2>10. QED BY <2>8, <2>9
<1>11. QED BY <1>9, <1>10

(* DSK_RBTREE_REMOVE takes the node, and no other, out of a red-black *)
(* tree. *)
LEMMA RbRemoveIs ==
  ASSUME NEW key \in [Nodes -> Nat], NEW t, NEW M, GoodTree(t, M, key), NEW z \in M
  PROVE  GoodTree(RbRemove(t, z), M \ {z}, key)
<1>1. PICK sub, h: Sound(t, M, sub, h, key)
  BY DEF GoodTree
<1>2. M \in SUBSET Nodes
  BY <1>1, SubtreeOf DEF Sound
<1>3. PICK y, x: y = SplicedOut(t, z) /\ x = OnlyChild(t, y)
  OBVIOUS
<1>4. PICK v, par: v = MovedTree(t, z, y, x) /\ par = MovedPar(t, z, y)
  OBVIOUS
<1>5. LeftOver(t, v, M \ {z}, key, Red(t, y), x, par)
  BY <1>1, <1>3, <1>4, MovedTreeIs
<1>6. z \in Nodes /\ z \notin M \ {z} /\ M \ {z} \in SUBSET Nodes
  BY <1>2
<1>7. CASE Red(t, y)
  <2>1. GoodTree(v, M \ {z}, key)
    BY <1>5, <1>7 DEF LeftOver
  <2>2. RbRemove(t, z) = Isolate(v, z)
    BY <1>3, <1>4, <1>7, RbRemoveParts
  <2>3. QED BY <1>6, <2>1, <2>2, IsolateIs
<1>8. CASE ~Red(t, y)
  <2>1. PICK r: r = Loop(RemoveFixup, [tree |-> v, x |-> x, par |-> par])
    OBVIOUS
  <2>2. GoodTree(Refilled(r), M \ {z}, key)
    <3>1. /\ v \in Trees /\ x \in (M \ {z}) \cup {NULL} /\ par \in (M \ {z}) \cup {NULL}
          /\ Missing(v, M \ {z}, key, x, par)
      BY <1>5, <1>8 DEF LeftOver
    <3>2. GoodTree(SetIsRed(Tree(r), XOf(r), FALSE), M \ {z}, key)
      BY <1>6, <2>1, <3>1, RemoveLoopIs
    <3>3. QED BY <3>2 DEF Refilled
  <2>3. RbRemove(t, z) = Isolate(Refilled(r), z)
    BY <1>3, <1>4, <1>8, <2>1, RbRemoveParts
  <2>4. QED BY <1>6, <2>2, <2>3, IsolateIs
<1>9. QED BY <1>7, <1>8

(* The tree of no nodes. *)
LEMMA EmptyTreeIs ==
  ASSUME NEW key \in [Nodes -> Nat]
  PROVE  GoodTree(EmptyTree, {}, key)
<1>1. Cardinality(Nodes) \in Nat
  BY NodesCount
<1>2. EmptyTree \in Trees /\ Top(EmptyTree) = NULL /\ \A n \in Nodes: Cnt(EmptyTree, n) = 0
  BY <1>1 DEF EmptyTree, Trees, Top, Cnt
<1>3. PICK f: f \in [{} -> SUBSET {}]
  <2>1. [n \in {} |-> {}] \in [{} -> SUBSET {}]
    OBVIOUS
  <2>2. QED BY <2>1
<1>4. PICK h: h \in [{} -> Nat]
  <2>1. [n \in {} |-> 0] \in [{} -> Nat]
    OBVIOUS
  <2>2. QED BY <2>1
<1>5. Shaped(EmptyTree, {}, f, key)
  BY <1>2, <1>3 DEF Shaped, TypedTree, TopIs, ParentsLink, KidsLink, Subtrees, InOrder
<1>6. ~IsRed(EmptyTree, Top(EmptyTree))
  BY <1>2, IsRedIs
<1>7. Sound(EmptyTree, {}, f, h, key)
  BY <1>4, <1>5, <1>6 DEF Sound, Heights, RedPairs
<1>8. QED BY <1>7 DEF GoodTree

-----------------------------------------------------------------------------
(* What a red-black tree is to those who use it. *)

(* The black nodes above n and n itself, with those below it, are as many *)
(* as those below the top. *)
LEMMA SameBlack ==
  ASSUME NEW key \in [Nodes -> Nat], NEW t, NEW M, NEW sub, NEW h, Sound(t, M, sub, h, key)
  PROVE  \A n \in M: BlackHeight(t, n) + h[n] - Wt(t, n) = h[Top(t)] /\ BlackHeight(t, n) \in Nat
<1>1. Shaped(t, M, sub, key) /\ Heights(t, M, h, NULL, "left")
  BY DEF Sound
<1>2. M \in SUBSET Nodes /\ NULL \notin M /\ (Top(t) # NULL => Top(t) \in M /\ sub[Top(t)] = M)
      /\ \A n \in M: n \in sub[n] /\ sub[n] \in SUBSET M
  BY <1>1, SubtreeOf
<1>3. IsFiniteSet(M)
  BY <1>2, NodesAssumption, FS_Subset
<1>4. /\ h \in [M -> Nat]
      /\ \A n \in M, e \in Sides: h[n] = Ht(h, Kid(t, e, n)) + Wt(t, n) /\ h[n] \in Nat
      /\ \A n \in M: Wt(t, n) = IF Red(t, n) THEN 0 ELSE 1
  BY <1>1, HeightsAre
<1> DEFINE blacks(n) == {m \in M: n \in sub[m] /\ ~Red(t, m)}
<1>5. \A n \in M: /\ BlackHeight(t, n) = Cardinality(blacks(n)) /\ IsFiniteSet(blacks(n))
                  /\ Cardinality(blacks(n)) \in Nat
  <2> TAKE n \in M
  <2>1. Ancestors(t, n) = {m \in M: n \in sub[m]}
    BY <1>1, AncestorsAre
  <2>2. {m \in Ancestors(t, n): ~t.is_red[m]} = blacks(n)
    BY <2>1 DEF Red
  <2>3. blacks(n) \subseteq M
    OBVIOUS
  <2> HIDE DEF blacks
  <2>4. IsFiniteSet(blacks(n)) /\ Cardinality(blacks(n)) \in Nat
    BY <1>3, <2>3, FS_Subset, FS_CardinalityType
  <2>5. QED BY <2>2, <2>4 DEF BlackHeight
<1> DEFINE Right(n) == Cardinality(blacks(n)) + h[n] - Wt(t, n) = h[Top(t)]
           B == {n \in M: ~Right(n)}
<1>6. B = {}
  <2> SUFFICES ASSUME B # {} PROVE FALSE
    OBVIOUS
  <2>1. PICK n \in B: Par(t, n) \notin B
    <3>1. B \in SUBSET M
      OBVIOUS
    <3> HIDE DEF B
    <3>2. QED BY <1>1, <3>1, HighestNode
  <2>2. n \in M /\ ~Right(n)
    OBVIOUS
  <2>3. CASE n = Top(t)
    <3>1. \A m \in M: n \in sub[m] => m = n
      <4> TAKE m \in M
      <4>1. m \in sub[n]
        BY <1>2, <2>2, <2>3
      <4>2. QED BY <1>1, <2>2, <4>1, NotBelowBoth
    <3>2. blacks(n) = IF Red(t, n) THEN {} ELSE {n}
      BY <1>2, <2>2, <3>1
    <3> HIDE DEF blacks
    <3>3. Cardinality(blacks(n)) = Wt(t, n)
      <4>1. CASE Red(t, n)
        <5>1. blacks(n) = {}
          BY ONLY <3>2, <4>1
        <5>2. Wt(t, n) = 0
          BY <1>4, <2>2, <4>1
        <5>3. QED BY ONLY <5>1, <5>2, FS_EmptySet
      <4>2. CASE ~Red(t, n)
        <5>1. blacks(n) = {n}
          BY ONLY <3>2, <4>2
        <5>2. Wt(t, n) = 1
          BY <1>4, <2>2, <4>2
        <5>3. QED BY ONLY <5>1, <5>2, FS_Singleton
      <4>3. QED BY ONLY <4>1, <4>2
    <3>4. h[n] \in Nat /\ Wt(t, n) \in Nat
      BY <1>4, <2>2
    <3>5. Cardinality(blacks(n)) + h[n] - Wt(t, n) = h[Top(t)]
      <4>1. PICK i, j: i = h[n] /\ j = Wt(t, n)
        OBVIOUS
      <4>2. i \in Nat /\ j \in Nat
        BY ONLY <3>4, <4>1
      <4>3. j + i - j = i
        BY ONLY <4>2
      <4>4. QED BY ONLY <2>3, <3>3, <4>1, <4>3
    <3>6. QED BY ONLY <2>2, <3>5
  <2>4. CASE n # Top(t)
    <3>1. PICK p \in M, s \in Sides: p = Par(t, n) /\ Kid(t, s, p) = n
      BY <1>1, <2>2, <2>4 DEF Shaped, ParentsLink
    <3>2. Right(p)
      BY <2>1, <3>1
    <3>3. \A m \in M: n \in sub[m] <=> m = n \/ p \in sub[m]
      <4> TAKE m \in M
      <4>1. n \in sub[m] /\ m # n => p \in sub[m]
        BY <1>1, <3>1, ParentBelow
      <4>2. p \in sub[m] => n \in sub[m]
        <5>1. n \in sub[p]
          BY <1>1, <1>2, <2>2, <3>1, KidFacts
        <5>2. p \in sub[m] => sub[p] \subseteq sub[m]
          BY <1>1, <3>1, SubtreesNest
        <5>3. QED BY <5>1, <5>2
      <4>3. QED BY <1>2, <2>2, <4>1, <4>2
    <3>4. p \notin sub[n]
      BY <1>1, <1>2, <2>2, <3>1, KidFacts
    <3>5. blacks(n) = IF Red(t, n) THEN blacks(p) ELSE blacks(p) \cup {n}
      BY <2>2, <3>3, <3>4
    <3>6. n \notin blacks(p)
      BY <3>4
    <3>7. h[p] = Ht(h, n) + Wt(t, p) /\ Ht(h, n) = h[n]
      <4>1. n # NULL
        BY <1>2, <2>2
      <4>2. QED BY <1>4, <3>1, <4>1 DEF Ht
    <3>8. /\ IsFiniteSet(blacks(p)) /\ Cardinality(blacks(p)) \in Nat /\ Cardinality(blacks(n)) \in Nat
      BY <1>5, <2>2, <3>1
    <3>9. ~Right(n)
      BY <2>2
    <3> HIDE DEF blacks
    <3>10. Cardinality(blacks(n)) = Cardinality(blacks(p)) + Wt(t, n)
      <4>1. CASE Red(t, n)
        BY <1>4, <2>2, <3>5, <3>8, <4>1
      <4>2. CASE ~Red(t, n)
        <5>1. Cardinality(blacks(p) \cup {n}) = Cardinality(blacks(p)) + 1
          BY <3>6, <3>8, FS_AddElement
        <5>2. QED BY <1>4, <2>2, <3>5, <4>2, <5>1
      <4>3. QED BY <4>1, <4>2
    <3>11. h[n] \in Nat /\ h[p] \in Nat /\ Wt(t, n) \in Nat /\ Wt(t, p) \in Nat
      BY <1>4, <2>2, <3>1
    <3>12. PICK i, j: i = Cardinality(blacks(n)) /\ j = Cardinality(blacks(p)) /\ i \in Nat /\ j \in Nat
      BY <3>8
    <3>13. QED BY <3>2, <3>7, <3>9, <3>10, <3>11, <3>12
  <2>5. QED BY <2>3, <2>4
<1>7. \A n \in M: Right(n)
  BY <1>6
<1> HIDE DEF blacks
<1>8. QED BY <1>5, <1>7

(* What a good tree of M is to those who use it. *)
LEMMA GoodTreeFacts ==
  ASSUME NEW key \in [Nodes -> Nat], NEW t, NEW M, GoodTree(t, M, key)
  PROVE  /\ t \in Trees /\ M \in SUBSET Nodes /\ Members(t) = M
         /\ M = {} <=> t.top = NULL
         /\ M = {} => RbFirst(t) = NULL
         /\ M # {} => /\ RbFirst(t) \in M /\ RbFirst(t) # NULL
                      /\ \A m \in M: m # RbFirst(t) => Before(key, RbFirst(t), m)
         /\ Linked(t) /\ Ordered(t, key) /\ Balanced(t)
<1>1. PICK sub, h: Sound(t, M, sub, h, key)
  BY DEF GoodTree
<1>2. Shaped(t, M, sub, key) /\ Heights(t, M, h, NULL, "left") /\ RedPairs(t, M, NULL, NULL) /\ ~IsRed(t, Top(t))
  BY <1>1 DEF Sound
<1>3. t \in Trees /\ M \in SUBSET Nodes /\ NULL \notin M
  BY <1>2, SubtreeOf
<1>4. Members(t) = M
  BY <1>2, MembersAre
<1>5. /\ M = {} <=> Top(t) = NULL
      /\ M = {} => RbFirst(t) = NULL
      /\ M # {} => /\ RbFirst(t) \in M
                   /\ \A m \in M: m # RbFirst(t) => Before(key, RbFirst(t), m)
  BY <1>2, FirstIs
<1>6. M # {} => RbFirst(t) # NULL
  BY <1>3, <1>5
<1>7. Linked(t)
  <2>1. \A n \in M: n = Top(t) <=> Par(t, n) = NULL
    BY <1>2, SideIs
  <2>2. \A n \in M, s \in Sides: Kid(t, s, n) # NULL => Par(t, Kid(t, s, n)) = n
    BY <1>2 DEF Shaped, KidsLink
  <2>3. QED BY <1>4, <2>1, <2>2 DEF Linked, Top, Par, Kid
<1>8. Ordered(t, key)
  <2> SUFFICES ASSUME NEW n \in M, NEW s \in Sides, NEW m \in M,
                      Kid(t, s, n) # NULL, Kid(t, s, n) \in Ancestors(t, m)
               PROVE  IF s = "left" THEN Before(key, m, n) ELSE Before(key, n, m)
    BY <1>4 DEF Ordered, Kid
  <2>1. Ancestors(t, m) = {a \in M: m \in sub[a]}
    BY <1>2, AncestorsAre
  <2>2. PICK c: c = Kid(t, s, n) /\ c # NULL /\ m \in sub[c]
    BY <2>1
  <2>3. OnSide(key, s, m, n)
    BY <1>2, <2>2, KidFacts
  <2>4. QED BY <2>3 DEF OnSide
<1>9. Balanced(t)
  <2>1. ~IsRed(t, t.top)
    BY <1>2 DEF Top
  <2>2. ASSUME NEW n \in M, NEW s \in Sides, IsRed(t, n), IsRed(t, Kid(t, s, n)) PROVE FALSE
    <3>1. Red(t, n) /\ n # NULL /\ Kid(t, s, n) # NULL
      BY <2>2, IsRedIs
    <3>2. QED BY <1>2, <2>2, <3>1 DEF RedPairs
  <2>3. ASSUME NEW n \in M, NEW s \in Sides, Kid(t, s, n) = NULL
        PROVE  BlackHeight(t, n) = h[Top(t)]
    <3>1. h[n] = Ht(h, Kid(t, s, n)) + Wt(t, n) /\ Wt(t, n) \in Nat
      BY <1>2, HeightsAre
    <3>2. Ht(h, Kid(t, s, n)) = 0
      BY <2>3 DEF Ht
    <3>3. BlackHeight(t, n) + h[n] - Wt(t, n) = h[Top(t)] /\ BlackHeight(t, n) \in Nat
      BY <1>1, SameBlack
    <3>4. QED BY <3>1, <3>2, <3>3
  <2>4. QED BY <1>4, <2>1, <2>2, <2>3 DEF Balanced, Kid
<1>10. QED BY <1>3, <1>4, <1>5, <1>6, <1>7, <1>8, <1>9 DEF Top

-----------------------------------------------------------------------------
(* The dispatch's tree of timers. *)

(* A tree stays good when only keys of nodes outside it change. *)
LEMMA GoodRekeyed ==
  ASSUME NEW key \in [Nodes -> Nat], NEW key2 \in [Nodes -> Nat], NEW t, NEW M, GoodTree(t, M, key),
         \A n \in M: key2[n] = key[n]
  PROVE  GoodTree(t, M, key2)
<1>1. PICK sub, h: Sound(t, M, sub, h, key)
  BY DEF GoodTree
<1>2. Shaped(t, M, sub, key)
  BY <1>1 DEF Sound
<1>3. t \in Trees /\ \A n \in Nodes: Cnt(t, n) = 0
  BY <1>2, SubtreeOf DEF Shaped, TypedTree
<1>4. SameOn(t, t, M)
  BY <1>3 DEF SameOn
<1>5. QED BY <1>4, GoodStays

(* dsk_dispatch_add_timer: the tree gains the timer. *)
LEMMA AddedIs ==
  ASSUME NEW key \in [Nodes -> Nat], NEW key2 \in [Nodes -> Nat], NEW t, NEW M, GoodTree(t, M, key),
         NEW n \in Nodes, n \notin M, \A m \in M: key2[m] = key[m]
  PROVE  GoodTree(RbInsert(t, key2, n), M \cup {n}, key2)
BY GoodRekeyed, RbInsertIs

(* dsk_dispatch_remove_timer: the tree loses it, and its key is free. *)
LEMMA RemovedIs ==
  ASSUME NEW key \in [Nodes -> Nat], NEW key2 \in [Nodes -> Nat], NEW t, NEW M, GoodTree(t, M, key),
         NEW n \in M, \A m \in M \ {n}: key2[m] = key[m]
  PROVE  GoodTree(RbRemove(t, n), M \ {n}, key2)
<1>1. GoodTree(RbRemove(t, n), M \ {n}, key)
  BY RbRemoveIs
<1>2. QED BY <1>1, GoodRekeyed

(* dsk_dispatch_adjust_timer: the tree holds the same timers. *)
LEMMA AdjustedIs ==
  ASSUME NEW key \in [Nodes -> Nat], NEW key2 \in [Nodes -> Nat], NEW t, NEW M, GoodTree(t, M, key),
         NEW n \in M, \A m \in M \ {n}: key2[m] = key[m]
  PROVE  GoodTree(RbInsert(RbRemove(t, n), key2, n), M, key2)
<1>1. GoodTree(RbRemove(t, n), M \ {n}, key2)
  BY RemovedIs
<1>2. n \in Nodes /\ n \notin M \ {n}
  BY GoodTreeFacts
<1>3. PICK r: r = RbRemove(t, n)
  OBVIOUS
<1>4. GoodTree(RbInsert(r, key2, n), (M \ {n}) \cup {n}, key2)
  BY <1>1, <1>2, <1>3, RbInsertIs
<1>5. (M \ {n}) \cup {n} = M
  OBVIOUS
<1>6. QED BY <1>3, <1>4, <1>5

(* The walk up from the only timer of a tree meets no right child. *)
LEMMA AloneIsFirst ==
  ASSUME NEW key \in [Nodes -> Nat], NEW t, NEW n, GoodTree(t, {n}, key)
  PROVE  OnLeftSpine(t, n)
<1>1. PICK sub, h: Sound(t, {n}, sub, h, key)
  BY DEF GoodTree
<1>2. Shaped(t, {n}, sub, key)
  BY <1>1 DEF Sound
<1>3. Ancestors(t, n) \subseteq {n}
  BY <1>2, AncestorsAre
<1>4. t.parent[n] = NULL
  <2>1. Members(t) = {n} /\ Linked(t) /\ t.top # NULL /\ t \in Trees
    BY GoodTreeFacts
  <2>2. Top(t) \in {n}
    BY <1>2, <2>1, SubtreeOf DEF Top
  <2>3. QED BY <2>1, <2>2 DEF Linked, Top
<1>5. QED BY <1>3, <1>4 DEF OnLeftSpine

-----------------------------------------------------------------------------
(* The loop that lists the timers that are due *)

ListOf(st) == st.list

Expired(st, key, time) ==
  IF RbFirst(Tree(st)) # NULL /\ key[RbFirst(Tree(st))] <= time
  THEN [tree |-> RbRemove(Tree(st), RbFirst(Tree(st))), list |-> <<RbFirst(Tree(st))>> \o ListOf(st)]
  ELSE st

Expiry(t, key, time) == Loop(LAMBDA st: Expired(st, key, time), [tree |-> t, list |-> <<>>])

(* What holds of the tree and the list in each turn, the tree having held *)
(* M at first. *)
ListedFrom(t, list, M, key, time) ==
  /\ list \in Seq(Nodes) /\ Injective(list) /\ ToSet(list) \subseteq M
  /\ GoodTree(t, M \ ToSet(list), key)
  /\ \A n \in ToSet(list): key[n] <= time
Expiring(M, key, time) ==
  {st \in [tree: Trees, list: Seq(Nodes)]: ListedFrom(Tree(st), ListOf(st), M, key, time)}

(* Before the loop nothing is listed. *)
LEMMA NothingExpired ==
  ASSUME NEW key \in [Nodes -> Nat], NEW t, NEW M, NEW time, GoodTree(t, M, key)
  PROVE  [tree |-> t, list |-> <<>>] \in Expiring(M, key, time)
<1>1. PICK st: st = [tree |-> t, list |-> <<>>]
  OBVIOUS
<1>2. Tree(st) = t /\ ListOf(st) = <<>>
  BY <1>1 DEF Tree, ListOf
<1>3. t \in Trees
  BY GoodTreeFacts
<1>4. st \in [tree: Trees, list: Seq(Nodes)]
  BY <1>1, <1>3
<1>5. ToSet(<<>>) = {} /\ Injective(<<>>) /\ <<>> \in Seq(Nodes)
  BY DEF ToSet, Injective
<1>6. M \ {} = M
  OBVIOUS
<1>7. ListedFrom(t, <<>>, M, key, time)
  BY <1>5, <1>6 DEF ListedFrom
<1>8. QED BY <1>1, <1>2, <1>4, <1>7 DEF Expiring

(* A turn of the loop moves the first timer from the tree to the list. *)
LEMMA ExpiredIs ==
  ASSUME NEW key \in [Nodes -> Nat], NEW M, NEW time, NEW st \in Expiring(M, key, time)
  PROVE  Expired(st, key, time) \in Expiring(M, key, time)
<1>1. PICK t, list: t = Tree(st) /\ list = ListOf(st)
  OBVIOUS
<1>2. ListedFrom(t, list, M, key, time)
  BY <1>1 DEF Expiring
<1>3. PICK n: n = RbFirst(t)
  OBVIOUS
<1>4. CASE n # NULL /\ key[n] <= time
  <2>1. PICK r, longer: r = RbRemove(t, n) /\ longer = <<n>> \o list
    OBVIOUS
  <2>2. PICK st2: st2 = [tree |-> r, list |-> longer]
    OBVIOUS
  <2>3. Expired(st, key, time) = st2
    BY <1>1, <1>3, <1>4, <2>1, <2>2 DEF Expired
  <2>4. PICK D: D = ToSet(list)
    OBVIOUS
  <2>5. GoodTree(t, M \ D, key) /\ list \in Seq(Nodes) /\ Injective(list) /\ D \subseteq M
        /\ \A m \in D: key[m] <= time
    BY <1>2, <2>4 DEF ListedFrom
  <2>6. n \in M \ D /\ n \in Nodes
    BY <1>3, <1>4, <2>5, GoodTreeFacts
  <2>7. GoodTree(r, (M \ D) \ {n}, key)
    BY <2>1, <2>5, <2>6, RbRemoveIs
  <2>8. longer \in Seq(Nodes) /\ ToSet(longer) = D \cup {n} /\ Injective(longer)
    BY <2>1, <2>4, <2>5, <2>6, PrependIs
  <2>9. (M \ D) \ {n} = M \ (D \cup {n})
    OBVIOUS
  <2>10. ListedFrom(r, longer, M, key, time)
    BY <1>4, <2>5, <2>6, <2>7, <2>8, <2>9 DEF ListedFrom
  <2>11. r \in Trees
    BY <2>7, GoodTreeFacts
  <2>12. st2 \in [tree: Trees, list: Seq(Nodes)] /\ Tree(st2) = r /\ ListOf(st2) = longer
    BY <2>2, <2>8, <2>11 DEF Tree, ListOf
  <2>13. QED BY <2>3, <2>10, <2>12 DEF Expiring
<1>5. CASE ~(n # NULL /\ key[n] <= time)
  BY <1>1, <1>3, <1>5 DEF Expired
<1>6. QED BY <1>4, <1>5

ExpireRun(t, M, key, time, g) ==
  /\ g \in [0..Cardinality(Nodes) -> Expiring(M, key, time)]
  /\ g[0] = [tree |-> t, list |-> <<>>]
  /\ \A i \in 1..Cardinality(Nodes): g[i] = Expired(g[i - 1], key, time)
  /\ Expiry(t, key, time) = g[Cardinality(Nodes)]

(* The loop runs through such states. *)
LEMMA ExpireRuns ==
  ASSUME NEW key \in [Nodes -> Nat], NEW t, NEW M, NEW time, GoodTree(t, M, key)
  PROVE  \E g: ExpireRun(t, M, key, time, g)
<1>0. PICK x0 \in Expiring(M, key, time): x0 = [tree |-> t, list |-> <<>>]
  BY NothingExpired
<1> DEFINE N == Cardinality(Nodes)
           Step(z) == Expired(z, key, time)
           F == [z \in Expiring(M, key, time) |-> Step(z)]
           R(f) == [i \in 0..N |-> IF i = 0 THEN {[tree |-> t, list |-> <<>>]} ELSE {Step(z): z \in f[i - 1]}]
<1>1. N \in Nat
  BY NodesCount
<1>2. F \in [Expiring(M, key, time) -> Expiring(M, key, time)] /\ \A z \in Expiring(M, key, time): F[z] = Step(z)
  <2>1. \A z \in Expiring(M, key, time): Expired(z, key, time) \in Expiring(M, key, time)
    BY ExpiredIs
  <2>2. QED BY <2>1
<1>3. Expiry(t, key, time) = CHOOSE z \in (CHOOSE r: r = R(r))[N]: TRUE
  BY <1>0 DEF Expiry, Step, Expired, Tree, ListOf, Loop
<1> HIDE DEF N, F, Step
<1>4. PICK g: IsRun(g, Expiring(M, key, time), F, x0, N)
  BY <1>1, <1>2, RunExists
<1>5. /\ g \in [0..N -> Expiring(M, key, time)] /\ g[0] = x0
      /\ \A i \in 1..N: g[i] = Step(g[i - 1])
  <2>1. \A i \in 1..N: i - 1 \in 0..N
    BY <1>1
  <2>2. QED BY <1>2, <1>4, <2>1 DEF IsRun
<1>6. \A y: {Step(z): z \in {y}} = {Step(y)}
  OBVIOUS
<1> DEFINE h == [i \in 0..N |-> {g[i]}]
<1>7. h = R(h)
  <2>1. \A i \in 1..N: h[i - 1] = {g[i - 1]} /\ h[i] = {g[i]}
    BY <1>1
  <2>2. h[0] = {x0}
    BY <1>1, <1>5
  <2>3. h = [i \in 0..N |-> h[i]]
    OBVIOUS
  <2> HIDE DEF h
  <2>4. \A i \in 1..N: h[i] = {Step(z): z \in h[i - 1]}
    <3> TAKE i \in 1..N
    <3>1. h[i] = {Step(g[i - 1])} /\ h[i - 1] = {g[i - 1]}
      BY <1>5, <2>1
    <3>2. QED BY <1>6, <3>1
  <2>5. \A i \in 0..N: i = 0 \/ (i \in 1..N /\ i # 0)
    BY <1>1
  <2>6. \A i \in 0..N: h[i] = IF i = 0 THEN {x0} ELSE {Step(z): z \in h[i - 1]}
    BY <2>2, <2>4, <2>5
  <2>7. QED BY <1>0, <2>3, <2>6
<1>8. \A r: r = R(r) => /\ r[0] = {x0}
                        /\ \A i \in 1..N: r[i] = {Step(z): z \in r[i - 1]}
  <2> SUFFICES ASSUME NEW r, r = R(r)
               PROVE  r[0] = {x0} /\ \A i \in 1..N: r[i] = {Step(z): z \in r[i - 1]}
    OBVIOUS
  <2>1. r = [i \in 0..N |-> IF i = 0 THEN {x0} ELSE {Step(z): z \in r[i - 1]}]
    BY <1>0
  <2> HIDE DEF R
  <2>2. QED BY ONLY <1>1, <2>1
<1> HIDE DEF R
<1>9. PICK f: f = (CHOOSE r: r = R(r)) /\ f = R(f)
  <2>1. QED BY <1>7
<1>10. Follows(f, g, N)
  <2>1. f[0] = {g[0]}
    BY <1>5, <1>8, <1>9
  <2>2. ASSUME NEW i \in 1..N, f[i - 1] = {g[i - 1]} PROVE f[i] = {g[i]}
    <3>1. f[i] = {Step(z): z \in f[i - 1]}
      BY <1>8, <1>9
    <3>2. f[i] = {Step(g[i - 1])}
      BY <1>6, <2>2, <3>1
    <3>3. QED BY <1>5, <3>2
  <2>3. QED BY <2>1, <2>2 DEF Follows
<1>11. Expiry(t, key, time) = g[N]
  <2>1. f[N] = {g[N]}
    BY <1>1, <1>10, OneRun
  <2>2. (CHOOSE z \in {g[N]}: TRUE) = g[N]
    OBVIOUS
  <2>3. QED BY <1>3, <1>9, <2>1, <2>2
<1>12. ExpireRun(t, M, key, time, g)
  BY <1>0, <1>5, <1>11 DEF N, ExpireRun, Step
<1>13. QED BY <1>12

(* What the loop leaves: the tree without the timers listed, all of them *)
(* due, none twice. *)
LEMMA ExpiryIs ==
  ASSUME NEW key \in [Nodes -> Nat], NEW t, NEW M, NEW time, GoodTree(t, M, key)
  PROVE  ListedFrom(Tree(Expiry(t, key, time)), ListOf(Expiry(t, key, time)), M, key, time)
<1>1. PICK g: ExpireRun(t, M, key, time, g)
  BY ExpireRuns
<1>2. Expiry(t, key, time) \in Expiring(M, key, time)
  BY <1>1, NodesCount DEF ExpireRun
<1>3. QED BY <1>2 DEF Expiring

(* What RemoveFirst leaves of a list on which nothing comes twice. *)
LEMMA RemoveFirstIs ==
  ASSUME NEW S, NEW list \in Seq(S), Injective(list), NEW x
  PROVE  /\ RemoveFirst(list, x) \in Seq(S)
         /\ ToSet(RemoveFirst(list, x)) = ToSet(list) \ {x}
         /\ Injective(RemoveFirst(list, x))
<1>1. DOMAIN list = 1..Len(list) /\ Len(list) \in Nat
  OBVIOUS
<1>2. RemoveFirst(list, x) = Removed(list, x)
  <2>1. CASE x \notin ToSet(list)
    BY <1>1, <2>1 DEF RemoveFirst, Removed, ToSet
  <2>2. CASE x \in ToSet(list)
    <3> DEFINE k == CHOOSE i \in DOMAIN list: list[i] = x
    <3>1. k \in 1..Len(list) /\ list[k] = x
      BY <1>1, <2>2 DEF ToSet
    <3>2. {i \in 1..Len(list): list[i] = x} = {k}
      BY <1>1, <3>1 DEF Injective
    <3>3. Removed(list, x) = RemoveAt(list, k)
      BY <2>2 DEF Removed
    <3> HIDE DEF k
    <3>4. Min({k}) = k
      <4>1. k \in Nat /\ {k} \in SUBSET Nat /\ {k} # {}
        BY <1>1, <3>1
      <4>2. Min({k}) \in {k}
        BY <4>1, MinIs
      <4>3. QED BY <4>2
    <3>5. SelectInSeq(list, LAMBDA v: v = x) = k
      BY <3>2, <3>4 DEF SelectInSeq
    <3>6. RemoveFirst(list, x) = RemoveAt(list, SelectInSeq(list, LAMBDA v: v = x))
      BY <3>1 DEF RemoveFirst
    <3>7. QED BY <3>3, <3>5, <3>6
  <2>3. QED BY <2>1, <2>2
<1>3. QED BY <1>2, RemoveIs

-----------------------------------------------------------------------------
(* The loop's own variables *)

LoopValues ==
  /\ pc \in {"user", "notify", "idle", "timer"}
  /\ running \in Callbacks
  /\ now \in Times
  /\ fault \in {"none", "assert", "corrupt"}
  /\ calls \in 0..MaxCalls

(* An idle function is on its list once, and not while it runs; while one *)
(* waits the loop knows of it. *)
IdleInv ==
  /\ idles \in Seq(Idles) /\ has_idle \in BOOLEAN
  /\ Injective(idles)
  /\ \A i \in ToSet(idles): ~RunningIdle(i)
  /\ idles # <<>> => has_idle

TimerTypes ==
  /\ timer_tree \in Trees
  /\ timeout \in [Nodes -> Times]
  /\ func_set \in [Nodes -> BOOLEAN]
  /\ expired \in Seq(Nodes)
  /\ has_timeout \in BOOLEAN /\ base_timeout \in Times

(* A timer is in the tree, once on the list of those that are due, or *)
(* running; on the list its time has come, unless it was removed; and the *)
(* list is only in use while the loop runs timers. *)
TimerPlaces ==
  /\ Injective(expired)
  /\ expired # <<>> => pc = "timer"
  /\ \A t \in ToSet(expired): t \notin InTree /\ ~RunningTimer(t) /\ (func_set[t] => timeout[t] <= now)
  /\ \A t \in InTree: func_set[t] /\ ~RunningTimer(t)
  /\ InTree # {} => has_timeout

TimerInv == TimerTypes /\ TimerPlaces /\ GoodTree(timer_tree, InTree, timeout)

(* The inductive invariant of the loop. *)
DispatchInv == WatchInv /\ LoopValues /\ IdleInv /\ TimerInv

LEMMA TimesFacts == Times \subseteq Nat /\ 0 \in Times /\ [Nodes -> Times] \subseteq [Nodes -> Nat]
BY MaxTimeAssumption DEF Times

LEMMA HeadIs ==
  ASSUME NEW S, NEW list \in Seq(S), list # <<>>
  PROVE  Head(list) \in S
OBVIOUS

-----------------------------------------------------------------------------

LEMMA NextKeepsLoopValues ==
  ASSUME DispatchInv, [Next]_vars
  PROVE  LoopValues'
<1> USE DEF DispatchInv
<1>1. CASE Call
  <2>1. UNCHANGED <<pc, running, now>> /\ calls' = calls + 1 /\ calls < MaxCalls
    BY <1>1 DEF Call, Called, CallWatchFd, CallUnwatchFd, CallFdClosed, CallAddTimer, CanCall,
       CallAdjustTimer, CallRemoveTimer, CallAddIdle, CallRemoveIdle
  <2>2. fault' \in {"none", "assert", "corrupt"}
    BY <1>1 DEF Call, Called, CallWatchFd, CallUnwatchFd, CallFdClosed, CallAddTimer,
       CallAdjustTimer, CallRemoveTimer, CallAddIdle, CallRemoveIdle
  <2>3. QED BY <2>1, <2>2, MaxCallsAssumption DEF LoopValues
<1>2. CASE Notify
  <2>1. PICK n: n = Head(notifies)
    OBVIOUS
  <2>2. n \in Reported
    BY <1>2, <2>1, HeadIs DEF WatchInv, NotifyInv, Notify
  <2>3. n.fd \in Fds /\ n.events \in EventSets
    BY <2>2, ReportedFields
  <2>4. running' \in Callbacks
    <3>1. CASE Deliverable(n)
      <4>1. IsWatched(n.fd) /\ EntryOf(n.fd).events \cap n.events # {}
        BY <3>1 DEF Deliverable
      <4>2. EntryOf(n.fd) \in Desired
        BY <2>3, <4>1, EntriesOfWatched DEF WatchInv
      <4>3. PICK evs, f: evs = EntryOf(n.fd).events \cap n.events /\ f = EntryOf(n.fd).func
        OBVIOUS
      <4>4. f \in Funcs /\ evs \in EventSets \ {{}}
        BY <2>3, <4>1, <4>2, <4>3 DEF Desired, EventSets
      <4>5. running' = [kind |-> "fd", fd |-> n.fd, events |-> evs, func |-> f]
        BY <1>2, <2>1, <3>1, <4>3 DEF Notify
      <4>6. QED BY <2>3, <4>4, <4>5 DEF Callbacks
    <3>2. CASE ~Deliverable(n)
      BY <1>2, <2>1, <3>2 DEF Notify, Callbacks
    <3>3. QED BY <3>1, <3>2
  <2>5. QED BY <1>2, <2>4 DEF LoopValues, Notify
<1>3. CASE NotifyDone \/ IdleDone \/ TimerDone
  BY <1>3 DEF NotifyDone, IdleDone, TimerDone, LoopValues
<1>4. CASE RunIdle
  <2>1. Head(idles) \in Idles
    BY <1>4, HeadIs DEF RunIdle, IdleInv
  <2>2. running' \in Callbacks
    BY <1>4, <2>1 DEF RunIdle, Callbacks
  <2>3. QED BY <1>4, <2>2 DEF RunIdle, LoopValues
<1>5. CASE RunTimer
  <2>1. Head(expired) \in Nodes
    BY <1>5, HeadIs DEF RunTimer, TimerInv, TimerTypes
  <2>2. running' \in Callbacks
    BY <1>5, <2>1 DEF RunTimer, Callbacks, LoopValues
  <2>3. QED BY <1>5, <2>2 DEF RunTimer, LoopValues
<1>6. CASE Return
  BY <1>6 DEF Return, LoopValues, Callbacks
<1>7. CASE \E time \in Times, ready \in Reports: Run(time, ready)
  BY <1>7 DEF Run, LoopValues
<1>8. CASE UNCHANGED vars
  BY <1>8 DEF vars, loopVars, LoopValues
<1>9. QED BY <1>1, <1>2, <1>3, <1>4, <1>5, <1>6, <1>7, <1>8 DEF Next, Dispatch

LEMMA NextKeepsIdleInv ==
  ASSUME DispatchInv, [Next]_vars
  PROVE  IdleInv'
<1> USE DEF DispatchInv
<1>1. ASSUME UNCHANGED idleVars, \A i: ~RunningIdle(i) => ~RunningIdle(i)' PROVE IdleInv'
  BY <1>1 DEF IdleInv, idleVars
<1>2. ASSUME UNCHANGED running PROVE \A i: ~RunningIdle(i) => ~RunningIdle(i)'
  BY <1>2 DEF RunningIdle
<1>3. ASSUME NEW i \in Idles, CallAddIdle(i) PROVE IdleInv'
  <2>1. /\ idles' = Append(idles, i) /\ has_idle' = TRUE /\ running' = running
        /\ i \notin ToSet(idles) /\ ~RunningIdle(i)
    BY <1>3 DEF CallAddIdle, AddIdle, Called, LiveIdle
  <2>2. /\ Append(idles, i) \in Seq(Idles) /\ ToSet(Append(idles, i)) = ToSet(idles) \cup {i}
        /\ Injective(Append(idles, i))
    BY <2>1, AppendIs DEF IdleInv
  <2>3. \A j \in ToSet(idles'): ~RunningIdle(j)'
    BY <2>1, <2>2 DEF IdleInv, RunningIdle
  <2>4. QED BY <2>1, <2>2, <2>3 DEF IdleInv
<1>4. ASSUME NEW i \in Idles, CallRemoveIdle(i) PROVE IdleInv'
  <2>1. running' = running
    BY <1>4 DEF CallRemoveIdle, Called
  <2>2. CASE RunningIdle(i)
    BY <1>1, <1>2, <1>4, <2>1, <2>2 DEF CallRemoveIdle
  <2>3. CASE ~RunningIdle(i)
    <3>1. idles' = RemoveFirst(idles, i) /\ has_idle' = (has_idle /\ idles' # <<>>)
      BY <1>4, <2>3 DEF CallRemoveIdle, RemoveIdle
    <3>2. /\ idles' \in Seq(Idles) /\ ToSet(idles') = ToSet(idles) \ {i}
          /\ Injective(idles')
      BY <3>1, RemoveFirstIs DEF IdleInv
    <3>3. \A j \in ToSet(idles'): ~RunningIdle(j)'
      BY <2>1, <3>2 DEF IdleInv, RunningIdle
    <3>4. idles' # <<>> => has_idle
      BY <3>2 DEF IdleInv, ToSet
    <3>5. QED BY <3>1, <3>2, <3>3, <3>4 DEF IdleInv
  <2>4. QED BY <2>2, <2>3
<1>5. CASE Call
  <2>1. ASSUME NEW fd \in Fds, NEW events \in EventSets, NEW func \in Funcs, CallWatchFd(fd, events, func)
        PROVE  IdleInv'
    BY <1>1, <1>2, <2>1 DEF CallWatchFd, Called, idleVars
  <2>2. ASSUME NEW fd \in Fds, CallUnwatchFd(fd) \/ CallFdClosed(fd) PROVE IdleInv'
    BY <1>1, <1>2, <2>2 DEF CallUnwatchFd, CallFdClosed, Called, idleVars
  <2>3. ASSUME NEW t \in Nodes, NEW when \in Times, CallAddTimer(t, when) \/ CallAdjustTimer(t, when)
        PROVE  IdleInv'
    BY <1>1, <1>2, <2>3 DEF CallAddTimer, CallAdjustTimer, Called, idleVars
  <2>4. ASSUME NEW t \in Nodes, CallRemoveTimer(t) PROVE IdleInv'
    BY <1>1, <1>2, <2>4 DEF CallRemoveTimer, Called, idleVars
  <2>5. QED BY <1>3, <1>4, <1>5, <2>1, <2>2, <2>3, <2>4 DEF Call
<1>6. CASE Notify
  <2>1. \A i: ~RunningIdle(i)'
    BY <1>6 DEF Notify, RunningIdle, NoCallback
  <2>2. QED BY <1>1, <1>6, <2>1 DEF Notify
<1>7. CASE NotifyDone \/ TimerDone
  BY <1>1, <1>2, <1>7 DEF NotifyDone, TimerDone
<1>8. CASE RunIdle
  <2>1. /\ idles # <<>> /\ idles' = Tail(idles) /\ has_idle' = has_idle
        /\ running' = [kind |-> "idle", idle |-> Head(idles)]
    BY <1>8 DEF RunIdle
  <2>2. /\ Tail(idles) \in Seq(Idles) /\ ToSet(Tail(idles)) = ToSet(idles) \ {Head(idles)}
        /\ Injective(Tail(idles))
    BY <2>1, TailIs DEF IdleInv
  <2>3. \A j \in ToSet(idles'): ~RunningIdle(j)'
    BY <2>1, <2>2 DEF RunningIdle
  <2>4. QED BY <2>1, <2>2, <2>3 DEF IdleInv
<1>9. CASE IdleDone
  <2>1. idles = <<>> /\ idles' = <<>> /\ has_idle' = FALSE /\ running' = running
    BY <1>9 DEF IdleDone
  <2>2. Injective(<<>>) /\ ToSet(<<>>) = {} /\ <<>> \in Seq(Idles)
    BY DEF Injective, ToSet
  <2>3. QED BY <2>1, <2>2 DEF IdleInv
<1>10. CASE RunTimer
  <2>1. \A i: ~RunningIdle(i) => ~RunningIdle(i)'
    BY <1>10 DEF RunTimer, RunningIdle
  <2>2. QED BY <1>1, <1>10, <2>1 DEF RunTimer
<1>11. CASE Return
  <2>1. \A i: ~RunningIdle(i)'
    BY <1>11 DEF Return, RunningIdle, NoCallback
  <2>2. QED BY <1>1, <1>11, <2>1 DEF Return
<1>12. CASE \E time \in Times, ready \in Reports: Run(time, ready)
  BY <1>1, <1>2, <1>12 DEF Run
<1>13. CASE UNCHANGED vars
  BY <1>1, <1>2, <1>13 DEF vars, loopVars
<1>14. QED BY <1>5, <1>6, <1>7, <1>8, <1>9, <1>10, <1>11, <1>12, <1>13 DEF Next, Dispatch

-----------------------------------------------------------------------------
(* The timers, operation by operation. *)

(* What a good tree tells of InTree, in a state and in the next. *)
LEMMA InTreeIs ==
  ASSUME TimerInv
  PROVE  /\ timeout \in [Nodes -> Nat] /\ timer_tree \in Trees /\ InTree \in SUBSET Nodes
         /\ InTree = {} <=> timer_tree.top = NULL
         /\ InTree # {} => RbFirst(timer_tree) \in InTree
         /\ IsFiniteSet(InTree)
<1>1. PICK key, t, M: key = timeout /\ t = timer_tree /\ M = InTree
  OBVIOUS
<1>2. key \in [Nodes -> Nat] /\ GoodTree(t, M, key)
  BY <1>1, TimesFacts DEF TimerInv, TimerTypes
<1>3. QED BY <1>1, <1>2, GoodTreeFacts, NodesAssumption, FS_Subset

LEMMA InTreeNext ==
  ASSUME NEW M, timeout' \in [Nodes -> Times], GoodTree(timer_tree', M, timeout')
  PROVE  /\ InTree' = M /\ timer_tree' \in Trees /\ GoodTree(timer_tree', InTree', timeout')
         /\ M = {} <=> timer_tree'.top = NULL
         /\ M # {} => RbFirst(timer_tree') \in M
         /\ M \in SUBSET Nodes
<1>1. PICK key, t: key = timeout' /\ t = timer_tree'
  OBVIOUS
<1>2. key \in [Nodes -> Nat] /\ GoodTree(t, M, key)
  BY <1>1, TimesFacts
<1>3. Members(t) = M
  BY <1>2, GoodTreeFacts
<1>4. InTree' = M
  BY <1>1, <1>3 DEF InTree
<1>5. QED BY <1>1, <1>2, <1>4, GoodTreeFacts

(* Steps that leave the timers alone. *)
LEMMA TimersLeft ==
  ASSUME TimerInv, UNCHANGED <<timer_tree, timeout, func_set, expired, has_timeout, base_timeout>>,
         \A t: ~RunningTimer(t) => ~RunningTimer(t)',
         expired # <<>> => pc' = pc /\ now' = now
  PROVE  TimerInv'
<1>1. InTree' = InTree
  BY DEF InTree
<1>2. TimerTypes'
  BY DEF TimerInv, TimerTypes
<1>3. GoodTree(timer_tree, InTree, timeout)'
  BY <1>1 DEF TimerInv
<1>4. ToSet(expired) # {} => expired # <<>>
  BY DEF ToSet
<1>5. TimerPlaces'
  BY <1>1, <1>4 DEF TimerInv, TimerPlaces
<1>6. QED BY <1>2, <1>3, <1>5 DEF TimerInv

LEMMA AddTimerKeeps ==
  ASSUME DispatchInv, NEW t \in Nodes, NEW when \in Times, CallAddTimer(t, when)
  PROVE  TimerInv' /\ InTree' = InTree \cup {t}
<1> USE DEF DispatchInv
<1>1. /\ timeout' = [timeout EXCEPT ![t] = when] /\ func_set' = [func_set EXCEPT ![t] = TRUE]
      /\ timer_tree' = RbInsert(timer_tree, timeout', t)
      /\ IF OnLeftSpine(timer_tree', t)
         THEN has_timeout' = TRUE /\ base_timeout' = when
         ELSE UNCHANGED <<has_timeout, base_timeout>>
      /\ expired' = expired /\ running' = running /\ pc' = pc /\ now' = now
      /\ t \notin InTree /\ t \notin ToSet(expired) /\ ~RunningTimer(t)
  BY DEF CallAddTimer, AddTimer, Called, InUse, IsExpired
<1>2. /\ timeout \in [Nodes -> Times] /\ func_set \in [Nodes -> BOOLEAN] /\ expired \in Seq(Nodes)
      /\ has_timeout \in BOOLEAN /\ base_timeout \in Times
  BY DEF TimerInv, TimerTypes
<1>3. /\ timeout' \in [Nodes -> Times] /\ func_set' \in [Nodes -> BOOLEAN]
      /\ timeout'[t] = when /\ func_set'[t] = TRUE
      /\ \A m \in Nodes \ {t}: timeout'[m] = timeout[m] /\ func_set'[m] = func_set[m]
  BY <1>1, <1>2
<1>4. InTree \in SUBSET Nodes
  BY InTreeIs
<1>5. GoodTree(timer_tree', InTree \cup {t}, timeout')
  <2>1. PICK tree, tree2, key, key2, M: tree = timer_tree /\ tree2 = timer_tree' /\ key = timeout
          /\ key2 = timeout' /\ M = InTree
    OBVIOUS
  <2>2. key \in [Nodes -> Nat] /\ key2 \in [Nodes -> Nat] /\ GoodTree(tree, M, key) /\ t \notin M
    BY <1>1, <1>2, <1>3, <2>1, TimesFacts DEF TimerInv
  <2>3. \A m \in M: key2[m] = key[m]
    BY <1>3, <1>4, <2>1, <2>2
  <2>4. GoodTree(RbInsert(tree, key2, t), M \cup {t}, key2)
    BY <2>2, <2>3, AddedIs
  <2>5. QED BY <1>1, <2>1, <2>4
<1>6. InTree' = InTree \cup {t} /\ timer_tree' \in Trees /\ GoodTree(timer_tree', InTree', timeout')
  BY <1>3, <1>5, InTreeNext
<1>7. has_timeout'
  <2>1. CASE InTree = {}
    <3>1. PICK tree2, key2: tree2 = timer_tree' /\ key2 = timeout'
      OBVIOUS
    <3>2. key2 \in [Nodes -> Nat] /\ GoodTree(tree2, {t}, key2)
      BY <1>3, <1>6, <2>1, <3>1, TimesFacts
    <3>3. OnLeftSpine(tree2, t)
      BY <3>2, AloneIsFirst
    <3>4. QED BY <1>1, <3>1, <3>3
  <2>2. CASE InTree # {}
    <3>1. has_timeout
      BY <2>2 DEF TimerInv, TimerPlaces
    <3>2. QED BY <1>1, <3>1
  <2>3. QED BY <2>1, <2>2
<1>8. TimerTypes'
  BY <1>1, <1>2, <1>3, <1>6 DEF TimerTypes
<1>9. \A m: RunningTimer(m)' <=> RunningTimer(m)
  BY <1>1 DEF RunningTimer
<1>10. \A m \in ToSet(expired): m \in Nodes /\ m # t
  BY <1>1, <1>2 DEF ToSet
<1>11. /\ Injective(expired) /\ (expired # <<>> => pc = "timer")
       /\ \A m \in ToSet(expired): m \notin InTree /\ ~RunningTimer(m) /\ (func_set[m] => timeout[m] <= now)
       /\ \A m \in InTree: func_set[m] /\ ~RunningTimer(m)
  BY DEF TimerInv, TimerPlaces
<1>12. \A m \in ToSet(expired)': m \notin InTree' /\ ~RunningTimer(m)' /\ (func_set'[m] => timeout'[m] <= now')
  <2> TAKE m \in ToSet(expired)'
  <2>1. m \in ToSet(expired) /\ m \in Nodes \ {t} /\ timeout'[m] = timeout[m] /\ func_set'[m] = func_set[m]
    BY <1>1, <1>3, <1>10
  <2>2. QED BY <1>1, <1>6, <1>9, <1>11, <2>1
<1>13. \A m \in InTree': func_set'[m] /\ ~RunningTimer(m)'
  <2> TAKE m \in InTree'
  <2>1. CASE m = t
    BY <1>1, <1>3, <1>9, <2>1
  <2>2. CASE m # t
    BY <1>3, <1>4, <1>6, <1>9, <1>11, <2>2
  <2>3. QED BY <2>1, <2>2
<1>14. TimerPlaces'
  BY <1>1, <1>7, <1>11, <1>12, <1>13 DEF TimerPlaces
<1>15. QED BY <1>6, <1>8, <1>14 DEF TimerInv

LEMMA AdjustTimerKeeps ==
  ASSUME DispatchInv, NEW t \in Nodes, NEW when \in Times, t \in InTree,
         CallAdjustTimer(t, when)
  PROVE  TimerInv' /\ InTree' = InTree
<1> USE DEF DispatchInv
<1>1. /\ timeout' = [timeout EXCEPT ![t] = when] /\ func_set' = func_set
      /\ timer_tree' = RbInsert(RbRemove(timer_tree, t), timeout', t)
      /\ base_timeout' = base_timeout \/ base_timeout' = timeout'[RbFirst(timer_tree')]
      /\ has_timeout' = has_timeout
      /\ expired' = expired /\ running' = running /\ pc' = pc /\ now' = now
  BY DEF CallAdjustTimer, AdjustTimer, Called
<1>2. /\ timeout \in [Nodes -> Times] /\ func_set \in [Nodes -> BOOLEAN] /\ expired \in Seq(Nodes)
      /\ has_timeout \in BOOLEAN /\ base_timeout \in Times
  BY DEF TimerInv, TimerTypes
<1>3. /\ timeout' \in [Nodes -> Times] /\ \A m \in Nodes \ {t}: timeout'[m] = timeout[m]
  BY <1>1, <1>2
<1>4. InTree \in SUBSET Nodes
  BY InTreeIs
<1>5. GoodTree(timer_tree', InTree, timeout')
  <2>1. PICK tree, tree2, key, key2, M: tree = timer_tree /\ tree2 = timer_tree' /\ key = timeout
          /\ key2 = timeout' /\ M = InTree
    OBVIOUS
  <2>2. key \in [Nodes -> Nat] /\ key2 \in [Nodes -> Nat] /\ GoodTree(tree, M, key) /\ t \in M
    BY <1>2, <1>3, <2>1, TimesFacts DEF TimerInv
  <2>3. \A m \in M \ {t}: key2[m] = key[m]
    BY <1>3, <1>4, <2>1, <2>2
  <2>4. GoodTree(RbInsert(RbRemove(tree, t), key2, t), M, key2)
    BY <2>2, <2>3, AdjustedIs
  <2>5. QED BY <1>1, <2>1, <2>4
<1>6. /\ InTree' = InTree /\ timer_tree' \in Trees /\ GoodTree(timer_tree', InTree', timeout')
      /\ RbFirst(timer_tree') \in Nodes
  BY <1>3, <1>5, InTreeNext
<1>7. base_timeout' \in Times
  BY <1>1, <1>2, <1>3, <1>6
<1>8. TimerTypes'
  BY <1>1, <1>2, <1>3, <1>6, <1>7 DEF TimerTypes
<1>9. \A m: RunningTimer(m)' <=> RunningTimer(m)
  BY <1>1 DEF RunningTimer
<1>10. /\ Injective(expired) /\ (expired # <<>> => pc = "timer")
       /\ \A m \in ToSet(expired): m \notin InTree /\ ~RunningTimer(m) /\ (func_set[m] => timeout[m] <= now)
       /\ \A m \in InTree: func_set[m] /\ ~RunningTimer(m)
       /\ InTree # {} => has_timeout
  BY DEF TimerInv, TimerPlaces
<1>11. \A m \in ToSet(expired): m \in Nodes \ {t}
  BY <1>2, <1>10 DEF ToSet
<1>12. \A m \in ToSet(expired)': m \notin InTree' /\ ~RunningTimer(m)' /\ (func_set'[m] => timeout'[m] <= now')
  <2> TAKE m \in ToSet(expired)'
  <2>1. m \in ToSet(expired) /\ m \in Nodes \ {t} /\ timeout'[m] = timeout[m] /\ func_set'[m] = func_set[m]
    BY <1>1, <1>3, <1>11
  <2>2. QED BY <1>1, <1>6, <1>9, <1>10, <2>1
<1>13. TimerPlaces'
  BY <1>1, <1>6, <1>9, <1>10, <1>12 DEF TimerPlaces
<1>14. QED BY <1>6, <1>8, <1>13 DEF TimerInv

LEMMA RemoveWaitingKeeps ==
  ASSUME DispatchInv, NEW t \in InTree, CallRemoveTimer(t)
  PROVE  TimerInv' /\ InTree' = InTree \ {t}
<1> USE DEF DispatchInv
<1>1. /\ timeout' = [timeout EXCEPT ![t] = 0] /\ func_set' = [func_set EXCEPT ![t] = FALSE]
      /\ timer_tree' = RbRemove(timer_tree, t)
      /\ base_timeout' = base_timeout
         \/ (timer_tree'.top # NULL /\ base_timeout' = timeout[RbFirst(timer_tree')])
      /\ has_timeout' \in BOOLEAN
      /\ timer_tree'.top # NULL => has_timeout' = has_timeout
      /\ expired' = expired /\ running' = running /\ pc' = pc /\ now' = now
  <2>1. has_timeout \in BOOLEAN
    BY DEF TimerInv, TimerTypes
  <2>2. QED BY <2>1 DEF CallRemoveTimer, RemoveWaitingTimer, Called
<1>2. /\ timeout \in [Nodes -> Times] /\ func_set \in [Nodes -> BOOLEAN] /\ expired \in Seq(Nodes)
      /\ has_timeout \in BOOLEAN /\ base_timeout \in Times
  BY DEF TimerInv, TimerTypes
<1>3. InTree \in SUBSET Nodes /\ t \in Nodes
  BY InTreeIs
<1>4. /\ timeout' \in [Nodes -> Times] /\ func_set' \in [Nodes -> BOOLEAN]
      /\ \A m \in Nodes \ {t}: timeout'[m] = timeout[m] /\ func_set'[m] = func_set[m]
  BY <1>1, <1>2, TimesFacts
<1>5. GoodTree(timer_tree', InTree \ {t}, timeout')
  <2>1. PICK tree, tree2, key, key2, M: tree = timer_tree /\ tree2 = timer_tree' /\ key = timeout
          /\ key2 = timeout' /\ M = InTree
    OBVIOUS
  <2>2. key \in [Nodes -> Nat] /\ key2 \in [Nodes -> Nat] /\ GoodTree(tree, M, key) /\ t \in M
    BY <1>2, <1>4, <2>1, TimesFacts DEF TimerInv
  <2>3. \A m \in M \ {t}: key2[m] = key[m]
    BY <1>3, <1>4, <2>1
  <2>4. GoodTree(RbRemove(tree, t), M \ {t}, key2)
    BY <2>2, <2>3, RemovedIs
  <2>5. QED BY <1>1, <2>1, <2>4
<1>6. PICK M: M = InTree \ {t}
  OBVIOUS
<1>7. /\ InTree' = M /\ timer_tree' \in Trees /\ GoodTree(timer_tree', InTree', timeout')
      /\ M = {} <=> timer_tree'.top = NULL
      /\ M # {} => RbFirst(timer_tree') \in Nodes
  BY <1>4, <1>5, <1>6, InTreeNext
<1>8. base_timeout' \in Times
  BY <1>1, <1>2, <1>7
<1>9. TimerTypes'
  BY <1>1, <1>2, <1>4, <1>7, <1>8 DEF TimerTypes
<1>10. \A m: RunningTimer(m)' <=> RunningTimer(m)
  BY <1>1 DEF RunningTimer
<1>11. /\ Injective(expired) /\ (expired # <<>> => pc = "timer")
       /\ \A m \in ToSet(expired): m \notin InTree /\ ~RunningTimer(m) /\ (func_set[m] => timeout[m] <= now)
       /\ \A m \in InTree: func_set[m] /\ ~RunningTimer(m)
       /\ InTree # {} => has_timeout
  BY DEF TimerInv, TimerPlaces
<1>12. \A m \in ToSet(expired): m \in Nodes \ {t}
  BY <1>2, <1>11 DEF ToSet
<1>13. \A m \in ToSet(expired)': m \notin InTree' /\ ~RunningTimer(m)' /\ (func_set'[m] => timeout'[m] <= now')
  <2> TAKE m \in ToSet(expired)'
  <2>1. m \in ToSet(expired) /\ m \in Nodes \ {t} /\ timeout'[m] = timeout[m] /\ func_set'[m] = func_set[m]
    BY <1>1, <1>4, <1>12
  <2>2. QED BY <1>1, <1>6, <1>7, <1>10, <1>11, <2>1
<1>14. \A m \in InTree': func_set'[m] /\ ~RunningTimer(m)'
  <2> TAKE m \in InTree'
  <2>1. m \in InTree /\ m \in Nodes \ {t}
    BY <1>3, <1>6, <1>7
  <2>2. QED BY <1>4, <1>10, <1>11, <2>1
<1>15. InTree' # {} => has_timeout'
  BY <1>1, <1>6, <1>7, <1>11
<1>16. TimerPlaces'
  BY <1>1, <1>11, <1>13, <1>14, <1>15 DEF TimerPlaces
<1>17. QED BY <1>6, <1>7, <1>9, <1>16 DEF TimerInv

(* The fields of a timer that is nowhere but on the list of those that are *)
(* due, or nowhere, are not read. *)
LEMMA FieldsFreed ==
  ASSUME TimerInv, NEW t \in Nodes, t \notin InTree,
         func_set' = [func_set EXCEPT ![t] = FALSE],
         timeout' = timeout \/ timeout' = [timeout EXCEPT ![t] = 0],
         UNCHANGED <<timer_tree, has_timeout, base_timeout, pc, now>>,
         expired' \in Seq(Nodes), Injective(expired'), ToSet(expired') \subseteq ToSet(expired),
         \A m: ~RunningTimer(m) => ~RunningTimer(m)'
  PROVE  TimerInv' /\ InTree' = InTree
<1>1. /\ timeout \in [Nodes -> Times] /\ func_set \in [Nodes -> BOOLEAN] /\ expired \in Seq(Nodes)
      /\ timer_tree \in Trees /\ has_timeout \in BOOLEAN /\ base_timeout \in Times
  BY DEF TimerInv, TimerTypes
<1>2. /\ timeout' \in [Nodes -> Times] /\ func_set' \in [Nodes -> BOOLEAN] /\ func_set'[t] = FALSE
      /\ \A m \in Nodes \ {t}: timeout'[m] = timeout[m] /\ func_set'[m] = func_set[m]
  BY <1>1, TimesFacts
<1>3. InTree \in SUBSET Nodes
  BY InTreeIs
<1>4. GoodTree(timer_tree', InTree, timeout')
  <2>1. PICK tree, key, key2, M: tree = timer_tree /\ key = timeout /\ key2 = timeout' /\ M = InTree
    OBVIOUS
  <2>2. key \in [Nodes -> Nat] /\ key2 \in [Nodes -> Nat] /\ GoodTree(tree, M, key)
    BY <1>1, <1>2, <2>1, TimesFacts DEF TimerInv
  <2>3. \A m \in M: key2[m] = key[m]
    BY <1>2, <1>3, <2>1
  <2>4. GoodTree(tree, M, key2)
    BY <2>2, <2>3, GoodRekeyed
  <2>5. QED BY <2>1, <2>4
<1>5. InTree' = InTree /\ GoodTree(timer_tree', InTree', timeout')
  BY <1>2, <1>4, InTreeNext
<1>6. TimerTypes'
  BY <1>1, <1>2 DEF TimerTypes
<1>7. /\ (expired # <<>> => pc = "timer")
      /\ \A m \in ToSet(expired): m \notin InTree /\ ~RunningTimer(m) /\ (func_set[m] => timeout[m] <= now)
      /\ \A m \in InTree: func_set[m] /\ ~RunningTimer(m)
      /\ InTree # {} => has_timeout
  BY DEF TimerInv, TimerPlaces
<1>8. \A m \in ToSet(expired)': m \notin InTree' /\ ~RunningTimer(m)' /\ (func_set'[m] => timeout'[m] <= now')
  <2> TAKE m \in ToSet(expired)'
  <2>1. m \in ToSet(expired) /\ m \in Nodes
    <3>1. ToSet(expired)' = ToSet(expired')
      BY DEF ToSet
    <3>2. \A l \in ToSet(expired): l \in Nodes
      BY <1>1 DEF ToSet
    <3>3. QED BY <3>1, <3>2
  <2>2. func_set'[m] => timeout'[m] = timeout[m] /\ func_set[m]
    BY <1>2, <2>1
  <2>3. QED BY <1>5, <1>7, <2>1, <2>2
<1>9. \A m \in InTree': func_set'[m] /\ ~RunningTimer(m)'
  <2> TAKE m \in InTree'
  <2>1. m \in InTree /\ m \in Nodes \ {t}
    BY <1>3, <1>5
  <2>2. QED BY <1>2, <1>7, <2>1
<1>10. expired' # <<>> => expired # <<>>
  <2>1. expired' # <<>> => ToSet(expired') # {}
    BY DEF ToSet
  <2>2. expired = <<>> => ToSet(expired) = {}
    BY DEF ToSet
  <2>3. QED BY <2>1, <2>2
<1>11. TimerPlaces'
  BY <1>5, <1>7, <1>8, <1>9, <1>10 DEF TimerPlaces
<1>12. QED BY <1>5, <1>6, <1>11 DEF TimerInv

(* What the loop over the timers leaves, as ExpireTimers says it. *)
LEMMA ExpireIs ==
  ASSUME ExpireTimers(now)
  PROVE  /\ timer_tree' = Tree(Expiry(timer_tree, timeout, now))
         /\ expired' = ListOf(Expiry(timer_tree, timeout, now))
         /\ has_timeout' = (has_timeout \/ timer_tree'.top # NULL)
         /\ base_timeout' = IF timer_tree'.top = NULL THEN base_timeout
                            ELSE timeout[RbFirst(timer_tree')]
         /\ UNCHANGED <<timeout, func_set>>
BY DEF ExpireTimers, Expiry, Expired, Tree, ListOf, Loop

LEMMA IdleDoneKeeps ==
  ASSUME DispatchInv, IdleDone
  PROVE  /\ TimerInv' /\ expired = <<>>
         /\ ToSet(expired') \subseteq InTree /\ InTree' = InTree \ ToSet(expired')
         /\ func_set' = func_set /\ timeout' = timeout
<1> USE DEF DispatchInv
<1>1. /\ ExpireTimers(now) /\ running = NoCallback /\ running' = running
      /\ pc = "idle" /\ pc' = "timer" /\ now' = now
  BY DEF IdleDone, AtLoop
<1>2. /\ timeout \in [Nodes -> Times] /\ func_set \in [Nodes -> BOOLEAN] /\ expired \in Seq(Nodes)
      /\ has_timeout \in BOOLEAN /\ base_timeout \in Times
  BY DEF TimerInv, TimerTypes
<1>3. expired = <<>>
  BY <1>1 DEF TimerInv, TimerPlaces
<1>4. PICK e: e = Expiry(timer_tree, timeout, now)
  OBVIOUS
<1>5. /\ timer_tree' = Tree(e) /\ expired' = ListOf(e)
      /\ has_timeout' = (has_timeout \/ timer_tree'.top # NULL)
      /\ base_timeout' = IF timer_tree'.top = NULL THEN base_timeout
                         ELSE timeout[RbFirst(timer_tree')]
      /\ timeout' = timeout /\ func_set' = func_set
  BY <1>1, <1>4, ExpireIs
<1>6. PICK M, D: M = InTree /\ D = ToSet(expired')
  OBVIOUS
<1>7. /\ expired' \in Seq(Nodes) /\ Injective(expired') /\ D \subseteq M
      /\ GoodTree(timer_tree', M \ D, timeout')
      /\ \A n \in D: timeout[n] <= now
  <2>1. PICK tree, tree2, list2, key, time: tree = timer_tree /\ tree2 = timer_tree' /\ list2 = expired'
          /\ key = timeout /\ time = now
    OBVIOUS
  <2>2. key \in [Nodes -> Nat] /\ GoodTree(tree, M, key)
    BY <1>2, <1>6, <2>1, TimesFacts DEF TimerInv
  <2>3. e = Expiry(tree, key, time)
    BY <1>4, <2>1
  <2>4. ListedFrom(Tree(e), ListOf(e), M, key, time)
    BY <2>2, <2>3, ExpiryIs
  <2>5. ListedFrom(tree2, list2, M, key, time)
    BY <1>5, <2>1, <2>4
  <2>6. QED BY <1>5, <1>6, <2>1, <2>5 DEF ListedFrom
<1>8. PICK M2: M2 = M \ D
  OBVIOUS
<1>9. /\ InTree' = M2 /\ timer_tree' \in Trees /\ GoodTree(timer_tree', InTree', timeout')
      /\ M2 = {} <=> timer_tree'.top = NULL
      /\ M2 # {} => RbFirst(timer_tree') \in Nodes
  BY <1>2, <1>5, <1>7, <1>8, InTreeNext
<1>10. TimerTypes'
  BY <1>2, <1>5, <1>7, <1>9 DEF TimerTypes
<1>11. \A m: ~RunningTimer(m)'
  BY <1>1 DEF RunningTimer, NoCallback
<1>12. ToSet(expired)' = D
  BY <1>6 DEF ToSet
<1>13. \A m \in InTree: func_set[m]
  BY DEF TimerInv, TimerPlaces
<1>14. \A m \in ToSet(expired)': m \notin InTree' /\ ~RunningTimer(m)' /\ (func_set'[m] => timeout'[m] <= now')
  BY <1>1, <1>5, <1>7, <1>8, <1>9, <1>11, <1>12
<1>15. \A m \in InTree': func_set'[m] /\ ~RunningTimer(m)'
  BY <1>5, <1>6, <1>8, <1>9, <1>11, <1>13
<1>16. InTree' # {} => has_timeout'
  BY <1>5, <1>9
<1>17. TimerPlaces'
  BY <1>1, <1>7, <1>14, <1>15, <1>16 DEF TimerPlaces
<1>18. QED BY <1>3, <1>5, <1>6, <1>7, <1>8, <1>9, <1>10, <1>17 DEF TimerInv

LEMMA RunTimerKeeps ==
  ASSUME DispatchInv, RunTimer
  PROVE  /\ TimerInv' /\ InTree' = InTree
         /\ Head(expired) \in Nodes /\ Head(expired) \in ToSet(expired)
         /\ Head(expired) \notin InTree
         /\ ToSet(expired') = ToSet(expired) \ {Head(expired)}
<1> USE DEF DispatchInv
<1>1. PICK t: t = Head(expired)
  OBVIOUS
<1>2. /\ expired # <<>> /\ expired' = Tail(expired) /\ running = NoCallback
      /\ UNCHANGED <<timer_tree, has_timeout, base_timeout, pc, now>> /\ pc = "timer"
      /\ IF func_set[t]
         THEN running' = [kind |-> "timer", timer |-> t] /\ UNCHANGED <<func_set, timeout>>
         ELSE FreeTimer(t) /\ UNCHANGED running
  BY <1>1 DEF RunTimer, AtLoop
<1>3. /\ timeout \in [Nodes -> Times] /\ func_set \in [Nodes -> BOOLEAN] /\ expired \in Seq(Nodes)
      /\ timer_tree \in Trees /\ has_timeout \in BOOLEAN /\ base_timeout \in Times
  BY DEF TimerInv, TimerTypes
<1>4. /\ Injective(expired)
      /\ \A m \in ToSet(expired): m \notin InTree /\ ~RunningTimer(m) /\ (func_set[m] => timeout[m] <= now)
      /\ \A m \in InTree: func_set[m] /\ ~RunningTimer(m)
      /\ InTree # {} => has_timeout
  BY DEF TimerInv, TimerPlaces
<1>5. /\ t \in ToSet(expired) /\ t \in Nodes /\ expired' \in Seq(Nodes)
      /\ ToSet(expired') = ToSet(expired) \ {t} /\ Injective(expired')
  BY <1>1, <1>2, <1>3, <1>4, TailIs
<1>6. t \notin InTree
  BY <1>4, <1>5
<1>7. CASE func_set[t]
  <2>1. running' = [kind |-> "timer", timer |-> t] /\ UNCHANGED <<func_set, timeout>>
    BY <1>2, <1>7
  <2>2. InTree' = InTree
    BY <1>2 DEF InTree
  <2>3. \A m: RunningTimer(m)' => m = t
    BY <2>1 DEF RunningTimer
  <2>4. ToSet(expired)' = ToSet(expired) \ {t}
    BY <1>5 DEF ToSet
  <2>5. TimerPlaces'
    BY <1>2, <1>4, <1>5, <1>6, <2>1, <2>2, <2>3, <2>4 DEF TimerPlaces
  <2>6. TimerTypes'
    BY <1>2, <1>3, <1>5, <2>1 DEF TimerTypes
  <2>7. GoodTree(timer_tree, InTree, timeout)'
    BY <1>2, <2>1, <2>2 DEF TimerInv
  <2>8. QED BY <1>1, <1>5, <1>6, <2>2, <2>5, <2>6, <2>7 DEF TimerInv
<1>8. CASE ~func_set[t]
  <2>1. /\ func_set' = [func_set EXCEPT ![t] = FALSE] /\ timeout' = [timeout EXCEPT ![t] = 0]
        /\ running' = running
    BY <1>2, <1>8 DEF FreeTimer
  <2>2. \A m: ~RunningTimer(m) => ~RunningTimer(m)'
    BY <2>1 DEF RunningTimer
  <2>3. ToSet(expired') \subseteq ToSet(expired)
    BY <1>5
  <2>4. TimerInv' /\ InTree' = InTree
    BY <1>2, <1>5, <1>6, <2>1, <2>2, <2>3, FieldsFreed
  <2>5. QED BY <1>1, <1>5, <1>6, <2>4
<1>9. QED BY <1>7, <1>8

LEMMA TimerDoneKeeps ==
  ASSUME DispatchInv, TimerDone
  PROVE  TimerInv'
<1> USE DEF DispatchInv
<1>1. /\ has_timeout' = (has_timeout /\ timer_tree.top # NULL) /\ expired = <<>> /\ expired' = <<>>
      /\ UNCHANGED <<timer_tree, timeout, func_set, base_timeout, running, now>>
  BY DEF TimerDone
<1>2. InTree' = InTree /\ (InTree # {} => timer_tree.top # NULL)
  BY <1>1, InTreeIs DEF InTree
<1>3. TimerTypes'
  BY <1>1 DEF TimerInv, TimerTypes
<1>4. GoodTree(timer_tree, InTree, timeout)'
  BY <1>1, <1>2 DEF TimerInv
<1>5. ToSet(expired)' = {}
  BY <1>1 DEF ToSet
<1>6. \A m: RunningTimer(m)' <=> RunningTimer(m)
  BY <1>1 DEF RunningTimer
<1>7. Injective(expired) /\ (InTree # {} => has_timeout) /\ \A m \in InTree: func_set[m] /\ ~RunningTimer(m)
  BY DEF TimerInv, TimerPlaces
<1>8. TimerPlaces'
  BY <1>1, <1>2, <1>5, <1>6, <1>7 DEF TimerPlaces
<1>9. QED BY <1>3, <1>4, <1>8 DEF TimerInv

(* The timer that ran is nowhere. *)
LEMMA RunningIsNowhere ==
  ASSUME DispatchInv, running.kind = "timer"
  PROVE  /\ running.timer \in Nodes /\ RunningTimer(running.timer)
         /\ running.timer \notin InTree /\ running.timer \notin ToSet(expired)
<1> USE DEF DispatchInv
<1>1. running.timer \in Nodes /\ running = [kind |-> "timer", timer |-> running.timer]
  BY DEF LoopValues, Callbacks, NoCallback
<1>2. PICK t: t = running.timer
  OBVIOUS
<1>3. RunningTimer(t)
  BY <1>1, <1>2 DEF RunningTimer
<1>4. t \notin InTree /\ t \notin ToSet(expired)
  BY <1>3 DEF TimerInv, TimerPlaces
<1>5. QED BY <1>1, <1>2, <1>3, <1>4

LEMMA ReturnKeeps ==
  ASSUME DispatchInv, Return
  PROVE  TimerInv' /\ InTree' = InTree /\ expired' = expired
<1> USE DEF DispatchInv
<1>1. /\ running' = NoCallback
      /\ UNCHANGED <<timer_tree, expired, has_timeout, base_timeout, pc, now>>
      /\ IF running.kind = "timer" THEN FreeTimer(running.timer) ELSE UNCHANGED <<func_set, timeout>>
  BY DEF Return
<1>2. \A m: ~RunningTimer(m)'
  BY <1>1 DEF RunningTimer, NoCallback
<1>3. CASE running.kind # "timer"
  <2>1. UNCHANGED <<timer_tree, timeout, func_set, expired, has_timeout, base_timeout>>
    BY <1>1, <1>3
  <2>2. TimerInv'
    BY <1>1, <1>2, <2>1, TimersLeft
  <2>3. InTree' = InTree
    BY <2>1 DEF InTree
  <2>4. QED BY <1>1, <2>2, <2>3
<1>4. CASE running.kind = "timer"
  <2>1. PICK t: t = running.timer
    OBVIOUS
  <2>2. t \in Nodes /\ t \notin InTree
    BY <1>4, <2>1, RunningIsNowhere
  <2>3. func_set' = [func_set EXCEPT ![t] = FALSE] /\ timeout' = [timeout EXCEPT ![t] = 0]
    BY <1>1, <1>4, <2>1 DEF FreeTimer
  <2>4. expired' \in Seq(Nodes) /\ Injective(expired') /\ ToSet(expired') \subseteq ToSet(expired)
    BY <1>1 DEF TimerInv, TimerTypes, TimerPlaces
  <2>5. TimerInv' /\ InTree' = InTree
    BY <1>1, <1>2, <2>2, <2>3, <2>4, FieldsFreed
  <2>6. QED BY <1>1, <2>5
<1>5. QED BY <1>3, <1>4

LEMMA RemoveExpiredKeeps ==
  ASSUME DispatchInv, NEW t \in Nodes, t \notin InTree, CallRemoveTimer(t)
  PROVE  TimerInv' /\ InTree' = InTree
<1> USE DEF DispatchInv
<1>1. /\ func_set' = [func_set EXCEPT ![t] = FALSE]
      /\ UNCHANGED <<timer_tree, timeout, expired, has_timeout, base_timeout, pc, running, now>>
  BY DEF CallRemoveTimer, RemoveExpiredTimer, Called
<1>2. expired' \in Seq(Nodes) /\ Injective(expired') /\ ToSet(expired') \subseteq ToSet(expired)
  BY <1>1 DEF TimerInv, TimerTypes, TimerPlaces
<1>3. \A m: ~RunningTimer(m) => ~RunningTimer(m)'
  BY <1>1 DEF RunningTimer
<1>4. QED BY <1>1, <1>2, <1>3, FieldsFreed

-----------------------------------------------------------------------------
(* Every step. *)

(* Adjusting a timer that is not in the tree ends the model's run. *)
LEMMA CorruptKeeps ==
  ASSUME DispatchInv, NEW t \in Nodes, NEW when \in Times, t \notin InTree, CallAdjustTimer(t, when)
  PROVE  TimerInv' /\ UNCHANGED <<timerVars, running>>
<1>1. UNCHANGED <<timer_tree, timeout, func_set, expired, has_timeout, base_timeout, running, pc, now>>
  BY DEF CallAdjustTimer, Called, timerVars
<1>2. \A m: ~RunningTimer(m) => ~RunningTimer(m)'
  BY <1>1 DEF RunningTimer
<1>3. QED BY <1>1, <1>2, TimersLeft DEF DispatchInv, timerVars

LEMMA NextKeepsTimerInv ==
  ASSUME DispatchInv, [Next]_vars
  PROVE  TimerInv'
<1>1. ASSUME UNCHANGED <<timerVars, running, pc, now>> PROVE TimerInv'
  <2>1. \A m: ~RunningTimer(m) => ~RunningTimer(m)'
    BY <1>1 DEF RunningTimer
  <2>2. QED BY <1>1, <2>1, TimersLeft DEF DispatchInv, timerVars
<1>2. CASE Call
  <2>1. ASSUME NEW fd \in Fds, NEW events \in EventSets, NEW func \in Funcs, CallWatchFd(fd, events, func)
        PROVE  TimerInv'
    BY <1>1, <2>1 DEF CallWatchFd, Called
  <2>2. ASSUME NEW fd \in Fds, CallUnwatchFd(fd) \/ CallFdClosed(fd) PROVE TimerInv'
    BY <1>1, <2>2 DEF CallUnwatchFd, CallFdClosed, Called
  <2>3. ASSUME NEW t \in Nodes, NEW when \in Times, CallAddTimer(t, when) PROVE TimerInv'
    BY <2>3, AddTimerKeeps
  <2>4. ASSUME NEW t \in Nodes, NEW when \in Times, CallAdjustTimer(t, when) PROVE TimerInv'
    BY <2>4, AdjustTimerKeeps, CorruptKeeps
  <2>5. ASSUME NEW t \in Nodes, CallRemoveTimer(t) PROVE TimerInv'
    BY <2>5, RemoveWaitingKeeps, RemoveExpiredKeeps
  <2>6. ASSUME NEW i \in Idles, CallAddIdle(i) \/ CallRemoveIdle(i) PROVE TimerInv'
    BY <1>1, <2>6 DEF CallAddIdle, CallRemoveIdle, Called
  <2>7. QED BY <1>2, <2>1, <2>2, <2>3, <2>4, <2>5, <2>6 DEF Call
<1>3. ASSUME UNCHANGED <<timerVars, pc, now>>, \A m: ~RunningTimer(m)' PROVE TimerInv'
  BY <1>3, TimersLeft DEF DispatchInv, timerVars
<1>4. CASE Notify
  <2>1. \A m: ~RunningTimer(m)'
    BY <1>4 DEF Notify, RunningTimer, NoCallback
  <2>2. QED BY <1>3, <1>4, <2>1 DEF Notify
<1>5. CASE RunIdle
  <2>1. \A m: ~RunningTimer(m)'
    BY <1>5 DEF RunIdle, RunningTimer
  <2>2. QED BY <1>3, <1>5, <2>1 DEF RunIdle
<1>6. ASSUME UNCHANGED <<timerVars, running>>, pc # "timer" PROVE TimerInv'
  <2>1. \A m: ~RunningTimer(m) => ~RunningTimer(m)'
    BY <1>6 DEF RunningTimer
  <2>2. expired = <<>>
    BY <1>6 DEF DispatchInv, TimerInv, TimerPlaces
  <2>3. QED BY <1>6, <2>1, <2>2, TimersLeft DEF DispatchInv, timerVars
<1>7. CASE NotifyDone
  BY <1>6, <1>7 DEF NotifyDone, AtLoop
<1>8. CASE \E time \in Times, ready \in Reports: Run(time, ready)
  BY <1>6, <1>8 DEF Run
<1>9. CASE IdleDone
  BY <1>9, IdleDoneKeeps
<1>10. CASE RunTimer
  BY <1>10, RunTimerKeeps
<1>11. CASE TimerDone
  BY <1>11, TimerDoneKeeps
<1>12. CASE Return
  BY <1>12, ReturnKeeps
<1>13. CASE UNCHANGED vars
  BY <1>1, <1>13 DEF vars, loopVars
<1>14. QED BY <1>2, <1>4, <1>5, <1>7, <1>8, <1>9, <1>10, <1>11, <1>12, <1>13 DEF Next, Dispatch

LEMMA InitDispatchInv == Init => DispatchInv
<1> SUFFICES ASSUME Init PROVE DispatchInv
  OBVIOUS
<1>1. WatchInv
  <2>1. NotifyInv
    BY DEF Init, NotifyInv, NoCallback
  <2>2. QED BY <2>1, InitFdInv DEF WatchInv
<1>2. LoopValues
  <2>1. NoCallback \in Callbacks
    BY DEF Callbacks
  <2>2. 0 \in 0..MaxCalls
    BY MaxCallsAssumption
  <2>3. pc = "user" /\ running = NoCallback /\ now = 0 /\ fault = "none" /\ calls = 0
    BY DEF Init
  <2>4. now \in Times
    BY <2>3, TimesFacts
  <2>5. QED BY ONLY <2>1, <2>2, <2>3, <2>4 DEF LoopValues
<1>3. Injective(<<>>) /\ ToSet(<<>>) = {}
  BY DEF Injective, ToSet
<1>4. IdleInv
  <2>1. idles = <<>> /\ has_idle = FALSE /\ ToSet(idles) = {} /\ <<>> \in Seq(Idles)
    BY <1>3 DEF Init, TimerInit
  <2>2. QED BY ONLY <1>3, <2>1 DEF IdleInv
<1>5. GoodTree(timer_tree, {}, timeout)
  <2>1. PICK key: key = timeout
    OBVIOUS
  <2>2. key \in [Nodes -> Nat]
    BY <2>1 DEF Init, TimerInit
  <2>3. GoodTree(EmptyTree, {}, key)
    BY <2>2, EmptyTreeIs
  <2>4. QED BY <2>1, <2>3 DEF Init, TimerInit
<1>6. InTree = {} /\ timer_tree \in Trees
  <2>1. PICK key, t: key = timeout /\ t = timer_tree
    OBVIOUS
  <2>2. key \in [Nodes -> Nat] /\ GoodTree(t, {}, key)
    BY <1>5, <2>1 DEF Init, TimerInit
  <2>3. QED BY <2>1, <2>2, GoodTreeFacts DEF InTree
<1>7. TimerTypes
  <2>1. /\ timeout = [t \in Nodes |-> 0] /\ func_set = [t \in Nodes |-> FALSE]
        /\ expired = <<>> /\ has_timeout = FALSE /\ base_timeout = 0
    BY DEF Init, TimerInit
  <2>2. 0 \in Times /\ <<>> \in Seq(Nodes)
    BY TimesFacts
  <2>3. QED BY ONLY <1>6, <2>1, <2>2 DEF TimerTypes
<1>8. TimerPlaces
  <2>1. expired = <<>> /\ ToSet(expired) = {}
    BY <1>3 DEF Init, TimerInit
  <2>2. QED BY ONLY <1>3, <1>6, <2>1 DEF TimerPlaces
<1>9. QED BY <1>1, <1>2, <1>4, <1>5, <1>6, <1>7, <1>8 DEF DispatchInv, TimerInv

LEMMA DispatchInvHolds == Spec => []DispatchInv
<1>1. DispatchInv /\ [Next]_vars => DispatchInv'
  BY NextKeepsFdInv, NextKeepsNotifyInv, NextKeepsLoopValues, NextKeepsIdleInv, NextKeepsTimerInv
     DEF DispatchInv, WatchInv
<1>2. QED BY <1>1, InitDispatchInv, PTL DEF Spec

(* Whatever a program does from its callbacks, the loop never sleeps for *)
(* ever on work it has (has_idle and has_timeout, which dsk_dispatch_run *)
(* turns into the timeout of poll). *)
THEOREM NeverSleepsOnItsWork == Spec => []NeverSleepsOnWork
<1>1. DispatchInv => NeverSleepsOnWork
  BY InTreeIs DEF DispatchInv, IdleInv, TimerInv, TimerPlaces, NeverSleepsOnWork
<1>2. QED BY <1>1, DispatchInvHolds, PTL

(* A timer is at one place at a time, all variables have their types, and *)
(* the timers are a search tree whose links agree (dsk_dispatch_add_timer, *)
(* adjust_timer, remove_timer and the loops of dsk_dispatch_dispatch). *)
THEOREM TimersStayInOnePlace == Spec => []TimersInOnePlace
<1>1. ASSUME DispatchInv PROVE TimersInOnePlace
  <2>1. TypeOK
    BY <1>1 DEF DispatchInv, WatchInv, FdInv, NotifyInv, Reported, LoopValues, IdleInv, TimerInv,
       TimerTypes, TypeOK, TimerTypeOK, LoopTypeOK
  <2>2. /\ Injective(expired)
        /\ \A t \in ToSet(expired): t \notin InTree /\ ~RunningTimer(t)
        /\ \A t \in InTree: func_set[t] /\ ~RunningTimer(t)
    BY <1>1 DEF DispatchInv, TimerInv, TimerPlaces
  <2>3. \A i, j \in DOMAIN expired: expired[i] = expired[j] => i = j
    BY <2>2 DEF Injective
  <2>4. \A i \in DOMAIN expired: expired[i] \notin InTree /\ ~RunningTimer(expired[i])
    BY <2>2 DEF ToSet
  <2>5. Linked(timer_tree) /\ Ordered(timer_tree, timeout)
    <3>1. PICK key, t, M: key = timeout /\ t = timer_tree /\ M = InTree
      OBVIOUS
    <3>2. key \in [Nodes -> Nat] /\ GoodTree(t, M, key)
      BY <1>1, <3>1, TimesFacts DEF DispatchInv, TimerInv, TimerTypes
    <3>3. QED BY <3>1, <3>2, GoodTreeFacts
  <2>6. QED BY <2>1, <2>2, <2>3, <2>4, <2>5 DEF TimersInOnePlace
<1>2. QED BY <1>1, DispatchInvHolds, PTL

(* The tree of timers stays a red-black tree: its top is black, no red *)
(* node has a red child, and every way down passes as many black nodes *)
(* (the fixups of DSK_RBTREE_INSERT and DSK_RBTREE_REMOVE). *)
THEOREM TimersStayBalanced == Spec => []Balanced(timer_tree)
<1>1. ASSUME DispatchInv PROVE Balanced(timer_tree)
  <2>1. PICK key, t, M: key = timeout /\ t = timer_tree /\ M = InTree
    OBVIOUS
  <2>2. key \in [Nodes -> Nat] /\ GoodTree(t, M, key)
    BY <1>1, <2>1, TimesFacts DEF DispatchInv, TimerInv, TimerTypes
  <2>3. QED BY <2>1, <2>2, GoodTreeFacts
<1>2. QED BY <1>1, DispatchInvHolds, PTL

-----------------------------------------------------------------------------
(* The loop implements TimerContract: what is still to run changes as the *)
(* contract says. *)

(* The timers still to run, and the contract's pending: each with its time. *)
Waiting == InTree \cup {u \in ToSet(expired): func_set[u]}
PendingOf == {[timer |-> t, due |-> timeout[t]] : t \in Waiting}
TimedKinds == {"idle", "timer"}

LEMMA WaitingIs ==
  ASSUME DispatchInv
  PROVE  Waiting \in SUBSET Nodes /\ timeout \in [Nodes -> Times]
         /\ \A t \in ToSet(expired): t \in Nodes /\ t \notin InTree
<1>1. expired \in Seq(Nodes) /\ timeout \in [Nodes -> Times] /\ InTree \in SUBSET Nodes
  BY InTreeIs DEF DispatchInv, TimerInv, TimerTypes
<1>2. \A t \in ToSet(expired): t \in Nodes /\ t \notin InTree
  BY <1>1 DEF ToSet, DispatchInv, TimerInv, TimerPlaces
<1>3. QED BY <1>1, <1>2 DEF Waiting

LEMMA PendingSame ==
  ASSUME Waiting' = Waiting, \A m \in Waiting: timeout'[m] = timeout[m]
  PROVE  PendingOf' = PendingOf
<1>1. ASSUME NEW p \in PendingOf' PROVE p \in PendingOf
  BY <1>1 DEF PendingOf
<1>2. ASSUME NEW p \in PendingOf PROVE p \in PendingOf'
  BY <1>2 DEF PendingOf
<1>3. QED BY <1>1, <1>2

LEMMA PendingLess ==
  ASSUME NEW t, Waiting' = Waiting \ {t}, \A m \in Waiting \ {t}: timeout'[m] = timeout[m]
  PROVE  PendingOf' = {p \in PendingOf: p.timer # t}
<1>1. ASSUME NEW p \in PendingOf' PROVE p \in PendingOf /\ p.timer # t
  <2>1. PICK m \in Waiting \ {t}: p = [timer |-> m, due |-> timeout[m]]
    BY <1>1 DEF PendingOf
  <2>2. p.timer = m
    BY <2>1
  <2>3. QED BY <2>1, <2>2 DEF PendingOf
<1>2. ASSUME NEW p \in PendingOf, p.timer # t PROVE p \in PendingOf'
  <2>1. PICK m \in Waiting: p = [timer |-> m, due |-> timeout[m]]
    BY <1>2 DEF PendingOf
  <2>2. p.timer = m /\ m \in Waiting \ {t}
    BY <1>2, <2>1
  <2>3. p = [timer |-> m, due |-> timeout'[m]]
    BY <2>1, <2>2
  <2>4. QED BY <2>2, <2>3 DEF PendingOf
<1>3. QED BY <1>1, <1>2

LEMMA PendingMore ==
  ASSUME NEW t, NEW when, Waiting' = Waiting \cup {t}, timeout'[t] = when,
         \A m \in Waiting \ {t}: timeout'[m] = timeout[m]
  PROVE  PendingOf' = {p \in PendingOf: p.timer # t} \cup {[timer |-> t, due |-> when]}
<1>1. ASSUME NEW p \in PendingOf'
      PROVE  p \in {q \in PendingOf: q.timer # t} \cup {[timer |-> t, due |-> when]}
  <2>1. PICK m \in Waiting \cup {t}: p = [timer |-> m, due |-> timeout'[m]]
    BY <1>1 DEF PendingOf
  <2>2. p.timer = m
    BY <2>1
  <2>3. CASE m = t
    BY <2>1, <2>3
  <2>4. CASE m # t
    BY <2>1, <2>2, <2>4 DEF PendingOf
  <2>5. QED BY <2>3, <2>4
<1>2. ASSUME NEW p \in PendingOf, p.timer # t PROVE p \in PendingOf'
  <2>1. PICK m \in Waiting: p = [timer |-> m, due |-> timeout[m]]
    BY <1>2 DEF PendingOf
  <2>2. p.timer = m /\ m \in Waiting \ {t}
    BY <1>2, <2>1
  <2>3. p = [timer |-> m, due |-> timeout'[m]]
    BY <2>1, <2>2
  <2>4. QED BY <2>2, <2>3 DEF PendingOf
<1>3. [timer |-> t, due |-> when] \in PendingOf'
  BY DEF PendingOf
<1>4. QED BY <1>1, <1>2, <1>3

(* A step that leaves the timers, the idle functions and the clock alone, *)
(* and runs neither. *)
LEMMA TimingStutters ==
  ASSUME PendingOf' = PendingOf, ToSet(idles') = ToSet(idles), now' = now,
         Only(TimedKinds)' = Only(TimedKinds)
  PROVE  UNCHANGED Timing!vars
<1>1. ToSet(idles)' = ToSet(idles)
  BY DEF ToSet
<1>2. QED BY <1>1 DEF Timing!vars, PendingOf, Waiting, TimedKinds

LEMMA PendingLeft ==
  ASSUME UNCHANGED timerVars
  PROVE  PendingOf' = PendingOf /\ Waiting' = Waiting
BY DEF timerVars, PendingOf, Waiting, InTree, ToSet

LEMMA AddTimerTimes ==
  ASSUME DispatchInv, NEW t \in Nodes, NEW when \in Times, CallAddTimer(t, when)
  PROVE  Timing!SetTimer(t, when)
<1>1. /\ timeout' = [timeout EXCEPT ![t] = when] /\ func_set' = [func_set EXCEPT ![t] = TRUE]
      /\ expired' = expired /\ running' = running /\ idles' = idles /\ now' = now
      /\ t \notin ToSet(expired)
  BY DEF CallAddTimer, AddTimer, Called, InUse, IsExpired, idleVars
<1>2. InTree' = InTree \cup {t}
  BY AddTimerKeeps
<1>3. func_set \in [Nodes -> BOOLEAN]
  BY DEF DispatchInv, TimerInv, TimerTypes
<1>4. \A m \in ToSet(expired): func_set'[m] = func_set[m]
  BY <1>1, <1>3, WaitingIs
<1>5. Waiting' = Waiting \cup {t}
  <2>1. ToSet(expired)' = ToSet(expired)
    BY <1>1 DEF ToSet
  <2>2. QED BY <1>2, <1>4, <2>1 DEF Waiting
<1>6. timeout'[t] = when /\ \A m \in Waiting \ {t}: timeout'[m] = timeout[m]
  BY <1>1, WaitingIs
<1>7. PendingOf' = {p \in PendingOf: p.timer # t} \cup {[timer |-> t, due |-> when]}
  BY <1>5, <1>6, PendingMore
<1>8. ToSet(idles)' = ToSet(idles) /\ Only(TimedKinds)' = Only(TimedKinds)
  BY <1>1 DEF ToSet, Only
<1>9. QED BY <1>1, <1>7, <1>8 DEF Timing!SetTimer, Timing!Without, PendingOf, Waiting, TimedKinds

LEMMA AdjustTimerTimes ==
  ASSUME DispatchInv, NEW t \in Nodes, NEW when \in Times, t \in InTree, CallAdjustTimer(t, when)
  PROVE  Timing!SetTimer(t, when)
<1>1. /\ timeout' = [timeout EXCEPT ![t] = when] /\ func_set' = func_set
      /\ expired' = expired /\ running' = running /\ idles' = idles /\ now' = now
  BY DEF CallAdjustTimer, AdjustTimer, Called, idleVars
<1>2. InTree' = InTree
  BY AdjustTimerKeeps
<1>3. Waiting' = Waiting \cup {t}
  <2>1. ToSet(expired)' = ToSet(expired)
    BY <1>1 DEF ToSet
  <2>2. QED BY <1>1, <1>2, <2>1 DEF Waiting
<1>4. timeout'[t] = when /\ \A m \in Waiting \ {t}: timeout'[m] = timeout[m]
  BY <1>1, WaitingIs
<1>5. PendingOf' = {p \in PendingOf: p.timer # t} \cup {[timer |-> t, due |-> when]}
  BY <1>3, <1>4, PendingMore
<1>6. ToSet(idles)' = ToSet(idles) /\ Only(TimedKinds)' = Only(TimedKinds)
  BY <1>1 DEF ToSet, Only
<1>7. QED BY <1>1, <1>5, <1>6 DEF Timing!SetTimer, Timing!Without, PendingOf, Waiting, TimedKinds

LEMMA RemoveTimerTimes ==
  ASSUME DispatchInv, NEW t \in Nodes, CallRemoveTimer(t)
  PROVE  Timing!CancelTimer(t)
<1>1. /\ timeout' = timeout \/ timeout' = [timeout EXCEPT ![t] = 0]
      /\ func_set' = [func_set EXCEPT ![t] = FALSE]
      /\ expired' = expired /\ running' = running /\ idles' = idles /\ now' = now
  BY DEF CallRemoveTimer, RemoveWaitingTimer, RemoveExpiredTimer, Called, idleVars
<1>2. InTree' = InTree \ {t}
  <2>1. CASE t \in InTree
    BY <2>1, RemoveWaitingKeeps
  <2>2. CASE t \notin InTree
    BY <2>2, RemoveExpiredKeeps
  <2>3. QED BY <2>1, <2>2
<1>3. func_set \in [Nodes -> BOOLEAN]
  BY DEF DispatchInv, TimerInv, TimerTypes
<1>4. \A m \in ToSet(expired): func_set'[m] <=> func_set[m] /\ m # t
  BY <1>1, <1>3, WaitingIs
<1>5. Waiting' = Waiting \ {t}
  <2>1. ToSet(expired)' = ToSet(expired)
    BY <1>1 DEF ToSet
  <2>2. QED BY <1>2, <1>4, <2>1 DEF Waiting
<1>6. \A m \in Waiting \ {t}: timeout'[m] = timeout[m]
  BY <1>1, WaitingIs
<1>7. PendingOf' = {p \in PendingOf: p.timer # t}
  BY <1>5, <1>6, PendingLess
<1>8. ToSet(idles)' = ToSet(idles) /\ Only(TimedKinds)' = Only(TimedKinds)
  BY <1>1 DEF ToSet, Only
<1>9. QED
  BY <1>1, <1>7, <1>8 DEF Timing!CancelTimer, Timing!Without, PendingOf, Waiting, TimedKinds

LEMMA AddIdleTimes ==
  ASSUME DispatchInv, NEW i \in Idles, CallAddIdle(i)
  PROVE  Timing!SetIdle(i)
<1>1. idles' = Append(idles, i) /\ running' = running /\ now' = now /\ UNCHANGED timerVars
  BY DEF CallAddIdle, AddIdle, Called
<1>2. ToSet(Append(idles, i)) = ToSet(idles) \cup {i}
  BY AppendIs DEF DispatchInv, IdleInv
<1>3. ToSet(idles)' = ToSet(idles) \cup {i}
  BY <1>1, <1>2 DEF ToSet
<1>4. PendingOf' = PendingOf /\ Only(TimedKinds)' = Only(TimedKinds)
  BY <1>1, PendingLeft DEF Only
<1>5. QED BY <1>1, <1>3, <1>4 DEF Timing!SetIdle, PendingOf, Waiting, TimedKinds

LEMMA RemoveIdleTimes ==
  ASSUME DispatchInv, NEW i \in Idles, CallRemoveIdle(i)
  PROVE  Timing!CancelIdle(i)
<1>1. running' = running /\ now' = now /\ UNCHANGED timerVars
  BY DEF CallRemoveIdle, Called
<1>2. ToSet(idles)' = ToSet(idles) \ {i}
  <2>1. CASE RunningIdle(i)
    <3>1. idles' = idles
      BY <2>1 DEF CallRemoveIdle, idleVars
    <3>2. i \notin ToSet(idles)
      BY <2>1 DEF DispatchInv, IdleInv
    <3>3. QED BY <3>1, <3>2 DEF ToSet
  <2>2. CASE ~RunningIdle(i)
    <3>1. idles' = RemoveFirst(idles, i)
      BY <2>2 DEF CallRemoveIdle, RemoveIdle
    <3>2. ToSet(RemoveFirst(idles, i)) = ToSet(idles) \ {i}
      BY RemoveFirstIs DEF DispatchInv, IdleInv
    <3>3. QED BY <3>1, <3>2 DEF ToSet
  <2>3. QED BY <2>1, <2>2
<1>3. PendingOf' = PendingOf /\ Only(TimedKinds)' = Only(TimedKinds)
  BY <1>1, PendingLeft DEF Only
<1>4. QED BY <1>1, <1>2, <1>3 DEF Timing!CancelIdle, PendingOf, Waiting, TimedKinds

LEMMA CallTimes ==
  ASSUME DispatchInv, Call
  PROVE  [Timing!Next]_(Timing!vars)
<1>1. ASSUME UNCHANGED <<timerVars, idleVars, running, now>> PROVE UNCHANGED Timing!vars
  <2>1. PendingOf' = PendingOf /\ ToSet(idles') = ToSet(idles) /\ now' = now
        /\ Only(TimedKinds)' = Only(TimedKinds)
    BY <1>1, PendingLeft DEF idleVars, Only
  <2>2. QED BY <2>1, TimingStutters
<1>2. ASSUME NEW fd \in Fds, NEW events \in EventSets, NEW func \in Funcs, CallWatchFd(fd, events, func)
      PROVE  UNCHANGED Timing!vars
  BY <1>1, <1>2 DEF CallWatchFd, Called
<1>3. ASSUME NEW fd \in Fds, CallUnwatchFd(fd) \/ CallFdClosed(fd) PROVE UNCHANGED Timing!vars
  BY <1>1, <1>3 DEF CallUnwatchFd, CallFdClosed, Called
<1>4. ASSUME NEW t \in Nodes, NEW when \in Times, CallAddTimer(t, when) PROVE Timing!Next
  BY <1>4, AddTimerTimes DEF Timing!Next
<1>5. ASSUME NEW t \in Nodes, NEW when \in Times, CallAdjustTimer(t, when)
      PROVE  [Timing!Next]_(Timing!vars)
  <2>1. CASE t \in InTree
    BY <1>5, <2>1, AdjustTimerTimes DEF Timing!Next
  <2>2. CASE t \notin InTree
    BY <1>1, <1>5, <2>2 DEF CallAdjustTimer, Called
  <2>3. QED BY <2>1, <2>2
<1>6. ASSUME NEW t \in Nodes, CallRemoveTimer(t) PROVE Timing!Next
  BY <1>6, RemoveTimerTimes DEF Timing!Next
<1>7. ASSUME NEW i \in Idles, CallAddIdle(i) \/ CallRemoveIdle(i) PROVE Timing!Next
  BY <1>7, AddIdleTimes, RemoveIdleTimes DEF Timing!Next
<1>8. QED BY <1>2, <1>3, <1>4, <1>5, <1>6, <1>7 DEF Call

LEMMA RunTimes ==
  ASSUME DispatchInv, NEW time \in Times, NEW ready \in Reports, Run(time, ready)
  PROVE  Timing!WakeUp
<1>1. /\ UNCHANGED timerVars /\ UNCHANGED idleVars /\ running' = running /\ running = NoCallback
      /\ now' = time \/ now' = now
      /\ time >= now
  BY DEF Run, DispatchInv, WatchInv, NotifyInv
<1>2. now \in Times
  BY DEF DispatchInv, LoopValues
<1>3. now' \in Times /\ now' >= now
  BY <1>1, <1>2, TimesFacts
<1>4. PendingOf' = PendingOf
  BY <1>1, PendingLeft
<1>5. /\ ToSet(idles)' = ToSet(idles)
      /\ Only(TimedKinds) = NoCallback /\ Only(TimedKinds)' = NoCallback
  BY <1>1 DEF ToSet, idleVars, Only
<1>6. QED BY <1>3, <1>4, <1>5 DEF Timing!WakeUp, PendingOf, Waiting, TimedKinds

LEMMA NotifyTimes ==
  ASSUME DispatchInv, Notify
  PROVE  UNCHANGED Timing!vars
<1>1. /\ UNCHANGED timerVars /\ idles' = idles /\ now' = now /\ running = NoCallback
      /\ running' = NoCallback \/ running'.kind = "fd"
  BY DEF Notify, AtLoop, idleVars
<1>2. Only(TimedKinds) = NoCallback /\ Only(TimedKinds)' = NoCallback
  BY <1>1 DEF Only, TimedKinds
<1>3. PendingOf' = PendingOf
  BY <1>1, PendingLeft
<1>4. QED BY <1>1, <1>2, <1>3, TimingStutters

LEMMA RunIdleTimes ==
  ASSUME DispatchInv, RunIdle
  PROVE  \E i \in ToSet(idles): Timing!RunIdle(i)
<1>1. PICK i: i = Head(idles)
  OBVIOUS
<1>2. /\ idles # <<>> /\ idles' = Tail(idles) /\ UNCHANGED timerVars /\ now' = now
      /\ running = NoCallback /\ running' = [kind |-> "idle", idle |-> i]
  BY <1>1 DEF RunIdle, AtLoop
<1>3. i \in ToSet(idles) /\ ToSet(Tail(idles)) = ToSet(idles) \ {i}
  BY <1>1, <1>2, TailIs DEF DispatchInv, IdleInv
<1>4. ToSet(idles)' = ToSet(idles) \ {i}
  BY <1>2, <1>3 DEF ToSet
<1>5. PendingOf' = PendingOf
  BY <1>2, PendingLeft
<1>6. Only(TimedKinds) = NoCallback /\ Only(TimedKinds)' = [kind |-> "idle", idle |-> i]
  BY <1>2 DEF Only, TimedKinds
<1>7. Timing!RunIdle(i)
  BY <1>2, <1>4, <1>5, <1>6 DEF Timing!RunIdle, PendingOf, Waiting, TimedKinds
<1>8. QED BY <1>3, <1>7

(* The timers that move to the list are still to run. *)
LEMMA IdleDoneTimes ==
  ASSUME DispatchInv, IdleDone
  PROVE  UNCHANGED Timing!vars
<1>1. /\ expired = <<>> /\ ToSet(expired') \subseteq InTree /\ InTree' = InTree \ ToSet(expired')
      /\ func_set' = func_set /\ timeout' = timeout
  BY IdleDoneKeeps
<1>2. \A t \in InTree: func_set[t]
  BY DEF DispatchInv, TimerInv, TimerPlaces
<1>3. ToSet(expired) = {} /\ ToSet(expired)' = ToSet(expired')
  BY <1>1 DEF ToSet
<1>4. Waiting' = Waiting
  BY <1>1, <1>2, <1>3 DEF Waiting
<1>5. PendingOf' = PendingOf
  BY <1>1, <1>4, PendingSame
<1>6. idles' = idles /\ now' = now /\ running' = running
  BY DEF IdleDone
<1>7. Only(TimedKinds)' = Only(TimedKinds)
  BY <1>6 DEF Only
<1>8. QED BY <1>5, <1>6, <1>7, TimingStutters

LEMMA RunTimerTimes ==
  ASSUME DispatchInv, RunTimer
  PROVE  (\E p \in PendingOf: Timing!RunTimer(p)) \/ UNCHANGED Timing!vars
<1>1. PICK t: t = Head(expired)
  OBVIOUS
<1>2. /\ running = NoCallback /\ now' = now /\ UNCHANGED idleVars
      /\ IF func_set[t]
         THEN running' = [kind |-> "timer", timer |-> t] /\ UNCHANGED <<func_set, timeout>>
         ELSE FreeTimer(t) /\ UNCHANGED running
  BY <1>1 DEF RunTimer, AtLoop
<1>3. /\ InTree' = InTree /\ t \in Nodes /\ t \in ToSet(expired) /\ t \notin InTree
      /\ ToSet(expired') = ToSet(expired) \ {t}
  BY <1>1, RunTimerKeeps
<1>4. ToSet(expired)' = ToSet(expired')
  BY DEF ToSet
<1>5. timeout \in [Nodes -> Times] /\ func_set \in [Nodes -> BOOLEAN]
      /\ \A m \in ToSet(expired): m \in Nodes
  BY WaitingIs DEF DispatchInv, TimerInv, TimerTypes
<1>6. ToSet(idles)' = ToSet(idles)
  BY <1>2 DEF ToSet, idleVars
<1>7. CASE func_set[t]
  <2>1. running' = [kind |-> "timer", timer |-> t] /\ func_set' = func_set /\ timeout' = timeout
    BY <1>2, <1>7
  <2>2. Waiting' = Waiting \ {t} /\ t \in Waiting
    BY <1>3, <1>4, <1>7, <2>1 DEF Waiting
  <2>3. PICK p: p = [timer |-> t, due |-> timeout[t]]
    OBVIOUS
  <2>4. p \in PendingOf
    BY <2>2, <2>3 DEF PendingOf
  <2>5. PendingOf' = {q \in PendingOf: q.timer # t}
    BY <2>1, <2>2, PendingLess
  <2>6. \A q \in PendingOf: q.timer # t <=> q # p
    <3> TAKE q \in PendingOf
    <3>1. PICK m \in Waiting: q = [timer |-> m, due |-> timeout[m]]
      BY DEF PendingOf
    <3>2. q.timer = m
      BY <3>1
    <3>3. p.timer = t
      BY <2>3
    <3>4. m = t => q = p
      BY <2>3, <3>1
    <3>5. QED BY <3>2, <3>3, <3>4
  <2>7. PendingOf' = PendingOf \ {p}
    BY <2>5, <2>6
  <2>8. timeout[t] <= now
    BY <1>3, <1>7 DEF DispatchInv, TimerInv, TimerPlaces
  <2>9. p.due <= now /\ p.timer = t
    BY <2>3, <2>8
  <2>10. Only(TimedKinds) = NoCallback /\ Only(TimedKinds)' = [kind |-> "timer", timer |-> t]
    BY <1>2, <2>1 DEF Only, TimedKinds
  <2>11. Timing!RunTimer(p)
    BY <1>2, <1>6, <2>7, <2>9, <2>10 DEF Timing!RunTimer, PendingOf, Waiting, TimedKinds
  <2>12. QED BY <2>4, <2>11
<1>8. CASE ~func_set[t]
  <2>1. /\ func_set' = [func_set EXCEPT ![t] = FALSE] /\ timeout' = [timeout EXCEPT ![t] = 0]
        /\ running' = running
    BY <1>2, <1>8 DEF FreeTimer
  <2>2. \A m \in ToSet(expired): func_set'[m] <=> func_set[m] /\ m # t
    BY <1>5, <1>8, <2>1
  <2>3. Waiting' = Waiting
    BY <1>3, <1>4, <1>8, <2>2 DEF Waiting
  <2>4. \A m \in Waiting: timeout'[m] = timeout[m]
    <3>1. t \notin Waiting
      BY <1>3, <1>8 DEF Waiting
    <3>2. Waiting \in SUBSET Nodes
      BY WaitingIs
    <3>3. QED BY <1>5, <2>1, <3>1, <3>2
  <2>5. PendingOf' = PendingOf
    BY <2>3, <2>4, PendingSame
  <2>6. Only(TimedKinds)' = Only(TimedKinds) /\ ToSet(idles') = ToSet(idles)
    BY <1>2, <2>1 DEF Only, idleVars
  <2>7. QED BY <1>2, <2>5, <2>6, TimingStutters
<1>9. QED BY <1>7, <1>8

LEMMA ReturnTimes ==
  ASSUME DispatchInv, Return
  PROVE  Timing!Return \/ UNCHANGED Timing!vars
<1>1. /\ running # NoCallback /\ running' = NoCallback /\ now' = now /\ idles' = idles
      /\ IF running.kind = "timer" THEN FreeTimer(running.timer) ELSE UNCHANGED <<func_set, timeout>>
  BY DEF Return, idleVars
<1>2. InTree' = InTree /\ expired' = expired
  BY ReturnKeeps
<1>3. ToSet(expired)' = ToSet(expired)
  BY <1>2 DEF ToSet
<1>4. PendingOf' = PendingOf
  <2>1. CASE running.kind = "timer"
    <3>1. PICK t: t = running.timer
      OBVIOUS
    <3>2. t \in Nodes /\ t \notin InTree /\ t \notin ToSet(expired)
      BY <2>1, <3>1, RunningIsNowhere
    <3>3. func_set' = [func_set EXCEPT ![t] = FALSE] /\ timeout' = [timeout EXCEPT ![t] = 0]
      BY <1>1, <2>1, <3>1 DEF FreeTimer
    <3>4. timeout \in [Nodes -> Times] /\ func_set \in [Nodes -> BOOLEAN]
          /\ \A m \in ToSet(expired): m \in Nodes
      BY WaitingIs DEF DispatchInv, TimerInv, TimerTypes
    <3>5. \A m \in ToSet(expired): func_set'[m] = func_set[m]
      BY <3>2, <3>3, <3>4
    <3>6. Waiting' = Waiting
      BY <1>2, <1>3, <3>5 DEF Waiting
    <3>7. t \notin Waiting /\ Waiting \in SUBSET Nodes
      BY <3>2, WaitingIs DEF Waiting
    <3>8. \A m \in Waiting: timeout'[m] = timeout[m]
      BY <3>3, <3>4, <3>7
    <3>9. QED BY <3>6, <3>8, PendingSame
  <2>2. CASE running.kind # "timer"
    <3>1. func_set' = func_set /\ timeout' = timeout
      BY <1>1, <2>2
    <3>2. Waiting' = Waiting
      BY <1>2, <1>3, <3>1 DEF Waiting
    <3>3. QED BY <3>1, <3>2, PendingSame
  <2>3. QED BY <2>1, <2>2
<1>5. Only(TimedKinds)' = NoCallback
  BY <1>1 DEF Only
<1>6. ToSet(idles)' = ToSet(idles)
  BY <1>1 DEF ToSet
<1>7. CASE running.kind \in TimedKinds
  <2>1. Only(TimedKinds) # NoCallback
    BY <1>1, <1>7 DEF Only
  <2>2. Timing!Return
    BY <1>1, <1>4, <1>5, <1>6, <2>1 DEF Timing!Return, PendingOf, Waiting, TimedKinds
  <2>3. QED BY <2>2
<1>8. CASE running.kind \notin TimedKinds
  <2>1. Only(TimedKinds)' = Only(TimedKinds)
    BY <1>5, <1>8 DEF Only
  <2>2. QED BY <1>1, <1>4, <2>1, TimingStutters
<1>9. QED BY <1>7, <1>8

LEMMA NextTimes ==
  ASSUME DispatchInv, [Next]_vars
  PROVE  [Timing!Next]_(Timing!vars)
<1>1. CASE Call
  BY <1>1, CallTimes
<1>2. CASE Notify
  BY <1>2, NotifyTimes
<1>3. CASE NotifyDone \/ TimerDone
  <2>1. /\ UNCHANGED <<timer_tree, timeout, func_set, expired>>
        /\ idles' = idles /\ now' = now /\ running' = running
    BY <1>3 DEF NotifyDone, TimerDone, timerVars, idleVars
  <2>2. Waiting' = Waiting
    BY <2>1 DEF Waiting, InTree, ToSet
  <2>3. PendingOf' = PendingOf
    BY <2>1, <2>2, PendingSame
  <2>4. Only(TimedKinds)' = Only(TimedKinds)
    BY <2>1 DEF Only
  <2>5. QED BY <2>1, <2>3, <2>4, TimingStutters
<1>4. CASE RunIdle
  <2>1. \E i \in ToSet(idles): Timing!RunIdle(i)
    BY <1>4, RunIdleTimes
  <2>2. QED BY <2>1 DEF Timing!Next
<1>5. CASE IdleDone
  BY <1>5, IdleDoneTimes
<1>6. CASE RunTimer
  <2>1. CASE \E p \in PendingOf: Timing!RunTimer(p)
    BY <2>1 DEF Timing!Next, PendingOf, Waiting
  <2>2. QED BY <1>6, <2>1, RunTimerTimes
<1>7. CASE Return
  BY <1>7, ReturnTimes DEF Timing!Next
<1>8. CASE \E time \in Times, ready \in Reports: Run(time, ready)
  BY <1>8, RunTimes DEF Timing!Next
<1>9. CASE UNCHANGED vars
  <2>1. UNCHANGED timerVars /\ idles' = idles /\ now' = now /\ running' = running
    BY <1>9 DEF vars, idleVars, loopVars
  <2>2. PendingOf' = PendingOf /\ Only(TimedKinds)' = Only(TimedKinds)
    BY <2>1, PendingLeft DEF Only
  <2>3. QED BY <2>1, <2>2, TimingStutters
<1>10. QED BY <1>1, <1>2, <1>3, <1>4, <1>5, <1>6, <1>7, <1>8, <1>9 DEF Next, Dispatch

(* Timers and idle functions run once each time they were asked for, a *)
(* timer never before its time, and neither after it was taken back, even *)
(* by a callback of the same turn: the red-black tree, the list of expired *)
(* timers and the recycled memory do not show (dsk_dispatch_add_timer to *)
(* dsk_dispatch_dispatch). *)
THEOREM TimerContractKept == Spec => KeepsTimerContract
<1>1. Init => Timing!Init
  <2> SUFFICES ASSUME Init PROVE Timing!Init
    OBVIOUS
  <2>1. DispatchInv
    BY InitDispatchInv
  <2>2. running = NoCallback /\ now = 0 /\ expired = <<>> /\ idles = <<>> /\ timer_tree.top = NULL
    BY DEF Init, TimerInit, EmptyTree
  <2>3. InTree = {} /\ ToSet(expired) = {} /\ ToSet(idles) = {}
    BY <2>1, <2>2, InTreeIs DEF DispatchInv, ToSet
  <2>4. PendingOf = {} /\ Only(TimedKinds) = NoCallback
    BY <2>2, <2>3 DEF PendingOf, Waiting, Only
  <2>5. QED BY <2>2, <2>3, <2>4 DEF Timing!Init, PendingOf, Waiting, TimedKinds
<1>2. DispatchInv /\ [Next]_vars => [Timing!Next]_(Timing!vars)
  BY NextTimes
<1>3. QED BY <1>1, <1>2, DispatchInvHolds, PTL DEF Spec, KeepsTimerContract, Timing!Spec
=============================================================================
