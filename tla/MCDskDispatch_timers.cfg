\* Three timers of three times (ties and rotations occur), one idle function
\* and one descriptor whose callback can call back.
CONSTANTS
  Fds = {f1}
  Events = {"readable"}
  Funcs = {g1}
  Nodes = {1, 2, 3}
  Idles = {i1}
  MaxTime = 2
  MaxCalls = 4
SPECIFICATION FairSpec
INVARIANTS
  TimersInOnePlace
  NeverSleepsOnWork
PROPERTIES
  KeepsTimerContract
  WorkIsDone
\* the program may wait for ever for an event, or break the tree
CHECK_DEADLOCK FALSE
