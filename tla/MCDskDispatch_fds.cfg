CONSTANTS
  Fds = {f1, f2, f3}
  Events = {"readable", "writable"}
  Funcs = {g1, g2}
  Nodes = {}
  Idles = {}
  MaxTime = 0
  MaxCalls = 4
SPECIFICATION Spec
SYMMETRY FdSymmetry
INVARIANT
  FdMapConsistent
PROPERTY
  KeepsWatchContract
\* the program may wait for ever for an event, or be aborted
CHECK_DEADLOCK FALSE
