CONSTANTS
  Fds = {f1, f2}
  Events = {"readable"}
  Funcs = {g1}
  Nodes = {}
  Idles = {i1}
  MaxTime = 0
  MaxCalls = 4
SPECIFICATION Spec
INVARIANT
  ChangesAgree
CHECK_DEADLOCK FALSE
