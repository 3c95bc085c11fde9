\* Two hooks (one callback notifies the other) and three traps, one of them
\* with a destroy function.
CONSTANTS
  Hooks = {h1, h2}
  Traps = {r1, r2, r3}
  NULL = null
  Guard = guard
  Owns = {r1}
  Careful = TRUE
  CountMod = 65536
  MaxBlocks = 2
  MaxCalls = 6
SPECIFICATION FairSpec
INVARIANTS
  CountsActive
  IdleListExact
  TrapsOutliveCalls
PROPERTY
  IdleHooksNotified
\* the program may stop calling
CHECK_DEADLOCK FALSE
