\* A name to be looked up or an address; both timers at one or two ticks or off; the other
\* end comes and goes; the program changes times and traps between any two callbacks.
CONSTANTS
  Times = {1, 2}
  MaxQuiet = 2
SPECIFICATION FairSpec
INVARIANTS
  OnePhase
  IdleTimerKept
PROPERTIES
  KeepsTrying
\* the program may drop the stream, and a fault ends the model
CHECK_DEADLOCK FALSE
