\* Six octets through pipes of two and one, a connection of two and a filter that holds
\* back one: every part gets full, and the end comes with octets left in each of them.
CONSTANTS
  FirstPipe = 2
  SecondPipe = 1
  MaxBuffer = 2
  Keep = 1
  MaxWritten = 6
SPECIFICATION FairSpec
INVARIANTS
  NothingLost
PROPERTIES
  Delivered
  BothEndsAreTold
\* the program may stop writing
CHECK_DEADLOCK FALSE
