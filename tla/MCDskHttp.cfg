\* Up to two requests, with every kind of body, pipelined over a connection that holds two
\* tokens per direction and may break; streams fed octet by octet; either side may shut down.
CONSTANTS
  Scripts <- MCScripts
  Answers <- MCAnswers
  NetSize = 2
  MaxOutgoing = 3
  MaxPipelined = 4
  MaxPostData = 1
  MaxStream = 1
  MayBreak = TRUE
  SourcesFail = TRUE
SPECIFICATION FairSpec
INVARIANTS
  RequestsArriveWhole
PROPERTIES
  KeepsHttpContract
  EveryRequestEnds
\* the programs may be done
CHECK_DEADLOCK FALSE
