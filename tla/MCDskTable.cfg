\* Two keys, up to seven insertions, one restart; a file every two insertions, two
\* steps of merging in each, so that merges overlap the flushes.
CONSTANTS
  Keys = {1, 2}
  FlushPeriod = 2
  MergeSteps = 2
  MaxMergeJobs = 2
  RatioLimit = 1
  MaxInserts = 7
  MaxStops = 1
SPECIFICATION FairSpec
INVARIANTS
  LookupsSeeLatest
  RestartLosesNothing
  FilesHoldTheirEntries
  NoPairForgotten
PROPERTIES
  InsertsReturn
\* the insertions are bounded, and a fault ends the model
CHECK_DEADLOCK FALSE
