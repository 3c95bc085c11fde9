\* The code deletes a file the checkpoint names; four insertions are enough.
CONSTANTS
  Keys = {1, 2}
  FlushPeriod = 2
  MergeSteps = 2
  MaxMergeJobs = 2
  RatioLimit = 1
  MaxInserts = 6
  MaxStops = 1
SPECIFICATION Spec
INVARIANT
  CheckpointFilesExist
\* the insertions are bounded
CHECK_DEADLOCK FALSE
