SPECIFICATION FairSpec
CONSTANTS
  MAX_JOB = 1
  MAX_PROCESS = 1
  MAX_PROCESS_TASK_BLOCK = 1
  MAX_BLOCK_TASK = 1
  Hash <- AnyProcess
  autoHighLow = FALSE
  exitIfNoJob = FALSE
  Fault = {"crash"}
  Command = {"PAUSE", "EXIT"}
  MaxJob = 1
  MaxTask = 2
  MaxFault = 1
  MaxCommand = 1
CHECK_DEADLOCK FALSE
PROPERTY TasksFinish
PROPERTY JobsClose
PROPERTY ExitEnds
PROPERTY DeathStops
