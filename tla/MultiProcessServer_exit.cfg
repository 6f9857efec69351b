SPECIFICATION Spec
CONSTANTS
  MAX_JOB = 2
  MAX_PROCESS = 1
  MAX_PROCESS_TASK_BLOCK = 1
  MAX_BLOCK_TASK = 1
  Hash <- AnyProcess
  autoHighLow = FALSE
  exitIfNoJob = TRUE
  Fault = {}
  Command = {}
  MaxJob = 2
  MaxTask = 1
  MaxFault = 0
  MaxCommand = 0
CHECK_DEADLOCK FALSE
INVARIANT ExitClosesJobs
