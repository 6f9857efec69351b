SPECIFICATION Spec
CONSTANTS
  MAX_JOB = 2
  MAX_PROCESS = 2
  MAX_PROCESS_TASK_BLOCK = 1
  MAX_BLOCK_TASK = 1
  Hash <- FreeOrLast
  autoHighLow = FALSE
  exitIfNoJob = FALSE
  Fault = {}
  Command = {}
  MaxJob = 3
  MaxTask = 1
  MaxFault = 0
  MaxCommand = 0
CHECK_DEADLOCK FALSE
INVARIANT BlockKeepsJob
INVARIANT RollupCountAgrees
INVARIANT JobKeepsSlot
PROPERTY ImplementsPipeline
