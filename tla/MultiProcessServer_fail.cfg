SPECIFICATION Spec
CONSTANTS
  MAX_JOB = 1
  MAX_PROCESS = 1
  MAX_PROCESS_TASK_BLOCK = 2
  MAX_BLOCK_TASK = 2
  Hash <- AnyProcess
  autoHighLow = FALSE
  exitIfNoJob = TRUE
  Fault = {"crash", "OpenJob", "DistributeTask", "Process", "UnProcess", "Rollup", "OpenJob_Rollup", "CloseJob_Rollup"}
  Command = {}
  MaxJob = 1
  MaxTask = 2
  MaxFault = 1
  MaxCommand = 0
CHECK_DEADLOCK FALSE
INVARIANT TypeOK
INVARIANT TaskInOneBlock
PROPERTY ImplementsPipeline
