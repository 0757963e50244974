SPECIFICATION FairSpec
CONSTANTS
  t1 = t1
  t2 = t2
  t3 = t3
  NoTask = NoTask
  Task <- MCTask
  Job <- MCTask
  IdOf <- MCIdOf
  Prio <- MCPrio
  Worker = {w1, w2}
  MayEnd <- MCMayEnd
  Outcome = {"success"}
  Unreliable = {}
INVARIANTS TypeOK Custody HandlerOnce Sorted RunningCounts RowsAgree NoLostWakeup
PROPERTIES FifoAmongEquals ImplementsPool EverySubmissionSettles StopCompletes
CHECK_DEADLOCK FALSE
