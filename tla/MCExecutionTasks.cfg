SPECIFICATION ExecSpec
CONSTANTS
  a = a
  b = b
  a1 = a1
  a2 = a2
  b1 = b1
  NoTask = NoTask
  Task <- MCTask
  Job <- MCJob
  IdOf <- MCIdOf
  Prio <- MCPrio
  Worker = {w1, w2}
  Request = {r1, r2}
  MayEnd = {b1}
  Outcome = {"success"}
  Unreliable <- MCUnreliable
  Managed <- MCManaged
  MaxRetries = 1
INVARIANTS ExecTypeOK Custody NothingStranded SingleRunner
SYMMETRY Symmetry
CHECK_DEADLOCK FALSE
