--------------------------- MODULE MCTaskScheduler ---------------------------
(* Three one-object tasks, two of them of the same priority, on two workers. *)
EXTENDS TaskScheduler

CONSTANTS t1, t2, t3

MCTask == {t1, t2, t3}
MCIdOf == [t \in MCTask |-> t]
MCPrio == t1 :> 1 @@ t2 :> 1 @@ t3 :> 2
MCMayEnd == {t1}
=============================================================================
