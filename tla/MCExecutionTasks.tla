--------------------------- MODULE MCExecutionTasks ---------------------------
(* Two durable tasks.  The operator cancels, retries and deletes the first,  *)
(* which has an object for its submission or reload and one for a retry; the *)
(* writes of the second may fail, and its context end.                       *)
EXTENDS ExecutionTasks

CONSTANTS a, b, a1, a2, b1

MCTask == {a1, a2, b1}
MCJob == {a, b}
MCIdOf == [t \in MCTask |-> IF t \in {a1, a2} THEN a ELSE b]
MCPrio == [t \in MCTask |-> IF t \in {a1, a2} THEN 1 ELSE 2]
MCManaged == {a}
MCUnreliable == {b}

\* Workers, and requests, are interchangeable.
Symmetry == Permutations(Worker) \cup Permutations(Request)
=============================================================================
