------------------------------ MODULE TaskQueue ------------------------------
(***************************************************************************)
(* The waiting list of pkg/task (queue.go): a list of task objects, higher *)
(* priority first, arrival order among equals.  Every method runs under    *)
(* the list's own mutex, so each is one operator here.                     *)
(*                                                                         *)
(* A task OBJECT (a *Task) is a member of Task.  Two objects may carry the *)
(* same task ID: a retry or a restart builds a new object for an old ID.   *)
(***************************************************************************)
EXTENDS Integers, Sequences, SequencesExt

CONSTANTS Task,   \* task objects
          Job,    \* task IDs (the primary key of a durable row)
          IdOf,   \* the ID an object carries
          Prio    \* the priority an object is pushed with

ASSUME QueueAssumption == /\ IdOf \in [Task -> Job]
                          /\ Prio \in [Task -> Int]

\* A slip: the list is a plain append.
PushPointAtEnd(q, t) == Len(q) + 1

\* A slip: sort.Search with <= puts the newcomer ahead of its equals.
PushPointBeforeEquals(q, t) == CHOOSE k \in 1..Len(q) + 1 :
                                 /\ \A i \in 1..k - 1 : Prio[q[i]] > Prio[t]
                                 /\ k <= Len(q) => Prio[q[k]] <= Prio[t]

(* Push: sort.Search finds the first entry of strictly lower priority, so  *)
(* the newcomer goes behind its equals.                                    *)
PushPoint(q, t) == CHOOSE k \in 1..Len(q) + 1 :
                     /\ \A i \in 1..k - 1 : Prio[q[i]] >= Prio[t]
                     /\ k <= Len(q) => Prio[q[k]] < Prio[t]

Push(q, t) == InsertAt(q, PushPoint(q, t), t)

(* Remove takes the first entry with the ID: a second object with the same *)
(* ID stays behind.                                                        *)
Positions(q, j) == {i \in 1..Len(q) : IdOf[q[i]] = j}

FirstPosition(q, j) == CHOOSE i \in Positions(q, j) :
                         \A k \in Positions(q, j) : i <= k

Waiting(q) == {q[i] : i \in 1..Len(q)}
=============================================================================
