--------------------------- MODULE TaskRefinement ---------------------------
(***************************************************************************)
(* TaskLifecycle implements TaskContract: a task holds a slot while its    *)
(* row is Scheduled or Running, and is stopped once its desired_action is  *)
(* Cancel.                                                                 *)
(***************************************************************************)
EXTENDS TaskLifecycle

PhaseOf(status) ==
  CASE status = "Absent" -> "absent"
    [] status = "Pending" -> "waiting"
    [] status \in {"Scheduled", "Running"} -> "holding"
    [] status = "Succeeded" -> "succeeded"
    [] status = "Failed" -> "failed"
    [] status = "Cancelled" -> "cancelled"

Phase   == [t \in Tasks |-> PhaseOf(task[t].status)]
Stopped == [t \in Tasks |-> task[t].intent # "Run"]

Contract == INSTANCE TaskContract WITH phase <- Phase, stopped <- Stopped

\* Every behaviour of the store, manager, workers and runners is one the
\* contract allows: one outcome per task, slots within max_active, a stop that
\* is never undone and wins over a success not yet settled.
ImplementsContract == Contract!Spec
=============================================================================
