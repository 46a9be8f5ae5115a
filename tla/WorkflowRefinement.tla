-------------------------- MODULE WorkflowRefinement --------------------------
(***************************************************************************)
(* Workflows implements two contracts.  To the workflow's owner it keeps   *)
(* WorkflowContract; and its children, whose lifecycle is that of the task *)
(* core cut down to what a workflow reads, keep the contract of the core.  *)
(***************************************************************************)
EXTENDS Workflows

Phase == [t \in Ids |->
  CASE task[t].status = "Absent" -> "absent"
    [] task[t].status = "Pending" -> "waiting"
    [] task[t].status = "Scheduled" -> "holding"
    [] task[t].status = "Succeeded" -> "succeeded"
    [] task[t].status = "Failed" -> "failed"
    [] task[t].status = "Cancelled" -> "cancelled"]

Halted == [t \in Ids |-> task[t].intent # "Run"]

\* what the plan a child was inserted by has it wait for
Awaited == [t \in Ids |-> IF t \in Created THEN Needs(plans[t[1]].plan, t[2]) ELSE {}]

Reserved == [t \in Ids |-> IF t \in Open THEN Unspent(t) ELSE 0]

Owner == INSTANCE WorkflowContract WITH
  Revisions <- 1..MaxRevisions, phase <- Phase, stopped <- Halted, needs <- Awaited,
  reserve <- Reserved, used <- root.tokens, begun <- root.attempts

\* Whatever is replanned, carried over, retried, cancelled or refused, the owner
\* sees a budget that is only spent, sources that succeed before what needs them,
\* replaced work that never succeeds, and one success for a key
\* (_settle_plan_locked, _deliver_dependencies_locked, claim_attempt_locked, settle).
KeepsOwnerContract == Owner!Spec

Core == INSTANCE TaskContract WITH Tasks <- Ids, phase <- Phase, stopped <- Halted

\* Children are ordinary tasks: what TaskRefinement shows of the core holds of the
\* lifecycle that Workflows gives them, so that a replan, a failed source or a
\* spent budget does nothing to a task which the core would not (Manager.settle,
\* schedule, Store.cancel, _settle_plan_locked).
ChildrenKeepContract == Core!Spec

\* Both: one step is a step of the owner's contract and of the children's
\* (_settle_plan_locked, Manager.settle, schedule).
KeepsContracts == KeepsOwnerContract /\ ChildrenKeepContract
=============================================================================
