----------------------------- MODULE Workflows -----------------------------
(***************************************************************************)
(* One token-bounded workflow: the root with its cumulative budgets, the   *)
(* revisions of its plan, the children (ordinary tasks) and what they hand *)
(* to one another.                                                         *)
(*                                                                         *)
(* Every write transaction is one action.  Manager.tick is one transaction *)
(* over all tasks; here each task of it is an action of its own, so other  *)
(* writers are also explored between two tasks.  A child's lifecycle is the*)
(* one of TaskLifecycle, cut down to what the workflow reads: "Scheduled"  *)
(* stands for Scheduled and Running, a "Live" attempt for Launching,       *)
(* Running and Unknown, an "Ended" one for an unsettled terminal attempt, *)
(* and kind "permanent" for every failure that no retry policy names.      *)
(* The task inserted for key k by revision r is named <<r, k>>.            *)
(***************************************************************************)
EXTENDS Integers, Sequences, FiniteSets, FiniteSetsExt

CONSTANTS
  Keys,          \* child ids a plan may use
  Plans,         \* the plans that may be submitted, of PlanForm
  CommandKeys,   \* idempotency keys of plan and replan commands
  MaxChildren, MaxTokens, MaxAttempts,  \* workflow.max_children and so on
  Spends,        \* the usage an attempt may report
  MaxTries,      \* retry.max_attempts of every child
  MaxActive,     \* settings.max_active
  MaxRevisions   \* bound: revisions of the plan

\* needs: dependencies in order; ceiling: the explicit max_tokens, 0 if omitted;
\* files: the children that declare a delivery; narrow: within root authority
PlanForm == [kids : SUBSET Keys, needs : [Keys -> Seq(Keys)], ceiling : [Keys -> Nat],
             files : SUBSET Keys, narrow : BOOLEAN]

ASSUME WorkflowAssumption ==
  /\ Plans \subseteq PlanForm /\ IsFiniteSet(Keys) /\ Spends \subseteq Nat
  /\ MaxChildren \in Nat /\ MaxTokens \in Nat /\ MaxAttempts \in Nat
  /\ MaxTries \in Nat /\ MaxActive \in Nat /\ MaxRevisions \in Nat

VARIABLES
  root,       \* workflow_roots: state, plan_revision, tokens_used, attempts_used
  planner,    \* status of the planner task
  plans,      \* workflow_plans, by revision
  child,      \* workflow_children: the task of a row, by <<revision, key>>
  task,       \* the children's rows of tasks
  attempt,    \* the current, unsettled attempt of a child
  delivered,  \* workflow_deliveries in state delivered: <<source, target>>
  failed,     \* workflow_deliveries in state failed
  output,     \* what a handoff finds of the declared result and files of a child
  command     \* commands of kind workflow_plan and workflow_replan

vars == <<root, planner, plans, child, task, attempt, delivered, failed, output, command>>

Ids == (1..MaxRevisions) \X Keys
NoRow == <<>>
Rows == {x \in Ids : child[x] # NoRow}
Created == {t \in Ids : task[t].status # "Absent"}
Terminal == {"Succeeded", "Failed", "Cancelled"}
Open == {t \in Created : task[t].status \notin Terminal}

NoTask == [status |-> "Absent", intent |-> "Run", tokens |-> 0, ceiling |-> 0,
           placed |-> 0, executed |-> 0]
NoAttempt == [state |-> "None", kind |-> "none", spent |-> 0]
NoCommand == [replan |-> FALSE, revision |-> 0]
\* whole, refused as Invalid (missing, removed, too large, no JSON), or raising what
\* no handler expects (bytes that are not UTF-8, a file that may not be read)
Outputs == {"whole", "missing", "unreadable"}

\* create: root and planner task in one transaction
Init ==
  /\ root = [state |-> "planning", revision |-> 0, tokens |-> 0, attempts |-> 0]
  /\ planner = "Pending"
  /\ plans = <<>>
  /\ child = [x \in Ids |-> NoRow]
  /\ task = [t \in Ids |-> NoTask]
  /\ attempt = [t \in Ids |-> NoAttempt]
  /\ delivered = {} /\ failed = {}
  /\ output = [t \in Ids |-> "missing"]
  /\ command = [c \in CommandKeys |-> NoCommand]

TypeOK ==
  /\ root \in [state : {"planning", "executing", "failed"}, revision : 0..MaxRevisions,
               tokens : Nat, attempts : 0..MaxAttempts]
  /\ planner \in {"Pending", "Succeeded", "Failed"}
  /\ plans \in Seq([state : {"accepted", "rejected"}, plan : Plans]) /\ Len(plans) <= MaxRevisions
  /\ child \in [Ids -> Ids \cup {NoRow}]
  /\ task \in [Ids -> [status : {"Absent", "Pending", "Scheduled"} \cup Terminal,
                       intent : {"Run", "user_cancelled", "deadline_exceeded", "obsolete_by_replan"},
                       tokens : Nat, ceiling : Nat, placed : Nat, executed : Nat]]
  /\ attempt \in [Ids -> [state : {"None", "Queued", "Live", "Ended"}, spent : Nat,
                          kind : {"none", "Succeeded", "transient", "permanent"}]]
  /\ delivered \subseteq Ids \X Ids /\ failed \subseteq Ids \X Ids
  /\ output \in [Ids -> Outputs]
  /\ command \in [CommandKeys -> [replan : BOOLEAN, revision : 0..MaxRevisions]]

----------------------------------------------------------------------------
\* Plans

\* _source_child_locked: the row of key k of the latest revision up to `upto`
SourceRow(k, upto) ==
  LET found == {r \in 1..upto : <<r, k>> \in Rows}
  IN IF found = {} THEN NoRow ELSE <<Max(found), k>>

\* _carry_source_locked: the succeeded task of key k
Carried(k) ==
  LET row == SourceRow(k, root.revision)
  IN IF row # NoRow /\ task[child[row]].status = "Succeeded" THEN child[row] ELSE NoRow

Fresh(plan) == {k \in plan.kids : Carried(k) = NoRow}

\* _open_children_locked: nothing of the child can have run
NotStarted(t) == attempt[t].state \in {"None", "Queued"}

Needs(plan, k) == {plan.needs[k][i] : i \in DOMAIN plan.needs[k]}

\* _child_spec: no child asks for more than the root's authority
Narrow(plan) == plan.narrow

\* Seeded fault: cycles are not looked for.
FaultyWellFormed(plan) == plan.kids # {} /\ Cardinality(plan.kids) <= MaxChildren

\* _validate_plan_shape
WellFormed(plan) ==
  /\ plan.kids # {} /\ Cardinality(plan.kids) <= MaxChildren
  /\ \A k \in plan.kids : Needs(plan, k) \subseteq plan.kids
  /\ ~\E ring \in SUBSET plan.kids \ {{}} : \A k \in ring : Needs(plan, k) \cap ring # {}

Unspent(t) == Max({0, task[t].ceiling - task[t].tokens})

\* Seeded fault: launched children of earlier revisions are forgotten.
FaultyAvailable(replan) == MaxTokens - root.tokens

\* The tokens a plan may share out: less what launched children may still use.
Available(replan) ==
  MaxTokens - root.tokens -
    (IF replan THEN SumFunctionOnSet([t \in Open |-> Unspent(t)], {t \in Open : ~NotStarted(t)}) ELSE 0)

Explicit(plan) == {k \in Fresh(plan) : plan.ceiling[k] # 0}
Implicit(plan) == Fresh(plan) \ Explicit(plan)
Asked(plan) == SumFunctionOnSet(plan.ceiling, Explicit(plan))
Share(plan, available) == (available - Asked(plan)) \div Cardinality(Implicit(plan))
Ceiling(plan, available, k) == IF k \in Implicit(plan) THEN Share(plan, available) ELSE plan.ceiling[k]

Acceptable(plan, replan) ==
  LET available == Available(replan)
  IN /\ WellFormed(plan) /\ Narrow(plan)
     /\ root.tokens < MaxTokens /\ root.attempts < MaxAttempts
     /\ available > 0
     /\ Implicit(plan) # {} => Share(plan, available) >= 1
     /\ SumFunctionOnSet([k \in Fresh(plan) |-> Ceiling(plan, available, k)], Fresh(plan)) <= available

\* Seeded fault: a launched child is reported cancelled as well.
FaultyObsolete(t) == [task[t] EXCEPT !.intent = "obsolete_by_replan", !.status = "Cancelled"]

\* Only what provably did not start is cancelled; the rest is asked to stop.
Obsolete(t) ==
  [task[t] EXCEPT !.intent = "obsolete_by_replan",
                  !.status = IF NotStarted(t) THEN "Cancelled" ELSE @]

Revised(r, replan) == [root EXCEPT !.state = "executing", !.revision = r]

Inserted(ceiling) == [NoTask EXCEPT !.status = "Pending", !.ceiling = ceiling]

\* Seeded fault: an open child whose id the new plan keeps goes on.
FaultyDropped(plan) == {t \in Open : t[2] \notin plan.kids}

\* what a replan makes obsolete: every open child, whether its id is kept or not
Dropped(plan) == Open

AcceptPlan(plan, replan) ==
  LET r == Len(plans) + 1
      obsolete == IF replan THEN Dropped(plan) ELSE {}
  IN /\ Acceptable(plan, replan)
     /\ plans' = Append(plans, [state |-> "accepted", plan |-> plan])
     /\ child' = [x \in Ids |-> IF x[1] # r \/ x[2] \notin plan.kids THEN child[x]
                                ELSE IF x[2] \in Fresh(plan) THEN x ELSE Carried(x[2])]
     /\ task' = [t \in Ids |->
          IF t \in obsolete THEN Obsolete(t)
          ELSE IF t[1] = r /\ t[2] \in Fresh(plan)
               THEN Inserted(Ceiling(plan, Available(replan), t[2]))
          ELSE task[t]]
     /\ attempt' = [t \in Ids |-> IF t \in obsolete /\ NotStarted(t) THEN NoAttempt ELSE attempt[t]]
     /\ root' = Revised(r, replan)

\* _record_rejected_locked
Rejected == IF root.revision = 0 THEN [root EXCEPT !.state = "failed"] ELSE root

RejectPlan(plan, replan) ==
  /\ ~Acceptable(plan, replan)
  /\ plans' = Append(plans, [state |-> "rejected", plan |-> plan])
  /\ root' = Rejected
  /\ UNCHANGED <<child, task, attempt>>

SettlePlan(plan, replan) ==
  /\ Len(plans) < MaxRevisions                        \* bound of the model
  /\ AcceptPlan(plan, replan) \/ RejectPlan(plan, replan)

\* The planner's result is accepted: its plan is settled in the same commit,
\* or ignored when the API has settled one.
PlannerSucceeds(plan) ==
  /\ planner = "Pending"
  /\ planner' = "Succeeded"
  /\ IF root.revision > 0
     THEN UNCHANGED <<root, plans, child, task, attempt>>
     ELSE SettlePlan(plan, FALSE)
  /\ UNCHANGED <<delivered, failed, output, command>>

PlannerFails ==
  /\ planner = "Pending"
  /\ planner' = "Failed"
  /\ UNCHANGED <<root, plans, child, task, attempt, delivered, failed, output, command>>

\* settle_plan looks the key up first: a resend returns the receipt it finds
Unused(c) == command[c].revision = 0

Command(c, plan, replan) ==
  /\ Unused(c)
  /\ replan \/ root.revision = 0                      \* otherwise Conflict
  /\ SettlePlan(plan, replan)
  /\ command' = [command EXCEPT ![c] = [replan |-> replan, revision |-> Len(plans')]]
  /\ UNCHANGED <<planner, delivered, failed, output>>

----------------------------------------------------------------------------
\* Manager.schedule: handoff, claim and placement of one pending child

Used == Cardinality({t \in Created : attempt[t].state # "None"})

Due(t) == task[t].status = "Pending" /\ task[t].intent = "Run" /\ Used < MaxActive

\* The rows that t depends on, in order.  An open child has one row, its own.
Sources(t) == [i \in DOMAIN plans[t[1]].plan.needs[t[2]] |->
                 SourceRow(plans[t[1]].plan.needs[t[2]][i], t[1])]

\* _payload_for_source_locked: what is not declared is not read
Found(row) == IF row[2] \in plans[row[1]].plan.files THEN output[child[row]] ELSE "whole"

\* Seeded fault: a source that will never succeed is waited for, too.
FaultyWaits(row) == task[child[row]].status # "Succeeded"

Waits(row) == child[row] \in Open

\* Seeded fault: only a source still open is waited for.
FaultyReady(row) == task[child[row]].status # "Pending"

Ready(row) == task[child[row]].status = "Succeeded" /\ Found(row) = "whole"

\* the first source that stops the loop; past the end when there is none
Stop(t) ==
  LET blocked == {i \in DOMAIN Sources(t) : ~Ready(Sources(t)[i])}
  IN IF blocked = {} THEN Len(Sources(t)) + 1 ELSE Min(blocked)

Stopped(t) == Stop(t) <= Len(Sources(t))
Blocker(t) == Sources(t)[Stop(t)]
Handed(t) == delivered \cup {<<child[Sources(t)[i]], t>> : i \in 1..(Stop(t) - 1)}

\* The payload of the blocker raises something other than Invalid.
Raises(t) == task[child[Blocker(t)]].status = "Succeeded" /\ Found(Blocker(t)) = "unreadable"

\* That leaves schedule and undoes the whole tick, in which no other child is
\* admitted, failed or settled either.  A tick passes the child by, and commits,
\* only while no worker fits it: so the other steps stay possible, and none is due.
TickFails == \E t \in Created : Due(t) /\ Stopped(t) /\ ~Waits(Blocker(t)) /\ Raises(t)

\* Some sources may be handed over before one that is waited for.
Wait(t) ==
  /\ Due(t) /\ Stopped(t) /\ Waits(Blocker(t))
  /\ delivered' = Handed(t)
  /\ UNCHANGED <<root, planner, plans, child, task, attempt, failed, output, command>>

\* INSERT OR IGNORE: a transfer made for an earlier attempt stays delivered.
Refused(t) == failed \cup ({<<child[Blocker(t)], t>>} \ delivered)

\* _dependency_failed_locked
HandoffFails(t) ==
  /\ Due(t) /\ Stopped(t) /\ ~Waits(Blocker(t)) /\ ~Raises(t)
  /\ delivered' = Handed(t)
  /\ failed' = Refused(t)
  /\ task' = [task EXCEPT ![t].status = "Failed"]
  /\ UNCHANGED <<root, planner, plans, child, attempt, output, command>>

\* claim_attempt_locked admits no attempt of a failed or exhausted workflow
Exhausted == root.tokens >= MaxTokens \/ root.state = "failed" \/ root.attempts >= MaxAttempts

Refuse(t) ==
  /\ Due(t) /\ ~Stopped(t) /\ Exhausted
  /\ delivered' = Handed(t)
  /\ task' = [task EXCEPT ![t].status = "Failed"]
  /\ UNCHANGED <<root, planner, plans, child, attempt, failed, output, command>>

Admit(t) ==
  /\ Due(t) /\ ~Stopped(t) /\ ~Exhausted
  /\ delivered' = Handed(t)
  /\ root' = [root EXCEPT !.attempts = @ + 1]
  /\ task' = [task EXCEPT ![t].status = "Scheduled", ![t].placed = @ + 1]
  /\ attempt' = [attempt EXCEPT ![t].state = "Queued"]
  /\ UNCHANGED <<planner, plans, child, failed, output, command>>

----------------------------------------------------------------------------
\* The attempts of a child, and their settlement

\* the runner's claim
Launch(t) ==
  /\ attempt[t].state = "Queued"
  /\ attempt' = [attempt EXCEPT ![t].state = "Live"]
  /\ UNCHANGED <<root, planner, plans, child, task, delivered, failed, output, command>>

\* The runner, or the operator for an Unknown attempt, reports the end.
End(t, kind, spent) ==
  /\ attempt[t].state = "Live"
  /\ attempt' = [attempt EXCEPT ![t] = [state |-> "Ended", kind |-> kind, spent |-> spent]]
  /\ UNCHANGED <<root, planner, plans, child, task, delivered, failed, output, command>>

Finished(t) == [task[t] EXCEPT !.status =
                  IF task[t].intent = "deadline_exceeded" THEN "Failed" ELSE "Cancelled"]

\* The tick finds a Queued attempt to stop, or whose worker is lost.
Unlaunched(t) ==
  /\ attempt[t].state = "Queued"
  /\ task' = [task EXCEPT ![t] = IF task[t].intent = "Run" THEN [@ EXCEPT !.status = "Pending"]
                                                          ELSE Finished(t)]
  /\ attempt' = [attempt EXCEPT ![t] = NoAttempt]
  /\ UNCHANGED <<root, planner, plans, child, delivered, failed, output, command>>

\* record_usage_locked
Recorded(t) ==
  LET tokens == root.tokens + attempt[t].spent
  IN [root EXCEPT !.tokens = tokens, !.state = IF tokens > MaxTokens THEN "failed" ELSE @]

\* the row once the attempt is charged to it
Charged(t) == [task[t] EXCEPT !.tokens = @ + attempt[t].spent, !.executed = @ + 1]

Retryable(t) == /\ attempt[t].kind = "transient"
                /\ Charged(t).executed < MaxTries /\ Charged(t).tokens < Charged(t).ceiling

\* Seeded fault: a success is accepted although the child is to stop.
FaultyVerdict(t) ==
  IF attempt[t].kind = "Succeeded" THEN "Succeeded"
  ELSE IF task[t].intent # "Run" THEN Finished(t).status
  ELSE IF Retryable(t) THEN "Pending" ELSE "Failed"

Verdict(t) ==
  IF task[t].intent # "Run" THEN Finished(t).status
  ELSE IF attempt[t].kind = "Succeeded" THEN "Succeeded"
  ELSE IF Retryable(t) THEN "Pending" ELSE "Failed"

\* Seeded fault: the usage of a child that is to stop is left out.
FaultyCounted(t) == IF task[t].intent = "Run" THEN Recorded(t) ELSE root

Counted(t) == Recorded(t)

\* Manager.settle
Settle(t) ==
  /\ attempt[t].state = "Ended"
  /\ root' = Counted(t)
  /\ task' = [task EXCEPT ![t] = [Charged(t) EXCEPT !.status = Verdict(t)]]
  /\ attempt' = [attempt EXCEPT ![t] = NoAttempt]
  /\ output' = IF Verdict(t) = "Succeeded" THEN [output EXCEPT ![t] = "whole"] ELSE output
  /\ UNCHANGED <<planner, plans, child, delivered, failed, command>>

\* Store.cancel of a child
Cancel(t) ==
  /\ t \in Open
  /\ task' = [task EXCEPT ![t].intent = "user_cancelled",
                          ![t].status = IF @ = "Pending" THEN "Cancelled" ELSE @]
  /\ UNCHANGED <<root, planner, plans, child, attempt, delivered, failed, output, command>>

\* The tick finds the deadline of a child passed.
Deadline(t) ==
  /\ t \in Open /\ task[t].intent = "Run"
  /\ task' = [task EXCEPT ![t].intent = "deadline_exceeded",
                          ![t].status = IF @ = "Pending" THEN "Failed" ELSE @]
  /\ UNCHANGED <<root, planner, plans, child, attempt, delivered, failed, output, command>>

\* some row of the child declares what it delivers
Declares(t) == \E row \in Rows : child[row] = t /\ row[2] \in plans[row[1]].plan.files

\* What the child left, or what anything did to its workspace since.
Written(t, found) ==
  /\ task[t].status = "Succeeded" /\ Declares(t) /\ found # output[t]
  /\ output' = [output EXCEPT ![t] = found]
  /\ UNCHANGED <<root, planner, plans, child, task, attempt, delivered, failed, command>>

----------------------------------------------------------------------------
Next ==
  \/ PlannerFails
  \/ \E plan \in Plans : \/ PlannerSucceeds(plan)
                         \/ \E c \in CommandKeys, replan \in BOOLEAN : Command(c, plan, replan)
  \/ \E t \in Created :
       \/ Wait(t) \/ HandoffFails(t) \/ Refuse(t) \/ Admit(t)
       \/ Launch(t) \/ Unlaunched(t) \/ Settle(t)
       \/ Cancel(t) \/ Deadline(t)
       \/ \E found \in Outputs : Written(t, found)
       \/ \E kind \in {"Succeeded", "transient", "permanent"}, spent \in Spends : End(t, kind, spent)

Spec == Init /\ [][Next]_vars

Ends(t) == \E kind \in {"Succeeded", "transient", "permanent"}, spent \in Spends : End(t, kind, spent)

\* The manager ticks and its ticks commit, a queued attempt is launched or found
\* unlaunched, and a live one ends: by itself, by its time limits, or resolved by
\* the operator.
\* The state of a child enables one of the three kinds of step at a time.
Progress(t) ==
  /\ t \in Created
  /\ \/ HandoffFails(t) \/ Refuse(t) \/ Admit(t)
     \/ Launch(t) \/ Unlaunched(t) \/ Ends(t) \/ Settle(t)

FairSpec == Spec /\ \A t \in Ids : WF_vars(Progress(t) /\ ~TickFails)

----------------------------------------------------------------------------
\* Properties

Overrun(t) == Max({0, task[t].tokens - task[t].ceiling})

\* With rows as described, the root's cumulative counters agree with its
\* children whatever was carried, cancelled or replaced; no more attempts than
\* max_attempts are made; and the tokens used and those that open children may
\* still use stay within the workflow's ceiling over every replan, where an
\* attempt that overran its own ceiling is the only excuse
\* (_settle_plan_locked, workflows.py:509).
BudgetNotOversold ==
  /\ TypeOK
  /\ root.tokens = SumFunctionOnSet([t \in Created |-> task[t].tokens], Created)
  /\ root.attempts = SumFunctionOnSet([t \in Created |-> task[t].placed], Created)
  /\ root.attempts <= MaxAttempts
  /\ root.tokens + SumFunctionOnSet([t \in Open |-> Unspent(t)], Open)
       <= MaxTokens + SumFunctionOnSet([t \in Created |-> Overrun(t)], Created)

\* A child that was reported cancelled, or ended otherwise, is not running: a
\* replan may race the launch of the child it drops (workflows.py:556).
EndedIsStopped == \A t \in Created \ Open : attempt[t].state = "None"

\* Completed work is not regenerated: at most one task of a key ever succeeds,
\* however many revisions contain the key.
WorkDoneOnce ==
  \A k \in Keys : Cardinality({t \in Created : t[2] = k /\ task[t].status = "Succeeded"}) <= 1

\* A child that may still be admitted or run to success belongs to the accepted
\* revision: a replan leaves no live task of the plan it replaces behind.
OnlyCurrentPlanRuns ==
  \A t \in Open : task[t].intent = "Run" => root.revision > 0 /\ child[<<root.revision, t[2]>>] = t

\* A child is admitted only after every source named by its plan succeeded and
\* was handed over to it, and never with a transfer to it recorded as failed,
\* wherever the loop over its sources stopped before (_deliver_dependencies_locked).
HandedOverFirst ==
  \A t \in Created : task[t].placed > 0 =>
    \A i \in DOMAIN Sources(t) :
      LET source == child[Sources(t)[i]]
      IN task[source].status = "Succeeded" /\ <<source, t>> \in delivered \ failed

\* Every child of a plan ends, whatever its sources do, unless from some time on
\* there always is a child whose source makes the tick fail: only Invalid is caught
\* where a payload is read, workflows.py:706-711, so one file that cannot be decoded
\* stops every child, of other workflows too.
ChildrenEnd == <>[]~TickFails => \A t \in Ids : t \in Open ~> t \notin Open
=============================================================================
