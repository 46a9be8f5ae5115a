--------------------------- MODULE WorkflowProofs ---------------------------
(***************************************************************************)
(* For any plans, budgets and interleavings: a child that has ended, as    *)
(* cancelled by a replan or otherwise, has no attempt that may still run;  *)
(* only children of the accepted revision may run to success; no key       *)
(* succeeds twice; a child is admitted only after every source of its plan *)
(* succeeded and was handed over; and the children together are never      *)
(* promised more attempts or tokens than the root was given.  Together they*)
(* implement what the owner of the workflow was promised (WorkflowContract),*)
(* and the children the contract of the task core (TaskContract).          *)
(*                                                                         *)
(* The first four rest on one inductive invariant about plans, rows and    *)
(* tasks.  Its preservation is shown once for all steps of a child         *)
(* (ChildStep, by what such a step may make of the row: Moves) and once for*)
(* an accepted plan, which writes many rows at a time.  The budget adds the*)
(* books (Funds): what a child's step moves between what is used and what is*)
(* reserved, and what a plan reserves, as sums over the children.  The two *)
(* contracts read both: every step is shown to be a turn of one child      *)
(* (Turn), a plan's turn of all of them (PlanTurn) or no turn at all, and  *)
(* each turn a step of either contract.                                    *)
(***************************************************************************)
EXTENDS WorkflowRefinement, SumLemmas, FiniteSetTheorems, WellFoundedInduction, TLAPS

Statuses == {"Absent", "Pending", "Scheduled"} \cup Terminal
Intents == {"Run", "user_cancelled", "deadline_exceeded", "obsolete_by_replan"}
Attempts == [state : {"None", "Queued", "Live", "Ended"}, spent : Nat,
             kind : {"none", "Succeeded", "transient", "permanent"}]
PlanRows == [state : {"accepted", "rejected"}, plan : Plans]

\* a row of tasks; its ceiling is a share computed from sums over the children
Shaped(row) == row \in [status : Statuses, intent : Intents, tokens : Nat,
                        ceiling : {row.ceiling}, placed : Nat, executed : Nat]

\* x is a row of workflow_children that an accepted plan has written
Planned(x) == x[1] <= Len(plans) /\ plans[x[1]].state = "accepted" /\ x[2] \in plans[x[1]].plan.kids

Shapes ==
  /\ plans \in Seq(PlanRows)
  /\ root = [state |-> root.state, revision |-> root.revision,
             tokens |-> root.tokens, attempts |-> root.attempts]
  /\ root.revision \in 0..Len(plans)
  /\ child = [x \in Ids |-> child[x]]
  /\ task = [t \in Ids |-> task[t]] /\ \A t \in Ids : Shaped(task[t])
  /\ attempt \in [Ids -> Attempts]

\* An accepted plan names only its own children as sources.
PlansClosed ==
  \A r \in 1..Len(plans) : plans[r].state = "accepted" =>
    \A k \in plans[r].plan.kids : Needs(plans[r].plan, k) \subseteq plans[r].plan.kids

\* A planned row names the task inserted for it or a carried, succeeded one.
RowNames(x) ==
  /\ x[1] <= root.revision
  /\ child[x] \in Ids /\ task[child[x]].status # "Absent" /\ child[x][2] = x[2]
  /\ child[x] = x \/ task[child[x]].status = "Succeeded"

RowsKept == \A x \in Ids : (child[x] # NoRow <=> Planned(x)) /\ (Planned(x) => RowNames(x))

\* Only a Scheduled child has an attempt.
AttemptsScheduled == \A t \in Ids : attempt[t].state # "None" => task[t].status = "Scheduled"

\* A task stands in the row it was inserted for.
OwnRow == \A t \in Ids : task[t].status # "Absent" => child[t] = t

\* What may still run to success was inserted by the latest accepted revision.
Current == \A t \in Ids : task[t].status \in {"Pending", "Scheduled"} /\ task[t].intent = "Run"
                            => t[1] = root.revision

\* Every later revision with the key of a succeeded task carries that task.
CarriedOn ==
  \A t, x \in Ids : task[t].status = "Succeeded" /\ x[2] = t[2] /\ t[1] <= x[1] /\ Planned(x)
                      => child[x] = t

\* A transfer fails together with the child it is for.
FailedWithTarget == \A s, t \in Ids : <<s, t>> \in failed => task[t].status = "Failed"

\* the source that key k of a plan names has succeeded and was handed to t
Provided(t, k) ==
  /\ task[child[<<t[1], k>>]].status = "Succeeded"
  /\ <<child[<<t[1], k>>], t>> \in delivered \ failed

Required(t) == Needs(plans[t[1]].plan, t[2])

HandedOver == \A t \in Ids : task[t].status # "Absent" /\ task[t].placed > 0 =>
             \A k \in Required(t) : Provided(t, k)

Inv ==
  /\ Shapes /\ PlansClosed /\ RowsKept /\ AttemptsScheduled /\ OwnRow
  /\ Current /\ CarriedOn /\ FailedWithTarget /\ HandedOver

\* The initial state satisfies the invariant.
LEMMA InvInit == Init => Inv
<1> SUFFICES ASSUME Init PROVE Inv
  OBVIOUS
<1>1. /\ Len(plans) = 0 /\ plans \in Seq(PlanRows) /\ root.revision = 0 /\ failed = {}
      /\ \A t \in Ids : task[t] = NoTask /\ attempt[t] = NoAttempt /\ child[t] = NoRow
  BY DEF Init
<1>2. Shaped(NoTask) /\ NoTask.status = "Absent" /\ NoAttempt \in Attempts /\ NoAttempt.state = "None"
  BY DEF NoTask, NoAttempt, Shaped, Statuses, Intents, Attempts
<1>3. Shapes
  BY <1>1, <1>2 DEF Init, Shapes
<1>4. \A x \in Ids : ~Planned(x)
  BY <1>1 DEF Planned, Ids
<1>5. RowsKept
  BY <1>1, <1>4 DEF RowsKept
<1> QED
  BY <1>1, <1>2, <1>3, <1>4, <1>5
  DEF Inv, PlansClosed, AttemptsScheduled, OwnRow, Current, CarriedOn, FailedWithTarget, HandedOver

----------------------------------------------------------------------------
\* Lemmas about the operators of the model

\* The greatest element of a set, once one is known to be it.
LEMMA MaxIs ==
  ASSUME NEW S \in SUBSET Int, NEW m \in S, \A y \in S : m >= y
  PROVE  Max(S) = m
<1>1. \A x, y \in S : x >= y /\ y >= x => x = y
  OBVIOUS
<1>2. Max(S) \in S /\ \A y \in S : Max(S) >= y
  BY Zenon DEF Max
<1> QED BY <1>1, <1>2

\* A set of naturals that has an element has a least one.
LEMMA MinIn ==
  ASSUME NEW S \in SUBSET Nat, S # {}
  PROVE  Min(S) \in S /\ \A y \in S : Min(S) <= y
<1>1. PICK m \in S : \A y \in S : ~(<<y, m>> \in OpToRel(<, Nat))
  BY NatLessThanWellFounded, WFMin, Zenon
<1>2. \A y \in S : ~(y < m)
  BY <1>1, Zenon DEF OpToRel
<1>3. \A y \in S : m <= y
  BY <1>2, SMT
<1> QED BY <1>3, Zenon DEF Min

\* A bounded set of naturals that has an element has a greatest one.
LEMMA MaxIn ==
  ASSUME NEW n \in Nat, NEW S \in SUBSET (0..n), S # {}
  PROVE  Max(S) \in S /\ \A y \in S : Max(S) >= y
<1> DEFINE D == {d \in 0..n : n - d \in S}
<1>1. PICK y \in S : TRUE
  OBVIOUS
<1>2. n - y \in D /\ D \in SUBSET Nat
  BY <1>1
<1>3. Min(D) \in D /\ \A d \in D : Min(D) <= d
  <2> HIDE DEF D
  <2> QED BY <1>2, MinIn
<1>4. n - Min(D) \in S /\ \A z \in S : n - z \in D
  BY <1>3
<1>5. \A z \in S : n - Min(D) >= z
  BY <1>3, <1>4
<1> QED BY <1>4, <1>5, Zenon DEF Max

\* A loop over the sources runs to its end exactly when none of them stops it.
LEMMA StopMeets ==
  ASSUME Inv, NEW t \in Ids, Len(Sources(t)) \in Nat, DOMAIN Sources(t) = 1..Len(Sources(t))
  PROVE  /\ Stopped(t) => Stop(t) \in DOMAIN Sources(t) /\ ~Ready(Blocker(t))
         /\ ~Stopped(t) => \A i \in DOMAIN Sources(t) : Ready(Sources(t)[i]) /\ i <= Stop(t) - 1
<1> DEFINE blocked == {i \in DOMAIN Sources(t) : ~Ready(Sources(t)[i])}
<1>1. CASE blocked = {}
  <2>1. Stop(t) = Len(Sources(t)) + 1
    BY <1>1 DEF Stop
  <2> QED BY <1>1, <2>1 DEF Stopped
<1>2. CASE blocked # {}
  <2>1. Stop(t) = Min(blocked)
    BY <1>2 DEF Stop
  <2>2. Stop(t) \in blocked
    <3>1. blocked \in SUBSET Nat
      OBVIOUS
    <3> HIDE DEF blocked
    <3> QED BY <1>2, <2>1, <3>1, MinIn
  <2> QED BY <2>2 DEF Stopped, Blocker
<1> QED BY <1>1, <1>2

\* The sources of a child are rows of its own revision, one for every child
\* that its plan names.
LEMMA SourcesOwn ==
  ASSUME Inv, NEW t \in Ids, task[t].status # "Absent"
  PROVE  /\ Len(Sources(t)) \in Nat /\ DOMAIN Sources(t) = 1..Len(Sources(t))
         /\ \A i \in DOMAIN Sources(t) : \E k \in Required(t) : Sources(t)[i] = <<t[1], k>>
         /\ \A k \in Required(t) : \E i \in DOMAIN Sources(t) : Sources(t)[i] = <<t[1], k>>
         /\ \A k \in Required(t) : <<t[1], k>> \in Ids /\ Planned(<<t[1], k>>)
<1> DEFINE plan == plans[t[1]].plan
           needs == plan.needs[t[2]]
<1>1. t[1] \in 1..MaxRevisions /\ t[2] \in Keys /\ t = <<t[1], t[2]>>
  BY DEF Ids
<1>2. child[t] = t /\ t # NoRow
  <2>1. child[t] = t
    BY DEF Inv, OwnRow
  <2>2. DOMAIN <<t[1], t[2]>> # DOMAIN <<>>
    OBVIOUS
  <2> QED BY <1>1, <2>1, <2>2 DEF NoRow
<1>3. Planned(t)
  BY <1>2 DEF Inv, RowsKept
<1>4. t[1] \in 1..Len(plans) /\ plans[t[1]].state = "accepted" /\ t[2] \in plan.kids
  BY <1>1, <1>3 DEF Planned, Inv, Shapes
<1>5. plan \in PlanForm
  <2>1. plans[t[1]] \in PlanRows
    BY <1>4 DEF Inv, Shapes
  <2> QED BY <2>1, WorkflowAssumption DEF PlanRows
<1>6. needs \in Seq(Keys) /\ plan.kids \subseteq Keys
  BY <1>1, <1>5 DEF PlanForm
<1>7. Required(t) = {needs[i] : i \in DOMAIN needs} /\ Required(t) \subseteq plan.kids
  BY <1>4 DEF Required, Needs, Inv, PlansClosed
<1> HIDE DEF needs
<1>8. ASSUME NEW k \in plan.kids
      PROVE  <<t[1], k>> \in Ids /\ Planned(<<t[1], k>>) /\ SourceRow(k, t[1]) = <<t[1], k>>
  <2>1. <<t[1], k>> \in Ids /\ Planned(<<t[1], k>>)
    BY <1>1, <1>4, <1>6, <1>8 DEF Ids, Planned
  <2>2. <<t[1], k>> \in Rows
    BY <2>1 DEF Rows, Inv, RowsKept
  <2> DEFINE found == {r \in 1..t[1] : <<r, k>> \in Rows}
  <2>3. t[1] \in found /\ found \in SUBSET Int /\ \A r \in found : t[1] >= r
    BY <1>1, <2>2
  <2>4. Max(found) = t[1]
    BY <2>3, MaxIs
  <2> QED BY <2>1, <2>3, <2>4 DEF SourceRow
<1>9. Sources(t) = [i \in DOMAIN needs |-> SourceRow(needs[i], t[1])]
  BY DEF Sources, needs
<1>10. /\ Len(Sources(t)) = Len(needs) /\ DOMAIN needs = 1..Len(needs) /\ Len(needs) \in Nat
       /\ DOMAIN Sources(t) = DOMAIN needs
  <2>1. DOMAIN needs = 1..Len(needs) /\ Len(needs) \in Nat
    BY <1>6
  <2>2. DOMAIN Sources(t) = 1..Len(needs)
    BY <1>9, <2>1
  <2>3. Len(Sources(t)) = Len(needs)
    BY <2>1, <2>2, <1>9, SMT
  <2> QED BY <2>1, <2>2, <2>3
<1> HIDE DEF plan
<1>11. \A i \in DOMAIN Sources(t) : needs[i] \in Required(t) /\ Sources(t)[i] = <<t[1], needs[i]>>
  BY <1>7, <1>8, <1>9, <1>10
<1>12. \A k \in Required(t) : \E i \in DOMAIN Sources(t) : needs[i] = k
  BY <1>7, <1>10
<1> QED BY <1>7, <1>8, <1>10, <1>11, <1>12

----------------------------------------------------------------------------
\* Steps of one child

Runs(row) == row.status \in {"Pending", "Scheduled"} /\ row.intent = "Run"

\* What a step of a child may make of its row and of its attempt.
Moves(t, row, att) ==
  /\ Shaped(row) /\ row.status # "Absent"
  /\ task[t].status \in Terminal => row = task[t]
  /\ att \in Attempts /\ (att.state # "None" => row.status = "Scheduled")
  /\ row.status = "Succeeded" => task[t].status = "Succeeded" \/ Runs(task[t])
  /\ row.intent = "Run" => task[t].intent = "Run"

\* the child is admitted, its sources having been handed over, or was before
Admitted(t, row) ==
  row.placed > 0 =>
    \/ task[t].placed > 0
    \/ /\ task[t].status = "Pending" /\ failed' = failed
       /\ \A k \in Required(t) : /\ task[child[<<t[1], k>>]].status = "Succeeded"
                                 /\ <<child[<<t[1], k>>], t>> \in delivered'

\* a transfer is recorded as failed only for a child that fails with it
Failing(t, row) ==
  \/ failed' = failed
  \/ /\ row.status = "Failed"
     /\ \E k \in Required(t) : failed' = failed \cup ({<<child[<<t[1], k>>], t>>} \ delivered)

\* A step that moves one child as described keeps the invariant.
LEMMA ChildStep ==
  ASSUME Inv, NEW t \in Created, NEW row, NEW att,
         Moves(t, row, att), Admitted(t, row), Failing(t, row),
         task' = [task EXCEPT ![t] = row], attempt' = [attempt EXCEPT ![t] = att],
         UNCHANGED <<plans, child>>, delivered \subseteq delivered',
         root' = [state |-> root'.state, revision |-> root.revision,
                  tokens |-> root'.tokens, attempts |-> root'.attempts]
  PROVE  Inv'
<1>1. t \in Ids /\ task[t].status # "Absent" /\ Shaped(task[t]) /\ Shaped(row) /\ row.status # "Absent"
  BY DEF Created, Inv, Shapes, Moves
<1>2. /\ \A u \in Ids : task'[u] = IF u = t THEN row ELSE task[u]
      /\ \A u \in Ids : attempt'[u] = IF u = t THEN att ELSE attempt[u]
      /\ task' = [u \in Ids |-> task'[u]]
  BY DEF Inv, Shapes
<1>3. \A u \in Ids : /\ task[u].status \in Terminal => task'[u] = task[u]
                     /\ (task[u].status = "Absent") <=> (task'[u].status = "Absent")
  BY <1>1, <1>2 DEF Moves
<1>4. root'.revision = root.revision /\ \A x \in Ids : Planned(x)' <=> Planned(x)
  BY DEF Planned
<1>5. Shapes'
  <2>1. \A u \in Ids : Shaped(task'[u])
    BY <1>1, <1>2 DEF Inv, Shapes
  <2>2. attempt' \in [Ids -> Attempts]
    BY DEF Moves, Inv, Shapes
  <2> QED BY <1>2, <1>4, <2>1, <2>2 DEF Inv, Shapes, Ids
<1>6. PlansClosed'
  BY DEF Inv, PlansClosed, Needs
<1>7. RowsKept'
  <2> SUFFICES ASSUME NEW x \in Ids PROVE (child'[x] # NoRow <=> Planned(x)') /\ (Planned(x)' => RowNames(x)')
    BY DEF RowsKept, Ids
  <2>1. (child[x] # NoRow <=> Planned(x)) /\ (Planned(x) => RowNames(x))
    BY DEF Inv, RowsKept
  <2>2. RowNames(x) => RowNames(x)'
    BY <1>3, <1>4 DEF RowNames, Ids, Terminal
  <2> QED BY <1>4, <2>1, <2>2
<1>8. AttemptsScheduled'
  BY <1>1, <1>2 DEF Inv, AttemptsScheduled, Moves, Ids
<1>9. OwnRow'
  BY <1>3 DEF Inv, OwnRow, Ids
<1>10. Current'
  <2>1. Runs(row) => Runs(task[t])
    BY <1>1 DEF Moves, Runs, Shaped, Statuses, Terminal
  <2> QED BY <1>2, <1>4, <2>1 DEF Inv, Current, Ids, Runs
<1>11. CarriedOn'
  <2> SUFFICES ASSUME NEW u \in Ids, NEW x \in Ids, task'[u].status = "Succeeded",
                      x[2] = u[2], u[1] <= x[1], Planned(x)
               PROVE  child[x] = u
    BY <1>4 DEF CarriedOn, Ids
  <2>1. CASE task[u].status = "Succeeded"
    BY <2>1 DEF Inv, CarriedOn
  <2>2. CASE task[u].status # "Succeeded"
    <3>1. u = t /\ Runs(task[t])
      BY <1>2, <2>2 DEF Moves
    <3>2. u[1] = root.revision /\ x[1] <= root.revision
      BY <3>1 DEF Inv, Current, Runs, RowsKept, RowNames
    <3>3. x = u
      BY <3>2 DEF Ids, Inv, Shapes
    <3> QED BY <1>1, <3>1, <3>3 DEF Inv, OwnRow
  <2> QED BY <2>1, <2>2
<1>12. FailedWithTarget'
  <2> SUFFICES ASSUME NEW s \in Ids, NEW u \in Ids, <<s, u>> \in failed'
               PROVE  task'[u].status = "Failed"
    BY DEF FailedWithTarget, Ids
  <2>1. CASE <<s, u>> \in failed
    BY <1>3, <2>1 DEF Inv, FailedWithTarget, Terminal
  <2>2. CASE <<s, u>> \notin failed
    <3>1. PICK k : <<s, u>> \in failed \cup ({<<child[<<t[1], k>>], t>>} \ delivered)
      BY <2>2 DEF Failing
    <3>2. u = t
      BY <2>2, <3>1
    <3>3. row.status = "Failed"
      BY <2>2 DEF Failing
    <3> QED BY <3>2, <3>3, <1>2
  <2> QED BY <2>1, <2>2
<1>13. HandedOver'
  <2> SUFFICES ASSUME NEW u \in Ids, task'[u].status # "Absent", task'[u].placed > 0,
                      NEW k \in Required(u)
               PROVE  /\ task'[child[<<u[1], k>>]].status = "Succeeded"
                      /\ <<child[<<u[1], k>>], u>> \in delivered'
                      /\ <<child[<<u[1], k>>], u>> \notin failed'
    <3>1. \A u \in Ids : Required(u)' = Required(u)
      BY DEF Required, Needs
    <3>2. \A u \in Ids : \A k \in Required(u) :
            Provided(u, k)' <=> /\ task'[child[<<u[1], k>>]].status = "Succeeded"
                               /\ <<child[<<u[1], k>>], u>> \in delivered' \ failed'
      BY DEF Provided
    <3> HIDE DEF Required, Provided
    <3> QED BY <3>1, <3>2 DEF HandedOver, Ids
  <2> DEFINE s == child[<<u[1], k>>]
  <2>1. task[u].status # "Absent"
    BY <1>3
  <2>2. s \in Ids
    BY <2>1, SourcesOwn DEF Inv, RowsKept, RowNames
  <2> HIDE DEF s
  <2>3. CASE task[u].placed > 0
    <3>1. task[s].status = "Succeeded" /\ <<s, u>> \in delivered \ failed
      BY <2>1, <2>3 DEF Inv, HandedOver, Provided, s
    <3>2. task'[s].status = "Succeeded"
      BY <1>3, <2>2, <3>1 DEF Terminal
    <3> QED BY <3>1, <3>2 DEF s, Failing
  <2>4. CASE ~(task[u].placed > 0)
    <3>1. u = t /\ row.placed > 0
      BY <1>2, <2>4
    <3>2. /\ task[s].status = "Succeeded" /\ <<s, u>> \in delivered'
          /\ failed' = failed /\ task[u].status = "Pending"
      BY <2>4, <3>1 DEF Admitted, s
    <3>3. task'[s].status = "Succeeded"
      BY <1>3, <2>2, <3>2 DEF Terminal
    <3>4. <<s, u>> \notin failed
      BY <2>2, <3>2 DEF Inv, FailedWithTarget
    <3> QED BY <3>2, <3>3, <3>4 DEF s
  <2> QED BY <2>3, <2>4
<1> QED BY <1>5, <1>6, <1>7, <1>8, <1>9, <1>10, <1>11, <1>12, <1>13 DEF Inv

\* A step that leaves plans, rows, tasks and transfers alone keeps it, too.
LEMMA QuietStep ==
  ASSUME Inv, UNCHANGED <<root, plans, child, task, attempt, delivered, failed>>
  PROVE  Inv'
<1>1. Shapes' /\ PlansClosed'
  BY DEF Inv, Shapes, PlansClosed, Needs, Ids
<1>2. RowsKept' /\ OwnRow' /\ CarriedOn'
  BY DEF Inv, RowsKept, RowNames, Planned, OwnRow, CarriedOn, Ids
<1>3. AttemptsScheduled' /\ Current' /\ FailedWithTarget'
  BY DEF Inv, AttemptsScheduled, Current, FailedWithTarget, Ids
<1>4. HandedOver'
  <2>1. \A t \in Ids : Required(t)' = Required(t)
    BY DEF Required, Needs
  <2>2. \A t \in Ids : \A k \in Required(t) : Provided(t, k)' <=> Provided(t, k)
    BY DEF Provided
  <2> QED BY <2>1, <2>2 DEF Inv, HandedOver, Ids
<1> QED BY <1>1, <1>2, <1>3, <1>4 DEF Inv

----------------------------------------------------------------------------
\* Plans

\* The plan a revision adds is written after all the others.
LEMMA NextPlan ==
  ASSUME Inv, NEW row \in PlanRows, plans' = Append(plans, row)
  PROVE  /\ Len(plans) \in Nat /\ Len(plans') = Len(plans) + 1 /\ plans' \in Seq(PlanRows)
         /\ plans'[Len(plans) + 1] = row
         /\ \A r \in 1..Len(plans) : plans'[r] = plans[r]
BY DEF Inv, Shapes

\* A task is the work of a revision that a plan has reached.
LEMMA TaskIsPlanned ==
  ASSUME Inv, NEW t \in Ids, task[t].status # "Absent"
  PROVE  child[t] = t /\ t # NoRow /\ Planned(t) /\ t[1] <= root.revision /\ t[1] <= Len(plans)
<1>1. child[t] = t
  BY DEF Inv, OwnRow
<1>2. DOMAIN t # DOMAIN <<>>
  BY DEF Ids
<1>3. t # NoRow
  BY <1>2 DEF NoRow
<1>4. Planned(t) /\ RowNames(t)
  BY <1>1, <1>3 DEF Inv, RowsKept
<1> QED BY <1>1, <1>3, <1>4 DEF RowNames, Planned

\* What a revision carries for a key is the task of that key that succeeded.
LEMMA CarriedIs ==
  ASSUME Inv, NEW k \in Keys
  PROVE  /\ Carried(k) # NoRow => /\ Carried(k) \in Ids /\ Carried(k)[2] = k
                                  /\ task[Carried(k)].status = "Succeeded"
         /\ \A t \in Ids : task[t].status = "Succeeded" /\ t[2] = k => Carried(k) = t
<1> DEFINE found == {r \in 1..root.revision : <<r, k>> \in Rows}
           row == SourceRow(k, root.revision)
<1>1. root.revision \in Nat
  BY DEF Inv, Shapes
<1>2. found # {} => row = <<Max(found), k>> /\ row \in Rows
                    /\ Max(found) \in found /\ \A r \in found : Max(found) >= r
  <2>1. found \in SUBSET (0..root.revision) /\ \A r \in found : <<r, k>> \in Rows
    BY <1>1
  <2>2. found # {} => row = <<Max(found), k>>
    BY DEF SourceRow
  <2>3. found = {} \/ found # {}
    OBVIOUS
  <2> HIDE DEF found, row
  <2> QED BY <1>1, <2>1, <2>2, MaxIn
<1>3. found = {} => row = NoRow
  BY DEF SourceRow
<1>4. Carried(k) = IF row # NoRow /\ task[child[row]].status = "Succeeded" THEN child[row] ELSE NoRow
  BY DEF Carried
<1>5. row # NoRow => found # {} /\ row \in Ids /\ row[2] = k /\ Planned(row) /\ RowNames(row)
  <2>1. row # NoRow => found # {} /\ row \in Rows
    BY <1>2, <1>3
  <2> QED BY <1>2, <2>1 DEF Rows, Inv, RowsKept
<1>6. ASSUME Carried(k) # NoRow
      PROVE  Carried(k) \in Ids /\ Carried(k)[2] = k /\ task[Carried(k)].status = "Succeeded"
  <2> HIDE DEF found, row
  <2> QED BY <1>4, <1>5, <1>6 DEF RowNames
<1>7. ASSUME NEW t \in Ids, task[t].status = "Succeeded", t[2] = k
      PROVE  Carried(k) = t
  <2>1. t[1] \in found /\ t = <<t[1], k>>
    <3>1. child[t] = t /\ t # NoRow /\ t[1] <= root.revision /\ t[1] \in 1..MaxRevisions /\ t = <<t[1], k>>
      BY <1>7, TaskIsPlanned DEF Ids
    <3> QED BY <1>1, <3>1 DEF Rows
  <2>2. found # {} /\ row = <<Max(found), k>> /\ row \in Rows /\ Max(found) >= t[1]
    BY <1>2, <2>1
  <2>3. row # NoRow
    <3>1. DOMAIN <<Max(found), k>> # DOMAIN <<>>
      OBVIOUS
    <3> QED BY <2>2, <3>1 DEF NoRow
  <2>4. row \in Ids /\ row[2] = k /\ row[1] >= t[1] /\ Planned(row)
    BY <1>5, <2>2, <2>3 DEF Rows
  <2> HIDE DEF found, row
  <2>5. child[row] = t
    BY <1>7, <2>4 DEF Inv, CarriedOn, Ids
  <2> QED BY <1>4, <1>7, <2>3, <2>5
<1> QED BY <1>6, <1>7

\* An accepted plan drops what is open, inserts its own where no task was, and
\* carries what has succeeded.
LEMMA AcceptKeepsInv ==
  ASSUME Inv, NEW plan \in Plans, NEW replan \in BOOLEAN, replan \/ root.revision = 0,
         Len(plans) < MaxRevisions, AcceptPlan(plan, replan), UNCHANGED <<delivered, failed>>
  PROVE  Inv'
<1> DEFINE r == Len(plans) + 1
           obsolete == IF replan THEN Dropped(plan) ELSE {}
           fresh(t) == t[1] = r /\ t[2] \in Fresh(plan)
           new(x) == x[1] = r /\ x[2] \in plan.kids
<1>1. /\ plans' \in Seq(PlanRows) /\ Len(plans') = r /\ Len(plans) \in Nat
      /\ plans'[r] = [state |-> "accepted", plan |-> plan]
      /\ \A q \in 1..Len(plans) : plans'[q] = plans[q]
  <2>1. [state |-> "accepted", plan |-> plan] \in PlanRows
    BY DEF PlanRows
  <2> QED BY <2>1, NextPlan DEF AcceptPlan
<1>2. WellFormed(plan) /\ plan.kids \subseteq Keys /\ Fresh(plan) = {k \in plan.kids : Carried(k) = NoRow}
  BY WorkflowAssumption DEF AcceptPlan, Acceptable, PlanForm, Fresh
<1>3. /\ \A x \in Ids : child'[x] = IF ~new(x) THEN child[x]
                                    ELSE IF x[2] \in Fresh(plan) THEN x ELSE Carried(x[2])
      /\ child' = [x \in Ids |-> child'[x]]
  BY DEF AcceptPlan
<1>4. /\ \A t \in Ids : task'[t] =
           IF t \in obsolete THEN Obsolete(t)
           ELSE IF fresh(t) THEN Inserted(Ceiling(plan, Available(replan), t[2])) ELSE task[t]
      /\ task' = [t \in Ids |-> task'[t]]
  BY DEF AcceptPlan
<1>5. /\ \A t \in Ids : attempt'[t] = IF t \in obsolete /\ NotStarted(t) THEN NoAttempt ELSE attempt[t]
      /\ attempt' = [t \in Ids |-> attempt'[t]]
  BY DEF AcceptPlan
<1>6. root' = [state |-> root'.state, revision |-> r, tokens |-> root'.tokens, attempts |-> root'.attempts]
      /\ root'.revision = r /\ root.revision \in 0..Len(plans)
  <2>1. root' = [root EXCEPT !.state = "executing", !.revision = r]
    BY DEF AcceptPlan, Revised
  <2> QED BY <2>1 DEF Inv, Shapes
<1>7. \A t \in obsolete : task[t].status \in {"Pending", "Scheduled"}
  BY DEF Dropped, Open, Created, Inv, Shapes, Shaped, Statuses
<1>8. /\ replan => \A t \in Ids : task[t].status \in {"Pending", "Scheduled"} => t \in obsolete
      /\ ~replan => \A t \in Ids : task[t].status = "Absent"
  <2>1. ASSUME ~replan, NEW t \in Ids PROVE task[t].status = "Absent"
    BY <2>1, TaskIsPlanned DEF Ids
  <2> QED BY <2>1 DEF Dropped, Open, Created, Terminal
<1>9. \A t \in Ids : t[1] = r => task[t].status = "Absent" /\ ~Planned(t)
  BY <1>1, TaskIsPlanned DEF Planned
<1>10. \A t \in Ids : /\ Shaped(Obsolete(t)) /\ Obsolete(t).intent = "obsolete_by_replan"
                      /\ Obsolete(t).placed = task[t].placed
                      /\ Obsolete(t).status = IF NotStarted(t) THEN "Cancelled" ELSE task[t].status
  <2> SUFFICES ASSUME NEW t \in Ids
               PROVE  /\ Shaped(Obsolete(t)) /\ Obsolete(t).intent = "obsolete_by_replan"
                      /\ Obsolete(t).placed = task[t].placed
                      /\ Obsolete(t).status = IF NotStarted(t) THEN "Cancelled" ELSE task[t].status
    OBVIOUS
  <2>1. Shaped(task[t])
    BY DEF Inv, Shapes
  <2> QED BY <2>1 DEF Shaped, Obsolete, Statuses, Intents, Terminal
<1>11. \A c : Shaped(Inserted(c)) /\ Inserted(c).status = "Pending" /\ Inserted(c).placed = 0
  <2> SUFFICES ASSUME NEW c
               PROVE  Shaped(Inserted(c)) /\ Inserted(c).status = "Pending" /\ Inserted(c).placed = 0
    OBVIOUS
  <2> QED BY DEF Inserted, NoTask, Shaped, Statuses, Intents
<1>12. NoAttempt \in Attempts /\ NoAttempt.state = "None"
  BY DEF NoAttempt, Attempts
<1>13. \A x \in Ids : Planned(x)' <=> Planned(x) \/ new(x)
  <2> SUFFICES ASSUME NEW x \in Ids PROVE Planned(x)' <=> Planned(x) \/ new(x)
    OBVIOUS
  <2>1. x[1] \in 1..MaxRevisions
    BY DEF Ids
  <2>2. CASE x[1] \in 1..Len(plans)
    BY <1>1, <2>2 DEF Planned
  <2>3. CASE x[1] = r
    BY <1>1, <2>3 DEF Planned
  <2>4. CASE x[1] > r
    <3>1. ~(x[1] <= Len(plans)) /\ ~(x[1] <= Len(plans')) /\ ~new(x)
      BY <1>1, <2>1, <2>4
    <3> QED BY <3>1 DEF Planned
  <2> QED BY <1>1, <2>1, <2>2, <2>3, <2>4
<1> HIDE DEF r, obsolete, fresh, new
<1>14. \A t \in Ids : /\ task[t].status \in Terminal => task'[t] = task[t]
                      /\ task[t].status # "Absent" => task'[t].status # "Absent"
  <2> SUFFICES ASSUME NEW t \in Ids, task[t].status # "Absent"
               PROVE  /\ task[t].status \in Terminal => task'[t] = task[t]
                      /\ task'[t].status # "Absent"
    BY DEF Terminal
  <2>1. ~fresh(t)
    BY <1>9 DEF fresh
  <2>2. task[t].status \in Terminal => t \notin obsolete
    BY <1>7 DEF Terminal
  <2> QED BY <1>4, <1>10, <2>1, <2>2
<1>15. \A t \in Ids : task'[t].status = "Succeeded" => task[t].status = "Succeeded"
  BY <1>4, <1>7, <1>10, <1>11
<1>16. \A t \in Ids : ~new(t) => task'[t].status = "Absent" \/ task[t].status # "Absent"
  BY <1>2, <1>4, <1>7 DEF fresh, new
<1>17. Shapes'
  <2>1. \A t \in Ids : Shaped(task'[t])
    BY <1>4, <1>10, <1>11 DEF Inv, Shapes
  <2>2. attempt' \in [Ids -> Attempts]
    BY <1>5, <1>12 DEF Inv, Shapes
  <2>3. root'.revision \in 0..Len(plans')
    BY <1>1, <1>6 DEF r
  <2> QED BY <1>1, <1>3, <1>4, <1>6, <2>1, <2>2, <2>3 DEF Shapes, Ids
<1>18. PlansClosed'
  <2> SUFFICES ASSUME NEW q \in 1..Len(plans'), plans'[q].state = "accepted",
                      NEW k \in plans'[q].plan.kids
               PROVE  Needs(plans'[q].plan, k) \subseteq plans'[q].plan.kids
    BY DEF PlansClosed, Needs
  <2>1. CASE q \in 1..Len(plans)
    BY <1>1, <2>1 DEF Inv, PlansClosed
  <2>2. CASE q = r
    BY <1>1, <1>2, <2>2 DEF WellFormed
  <2> QED BY <1>1, <2>1, <2>2 DEF r
<1>19. ASSUME NEW x \in Ids, Planned(x) PROVE child'[x] = child[x] /\ ~new(x)
  BY <1>3, <1>9, <1>19 DEF new
<1>20. ASSUME NEW x \in Ids, new(x) PROVE child'[x] # NoRow /\ RowNames(x)'
  <2>1. x[1] <= root'.revision /\ x[2] \in Keys /\ x[2] \in plan.kids /\ x[1] = r
    BY <1>2, <1>6, <1>20 DEF new, r, Ids
  <2>2. CASE x[2] \in Fresh(plan)
    <3>1. child'[x] = x /\ fresh(x) /\ task[x].status = "Absent"
      BY <1>3, <1>9, <1>20, <2>1, <2>2 DEF fresh
    <3>2. task'[x].status = "Pending"
      BY <1>4, <1>7, <1>11, <3>1
    <3>3. x # NoRow
      <4>1. DOMAIN x # DOMAIN <<>>
        BY DEF Ids
      <4> QED BY <4>1 DEF NoRow
    <3> QED BY <2>1, <3>1, <3>2, <3>3 DEF RowNames, Ids
  <2>3. CASE x[2] \notin Fresh(plan)
    <3>1. child'[x] = Carried(x[2]) /\ Carried(x[2]) # NoRow
      BY <1>2, <1>3, <1>20, <2>1, <2>3
    <3>2. Carried(x[2]) \in Ids /\ Carried(x[2])[2] = x[2] /\ task[Carried(x[2])].status = "Succeeded"
      BY <2>1, <3>1, CarriedIs
    <3>3. task'[Carried(x[2])].status = "Succeeded"
      BY <1>14, <3>2 DEF Terminal
    <3> HIDE DEF Carried
    <3> QED BY <2>1, <3>1, <3>2, <3>3 DEF RowNames, Ids
  <2> QED BY <2>2, <2>3
<1>21. RowsKept'
  <2> SUFFICES ASSUME NEW x \in Ids
               PROVE  (child'[x] # NoRow <=> Planned(x)') /\ (Planned(x)' => RowNames(x)')
    BY DEF RowsKept, Ids
  <2>1. CASE new(x)
    BY <1>13, <1>20, <2>1
  <2>2. CASE ~new(x)
    <3>1. child'[x] = child[x] /\ (Planned(x)' <=> Planned(x))
      BY <1>3, <1>13, <2>2
    <3>2. Planned(x) => RowNames(x)'
      <4>1. SUFFICES ASSUME Planned(x) PROVE RowNames(x)'
        OBVIOUS
      <4>2. RowNames(x)
        BY <4>1 DEF Inv, RowsKept
      <4>3. x[1] <= root'.revision
        BY <1>1, <1>6, <4>2 DEF RowNames, Ids, r
      <4> QED BY <1>14, <3>1, <4>2, <4>3 DEF RowNames, Ids, Terminal
    <3> QED BY <3>1, <3>2 DEF Inv, RowsKept
  <2> QED BY <2>1, <2>2
<1>22. AttemptsScheduled'
  <2> SUFFICES ASSUME NEW t \in Ids, attempt'[t].state # "None" PROVE task'[t].status = "Scheduled"
    BY DEF AttemptsScheduled, Ids
  <2>1. attempt'[t] = attempt[t] /\ ~(t \in obsolete /\ NotStarted(t))
    BY <1>5, <1>12
  <2>2. task[t].status = "Scheduled" /\ ~fresh(t)
    BY <2>1, <1>9 DEF Inv, AttemptsScheduled, fresh
  <2> QED BY <2>1, <2>2, <1>4, <1>10
<1>23. OwnRow'
  <2> SUFFICES ASSUME NEW t \in Ids, task'[t].status # "Absent" PROVE child'[t] = t
    BY DEF OwnRow, Ids
  <2>1. CASE task[t].status # "Absent"
    <3>1. child[t] = t /\ Planned(t)
      BY <2>1, TaskIsPlanned
    <3> QED BY <3>1, <1>19
  <2>2. CASE task[t].status = "Absent"
    <3>1. fresh(t)
      BY <1>4, <1>7, <2>2
    <3> QED BY <1>2, <1>3, <3>1 DEF fresh, new
  <2> QED BY <2>1, <2>2
<1>24. Current'
  <2> SUFFICES ASSUME NEW t \in Ids, task'[t].status \in {"Pending", "Scheduled"}, task'[t].intent = "Run"
               PROVE  t[1] = r
    BY <1>6 DEF Current, Ids
  <2>1. t \notin obsolete
    BY <1>4, <1>10
  <2> QED BY <1>4, <1>8, <2>1 DEF fresh
<1>25. CarriedOn'
  <2> SUFFICES ASSUME NEW t \in Ids, NEW x \in Ids, task'[t].status = "Succeeded",
                      x[2] = t[2], t[1] <= x[1], Planned(x)'
               PROVE  child'[x] = t
    BY DEF CarriedOn, Ids
  <2>1. task[t].status = "Succeeded"
    BY <1>15
  <2>2. CASE Planned(x)
    BY <1>19, <2>1, <2>2 DEF Inv, CarriedOn
  <2>3. CASE new(x)
    <3>1. Carried(x[2]) = t /\ t # NoRow /\ x[2] \in Keys
      BY <2>1, CarriedIs, TaskIsPlanned DEF Ids
    <3> HIDE DEF Carried
    <3> QED BY <1>2, <1>3, <2>3, <3>1
  <2> QED BY <1>13, <2>2, <2>3
<1>26. FailedWithTarget'
  BY <1>14 DEF Inv, FailedWithTarget, Terminal, Ids
<1>27. HandedOver'
  <2> SUFFICES ASSUME NEW t \in Ids, task'[t].status # "Absent", task'[t].placed > 0
               PROVE  \A k \in Required(t)' : Provided(t, k)'
    BY DEF HandedOver, Ids
  <2>1. task[t].status # "Absent" /\ task[t].placed > 0
    <3>1. ~fresh(t)
      BY <1>4, <1>7, <1>9, <1>11 DEF fresh
    <3>2. CASE t \in obsolete
      BY <1>4, <1>7, <1>10, <3>2
    <3> QED BY <1>4, <3>1, <3>2
  <2>2. t[1] \in 1..Len(plans) /\ Planned(t)
    BY <2>1, TaskIsPlanned DEF Ids
  <2>3. Required(t)' = Required(t)
    <3>1. plans'[t[1]] = plans[t[1]]
      BY <1>1, <2>2
    <3> QED BY <3>1 DEF Required, Needs
  <2> SUFFICES ASSUME NEW k \in Required(t) PROVE Provided(t, k)'
    BY <2>3
  <2>4. Provided(t, k)
    BY <2>1 DEF Inv, HandedOver
  <2>5. <<t[1], k>> \in Ids /\ Planned(<<t[1], k>>)
    BY <2>1, SourcesOwn
  <2>6. child'[<<t[1], k>>] = child[<<t[1], k>>]
    BY <1>19, <2>5
  <2>7. child[<<t[1], k>>] \in Ids
    BY <2>5 DEF Inv, RowsKept, RowNames
  <2> QED BY <1>14, <2>4, <2>6, <2>7 DEF Provided, Terminal
<1> QED BY <1>17, <1>18, <1>21, <1>22, <1>23, <1>24, <1>25, <1>26, <1>27 DEF Inv

\* A rejected plan changes no child.
LEMMA RejectKeepsInv ==
  ASSUME Inv, NEW plan \in Plans, NEW replan \in BOOLEAN, RejectPlan(plan, replan),
         UNCHANGED <<delivered, failed>>
  PROVE  Inv'
<1> DEFINE row == [state |-> "rejected", plan |-> plan]
<1>1. /\ Len(plans) \in Nat /\ Len(plans') = Len(plans) + 1 /\ plans' \in Seq(PlanRows)
      /\ plans'[Len(plans) + 1] = row /\ \A r \in 1..Len(plans) : plans'[r] = plans[r]
  <2>1. row \in PlanRows /\ plans' = Append(plans, row)
    BY DEF PlanRows, RejectPlan
  <2> HIDE DEF row
  <2> QED BY <2>1, NextPlan
<1>2. /\ root' = [state |-> root'.state, revision |-> root.revision,
                  tokens |-> root'.tokens, attempts |-> root'.attempts]
      /\ root'.revision = root.revision /\ root.revision \in 0..Len(plans)
  <2>1. root' = root \/ root' = [root EXCEPT !.state = "failed"]
    BY DEF RejectPlan, Rejected
  <2> QED BY <2>1 DEF Inv, Shapes
<1>3. UNCHANGED <<child, task, attempt>>
  BY DEF RejectPlan
<1>4. \A x \in Ids : Planned(x)' <=> Planned(x)
  <2> SUFFICES ASSUME NEW x \in Ids PROVE Planned(x)' <=> Planned(x)
    OBVIOUS
  <2>1. x[1] \in 1..MaxRevisions
    BY DEF Ids
  <2>2. CASE x[1] \in 1..Len(plans)
    BY <1>1, <2>2 DEF Planned
  <2>3. CASE x[1] = Len(plans) + 1
    BY <1>1, <2>3 DEF Planned
  <2>4. CASE x[1] > Len(plans) + 1
    <3>1. ~(x[1] <= Len(plans)) /\ ~(x[1] <= Len(plans'))
      BY <1>1, <2>1, <2>4
    <3> QED BY <3>1 DEF Planned
  <2> QED BY <1>1, <2>1, <2>2, <2>3, <2>4
<1>5. Shapes'
  BY <1>1, <1>2, <1>3 DEF Inv, Shapes, Ids
<1>6. PlansClosed'
  <2> SUFFICES ASSUME NEW q \in 1..Len(plans'), plans'[q].state = "accepted",
                      NEW k \in plans'[q].plan.kids
               PROVE  Needs(plans'[q].plan, k) \subseteq plans'[q].plan.kids
    BY DEF PlansClosed, Needs
  <2>1. CASE q \in 1..Len(plans)
    BY <1>1, <2>1 DEF Inv, PlansClosed
  <2>2. CASE q = Len(plans) + 1
    BY <1>1, <2>2
  <2> QED BY <1>1, <2>1, <2>2
<1>7. RowsKept'
  <2>1. \A x \in Ids : RowNames(x) => RowNames(x)'
    BY <1>2, <1>3 DEF RowNames, Ids
  <2> QED BY <1>3, <1>4, <2>1 DEF Inv, RowsKept, Ids
<1>8. AttemptsScheduled' /\ OwnRow' /\ Current' /\ FailedWithTarget'
  BY <1>2, <1>3 DEF Inv, AttemptsScheduled, OwnRow, Current, FailedWithTarget, Ids
<1>9. CarriedOn'
  BY <1>3, <1>4 DEF Inv, CarriedOn, Ids
<1>10. HandedOver'
  <2> SUFFICES ASSUME NEW t \in Ids, task[t].status # "Absent", task[t].placed > 0
               PROVE  \A k \in Required(t)' : Provided(t, k)'
    BY <1>3 DEF HandedOver, Ids
  <2>1. plans'[t[1]] = plans[t[1]]
    BY <1>1, TaskIsPlanned DEF Ids
  <2>2. Required(t)' = Required(t)
    BY <2>1 DEF Required, Needs
  <2> QED BY <1>3, <2>2 DEF Inv, HandedOver, Provided
<1> QED BY <1>5, <1>6, <1>7, <1>8, <1>9, <1>10 DEF Inv

\* What the loop over the sources of a child records is about sources its plan
\* names; a child whose loop ran to the end has been handed every one of them.
LEMMA HandOver ==
  ASSUME Inv, NEW t \in Ids, task[t].status # "Absent"
  PROVE  /\ delivered \subseteq Handed(t)
         /\ Stopped(t) => \E k \in Required(t) :
              Refused(t) = failed \cup ({<<child[<<t[1], k>>], t>>} \ delivered)
         /\ ~Stopped(t) => \A k \in Required(t) :
              /\ task[child[<<t[1], k>>]].status = "Succeeded"
              /\ <<child[<<t[1], k>>], t>> \in Handed(t)
<1>1. delivered \subseteq Handed(t)
  BY DEF Handed
<1>2. ASSUME Stopped(t)
      PROVE  \E k \in Required(t) : Refused(t) = failed \cup ({<<child[<<t[1], k>>], t>>} \ delivered)
  <2>1. Stop(t) \in DOMAIN Sources(t)
    BY <1>2, SourcesOwn, StopMeets
  <2>2. PICK k \in Required(t) : Blocker(t) = <<t[1], k>>
    BY <2>1, SourcesOwn DEF Blocker
  <2> QED BY <2>2 DEF Refused
<1>3. ASSUME ~Stopped(t), NEW k \in Required(t)
      PROVE  /\ task[child[<<t[1], k>>]].status = "Succeeded"
             /\ <<child[<<t[1], k>>], t>> \in Handed(t)
  <2>1. PICK i \in DOMAIN Sources(t) : Sources(t)[i] = <<t[1], k>>
    BY SourcesOwn
  <2>2. Ready(Sources(t)[i]) /\ i <= Stop(t) - 1 /\ i \in Nat /\ i >= 1
    BY <1>3, <2>1, SourcesOwn, StopMeets
  <2>3. i \in 1..(Stop(t) - 1)
    <3>1. Stop(t) = Len(Sources(t)) + 1 \/ Stopped(t)
      <4>1. Stop(t) <= Len(Sources(t)) \/ Stop(t) = Len(Sources(t)) + 1
        <5> DEFINE blocked == {j \in DOMAIN Sources(t) : ~Ready(Sources(t)[j])}
        <5>1. blocked = {}
          BY <1>3, SourcesOwn, StopMeets
        <5> QED BY <5>1 DEF Stop
      <4> QED BY <4>1 DEF Stopped
    <3> QED BY <1>3, <2>1, <2>2, <3>1, SourcesOwn
  <2> QED BY <2>1, <2>2, <2>3 DEF Ready, Handed
<1> QED BY <1>1, <1>2, <1>3

\* Every step of one child is one of those described.
LEMMA ChildMoves ==
  ASSUME Inv, NEW t \in Created,
         \/ Wait(t) \/ HandoffFails(t) \/ Refuse(t) \/ Admit(t)
         \/ Launch(t) \/ Unlaunched(t) \/ Settle(t)
         \/ Cancel(t) \/ Deadline(t) \/ \E found \in Outputs : Written(t, found)
         \/ \E kind \in {"Succeeded", "transient", "permanent"}, spent \in Spends : End(t, kind, spent)
  PROVE  Inv'
<1>0. /\ t \in Ids /\ task[t].status # "Absent" /\ Shaped(task[t]) /\ attempt[t] \in Attempts
      /\ attempt = [attempt EXCEPT ![t] = attempt[t]] /\ task = [task EXCEPT ![t] = task[t]]
      /\ attempt[t].state # "None" => task[t].status = "Scheduled"
      /\ root = [state |-> root.state, revision |-> root.revision,
                 tokens |-> root.tokens, attempts |-> root.attempts]
      /\ NoAttempt \in Attempts /\ NoAttempt.state = "None"
  BY DEF Inv, Shapes, AttemptsScheduled, Created, NoAttempt, Attempts
<1>1. Moves(t, task[t], attempt[t])
  BY <1>0 DEF Moves, Runs, Shaped, Statuses, Terminal
<1>2. CASE \E found \in Outputs : Written(t, found)
  BY <1>2, QuietStep DEF Written
<1>3. CASE Wait(t)
  <2>1. Admitted(t, task[t]) /\ Failing(t, task[t]) /\ delivered \subseteq delivered'
    BY <1>0, <1>3, HandOver DEF Wait, Admitted, Failing
  <2>2. UNCHANGED <<root, plans, child, task, attempt>>
    BY <1>3 DEF Wait
  <2> QED BY <1>0, <1>1, <2>1, <2>2, ChildStep
<1>4. CASE HandoffFails(t) \/ Refuse(t)
  <2> DEFINE row == [task[t] EXCEPT !.status = "Failed"]
  <2>1. Shaped(row) /\ row.status = "Failed" /\ row.intent = task[t].intent /\ row.placed = task[t].placed
    BY <1>0 DEF Shaped, Statuses, Terminal
  <2>2. task' = [task EXCEPT ![t] = row] /\ UNCHANGED <<root, plans, child, attempt>>
        /\ task[t].status = "Pending" /\ delivered' = Handed(t)
        /\ (failed' = failed \/ (Stopped(t) /\ failed' = Refused(t)))
    BY <1>4 DEF HandoffFails, Refuse, Due
  <2> HIDE DEF row
  <2>3. Moves(t, row, attempt[t])
    BY <1>0, <2>1, <2>2 DEF Moves, Runs, Terminal
  <2>4. Failing(t, row) /\ delivered \subseteq delivered'
    BY <1>0, <2>1, <2>2, HandOver DEF Failing
  <2>5. Admitted(t, row)
    BY <2>1 DEF Admitted
  <2> QED BY <1>0, <2>2, <2>3, <2>4, <2>5, ChildStep
<1>5. CASE Admit(t)
  <2> DEFINE row == [task[t] EXCEPT !.status = "Scheduled", !.placed = @ + 1]
             att == [attempt[t] EXCEPT !.state = "Queued"]
  <2>1. Shaped(row) /\ row.status = "Scheduled" /\ row.intent = task[t].intent
    <3> DEFINE n == task[t].placed + 1
    <3>1. n \in Nat
      BY <1>0 DEF Shaped
    <3> HIDE DEF n
    <3>2. \A old : Shaped(old) =>
            LET new == [old EXCEPT !.status = "Scheduled", !.placed = n]
            IN Shaped(new) /\ new.status = "Scheduled" /\ new.intent = old.intent
      BY <3>1 DEF Shaped, Statuses
    <3> QED BY <1>0, <3>2 DEF n
  <2>2. att \in Attempts
    BY <1>0 DEF Attempts
  <2>3. task' = [task EXCEPT ![t] = row] /\ attempt' = [attempt EXCEPT ![t] = att]
        /\ UNCHANGED <<plans, child, failed>>
        /\ task[t].status = "Pending" /\ delivered' = Handed(t) /\ ~Stopped(t)
    BY <1>0, <1>5 DEF Admit, Due, Inv, Shapes
  <2>4. root' = [state |-> root'.state, revision |-> root.revision,
                 tokens |-> root'.tokens, attempts |-> root'.attempts]
    BY <1>0, <1>5 DEF Admit
  <2> HIDE DEF row, att
  <2>5. Moves(t, row, att)
    BY <1>0, <2>1, <2>2, <2>3 DEF Moves, Runs, Terminal
  <2>6. Admitted(t, row) /\ Failing(t, row) /\ delivered \subseteq delivered'
    BY <1>0, <2>3, HandOver DEF Admitted, Failing
  <2> QED BY <2>3, <2>4, <2>5, <2>6, ChildStep
<1>6. ASSUME NEW row, NEW att, Moves(t, row, att), row.placed = task[t].placed,
             task' = [task EXCEPT ![t] = row], attempt' = [attempt EXCEPT ![t] = att],
             UNCHANGED <<plans, child, delivered, failed>>,
             root' = [state |-> root'.state, revision |-> root.revision,
                      tokens |-> root'.tokens, attempts |-> root'.attempts]
      PROVE  Inv'
  <2>1. Admitted(t, row) /\ Failing(t, row) /\ delivered \subseteq delivered'
    BY <1>6 DEF Admitted, Failing
  <2> QED BY <1>6, <2>1, ChildStep
<1>7. CASE Launch(t)
  <2> DEFINE att == [attempt[t] EXCEPT !.state = "Live"]
  <2>1. att \in Attempts
    BY <1>0 DEF Attempts
  <2>2. task[t].status = "Scheduled"
    BY <1>0, <1>7 DEF Launch
  <2>3. Moves(t, task[t], att)
    BY <1>1, <2>1, <2>2 DEF Moves
  <2>4. attempt' = [attempt EXCEPT ![t] = att] /\ UNCHANGED <<root, plans, child, task, delivered, failed>>
    BY <1>7 DEF Launch
  <2> HIDE DEF att
  <2> QED BY <1>0, <1>6, <2>3, <2>4
<1>8. ASSUME NEW kind \in {"Succeeded", "transient", "permanent"}, NEW spent \in Spends, End(t, kind, spent)
      PROVE  Inv'
  <2> DEFINE att == [state |-> "Ended", kind |-> kind, spent |-> spent]
  <2>1. att \in Attempts
    BY WorkflowAssumption DEF Attempts
  <2>2. task[t].status = "Scheduled"
    BY <1>0, <1>8 DEF End
  <2>3. Moves(t, task[t], att)
    BY <1>1, <2>1, <2>2 DEF Moves
  <2>4. attempt' = [attempt EXCEPT ![t] = att] /\ UNCHANGED <<root, plans, child, task, delivered, failed>>
    BY <1>8 DEF End
  <2> HIDE DEF att
  <2> QED BY <1>0, <1>6, <2>3, <2>4
<1>9. CASE Unlaunched(t)
  <2> DEFINE row == IF task[t].intent = "Run" THEN [task[t] EXCEPT !.status = "Pending"] ELSE Finished(t)
  <2>1. /\ Shaped(row) /\ row.intent = task[t].intent /\ row.placed = task[t].placed
        /\ row.status \in {"Pending", "Failed", "Cancelled"}
    BY <1>0 DEF Shaped, Finished, Statuses, Terminal
  <2>2. /\ task' = [task EXCEPT ![t] = row] /\ attempt' = [attempt EXCEPT ![t] = NoAttempt]
        /\ UNCHANGED <<root, plans, child, delivered, failed>> /\ task[t].status = "Scheduled"
    BY <1>0, <1>9 DEF Unlaunched, Inv, Shapes
  <2> HIDE DEF row
  <2>3. Moves(t, row, NoAttempt)
    BY <1>0, <2>1, <2>2 DEF Moves, Runs, Terminal
  <2> QED BY <1>0, <1>6, <2>1, <2>2, <2>3
<1>10. CASE Settle(t)
  <2> DEFINE row == [Charged(t) EXCEPT !.status = Verdict(t)]
  <2>1. task[t].status = "Scheduled"
    BY <1>0, <1>10 DEF Settle
  <2>2. /\ Verdict(t) \in Statuses \ {"Absent"}
        /\ Verdict(t) = "Succeeded" => task[t].intent = "Run"
    <3>1. Finished(t).status \in {"Failed", "Cancelled"}
      BY <1>0 DEF Finished, Shaped
    <3> QED BY <3>1 DEF Verdict, Statuses, Terminal
  <2>3. /\ Shaped(row) /\ row.status = Verdict(t)
        /\ row.intent = task[t].intent /\ row.placed = task[t].placed
    <3>1. attempt[t].spent \in Nat
      BY <1>0 DEF Attempts
    <3> DEFINE n == task[t].tokens + attempt[t].spent
               m == task[t].executed + 1
    <3>2. n \in Nat /\ m \in Nat
      BY <1>0, <3>1 DEF Shaped
    <3>3. row = [[task[t] EXCEPT !.tokens = n, !.executed = m] EXCEPT !.status = Verdict(t)]
      BY DEF Charged
    <3> HIDE DEF row, n, m
    <3>4. \A old, v : Shaped(old) /\ v \in Statuses =>
            LET new == [[old EXCEPT !.tokens = n, !.executed = m] EXCEPT !.status = v]
            IN Shaped(new) /\ new.status = v /\ new.intent = old.intent /\ new.placed = old.placed
      BY <3>2 DEF Shaped
    <3> QED BY <1>0, <2>2, <3>3, <3>4
  <2>4. /\ task' = [task EXCEPT ![t] = row] /\ attempt' = [attempt EXCEPT ![t] = NoAttempt]
        /\ UNCHANGED <<plans, child, delivered, failed>>
        /\ root' = Recorded(t)
    BY <1>10 DEF Settle, Counted
  <2>5. root' = [state |-> root'.state, revision |-> root.revision,
                 tokens |-> root'.tokens, attempts |-> root'.attempts]
    BY <1>0, <2>4 DEF Recorded
  <2> HIDE DEF row
  <2>6. Moves(t, row, NoAttempt)
    BY <1>0, <2>1, <2>2, <2>3 DEF Moves, Runs, Terminal
  <2> QED BY <1>6, <2>3, <2>4, <2>5, <2>6
<1>11. ASSUME NEW intent \in {"user_cancelled", "deadline_exceeded"}, NEW end \in {"Cancelled", "Failed"},
              t \in Open,
              task' = [task EXCEPT ![t].intent = intent, ![t].status = IF @ = "Pending" THEN end ELSE @],
              UNCHANGED <<root, plans, child, attempt, delivered, failed>>
       PROVE  Inv'
  <2> DEFINE row == [task[t] EXCEPT !.intent = intent, !.status = IF @ = "Pending" THEN end ELSE @]
  <2>1. /\ Shaped(row) /\ row.intent = intent /\ row.placed = task[t].placed
        /\ row.status = IF task[t].status = "Pending" THEN end ELSE task[t].status
    BY <1>0 DEF Shaped, Statuses, Intents, Terminal
  <2>2. task' = [task EXCEPT ![t] = row]
    BY <1>0, <1>11 DEF Inv, Shapes
  <2>3. task[t].status \in {"Pending", "Scheduled"}
    BY <1>0, <1>11 DEF Open, Shaped, Statuses
  <2> HIDE DEF row
  <2>4. Moves(t, row, attempt[t])
    BY <1>0, <2>1, <2>3 DEF Moves, Runs, Terminal
  <2> QED BY <1>0, <1>6, <1>11, <2>1, <2>2, <2>4
<1>12. CASE Cancel(t)
  BY <1>11, <1>12 DEF Cancel
<1>13. CASE Deadline(t)
  BY <1>11, <1>13 DEF Deadline
<1> QED BY <1>2, <1>3, <1>4, <1>5, <1>7, <1>8, <1>9, <1>10, <1>12, <1>13

\* Every step of the workflow keeps the invariant.
LEMMA InvStep == Inv /\ [Next]_vars => Inv'
<1> SUFFICES ASSUME Inv, [Next]_vars PROVE Inv'
  OBVIOUS
<1>1. CASE UNCHANGED vars \/ PlannerFails
  BY <1>1, QuietStep DEF vars, PlannerFails
<1>2. ASSUME NEW plan \in Plans, PlannerSucceeds(plan) PROVE Inv'
  <2>1. CASE root.revision > 0
    BY <1>2, <2>1, QuietStep DEF PlannerSucceeds
  <2>2. CASE ~(root.revision > 0)
    <3>1. root.revision = 0
      BY <2>2 DEF Inv, Shapes
    <3> QED BY <1>2, <2>2, <3>1, AcceptKeepsInv, RejectKeepsInv DEF PlannerSucceeds, SettlePlan
  <2> QED BY <2>1, <2>2
<1>3. ASSUME NEW plan \in Plans, NEW c \in CommandKeys, NEW replan \in BOOLEAN, Command(c, plan, replan)
      PROVE  Inv'
  BY <1>3, AcceptKeepsInv, RejectKeepsInv DEF Command, SettlePlan
<1> QED BY <1>1, <1>2, <1>3, ChildMoves DEF Next

----------------------------------------------------------------------------
\* The properties

\* The invariant holds in every reachable state.
LEMMA InvHolds == Spec => []Inv
BY InvInit, InvStep, PTL DEF Spec

\* A child that was reported cancelled by a replan, or has ended otherwise, has
\* no attempt that is queued, runs or waits for settlement (_settle_plan_locked).
THEOREM EndedStaysStopped == Spec => []EndedIsStopped
<1>1. Inv => EndedIsStopped
  BY DEF Inv, AttemptsScheduled, EndedIsStopped, Created, Open, Terminal
<1> QED BY <1>1, InvHolds, PTL

\* A replan leaves nothing of the plan it replaces that could still be admitted
\* or run to success: such a child is the current revision's (_settle_plan_locked).
THEOREM ReplacedPlanStops == Spec => []OnlyCurrentPlanRuns
<1>1. Inv => OnlyCurrentPlanRuns
  <2> SUFFICES ASSUME Inv, NEW t \in Open, task[t].intent = "Run"
               PROVE  root.revision > 0 /\ child[<<root.revision, t[2]>>] = t
    BY DEF OnlyCurrentPlanRuns
  <2>1. t \in Ids /\ task[t].status \in {"Pending", "Scheduled"}
    BY DEF Open, Created, Inv, Shapes, Shaped, Statuses
  <2>2. t[1] = root.revision /\ t = <<t[1], t[2]>> /\ t[1] >= 1
    BY <2>1 DEF Inv, Current, Ids
  <2>3. child[t] = t
    BY <2>1, TaskIsPlanned
  <2>4. root.revision \in Nat
    BY DEF Inv, Shapes
  <2> QED BY <2>2, <2>3, <2>4
<1> QED BY <1>1, InvHolds, PTL

\* However many revisions plan a key, and whatever of it is carried, replaced or
\* races the replan, at most one task of the key succeeds (_carry_source_locked).
THEOREM SucceedsOnce == Spec => []WorkDoneOnce
<1>1. Inv => WorkDoneOnce
  <2> SUFFICES ASSUME Inv, NEW k \in Keys
               PROVE  Cardinality({t \in Created : t[2] = k /\ task[t].status = "Succeeded"}) <= 1
    BY DEF WorkDoneOnce
  <2> DEFINE done == {t \in Created : t[2] = k /\ task[t].status = "Succeeded"}
  <2>1. \A t, u \in done : t = u
    BY CarriedIs DEF Created
  <2>2. CASE done = {}
    BY <2>2, FS_EmptySet
  <2>3. CASE done # {}
    <3>1. PICK t \in done : TRUE
      BY <2>3
    <3>2. done = {t}
      BY <2>1, <3>1
    <3> HIDE DEF done
    <3>3. Cardinality(done) = 1
      BY <3>2, FS_Singleton
    <3> QED BY <3>3 DEF done
  <2> QED BY <2>2, <2>3
<1> QED BY <1>1, InvHolds, PTL

\* No child is admitted before each source its plan names has succeeded and is
\* recorded as delivered to it; a source lost later, a retry, a replan or another
\* run of the loop never adds a failed transfer to it (_deliver_dependencies_locked).
THEOREM SourcesBeforeChild == Spec => []HandedOverFirst
<1>1. Inv => HandedOverFirst
  <2> SUFFICES ASSUME Inv, NEW t \in Created, task[t].placed > 0, NEW i \in DOMAIN Sources(t)
               PROVE  /\ task[child[Sources(t)[i]]].status = "Succeeded"
                      /\ <<child[Sources(t)[i]], t>> \in delivered \ failed
    BY DEF HandedOverFirst
  <2>1. t \in Ids /\ task[t].status # "Absent"
    BY DEF Created
  <2>2. PICK k \in Required(t) : Sources(t)[i] = <<t[1], k>>
    BY <2>1, SourcesOwn
  <2> QED BY <2>1, <2>2 DEF Inv, HandedOver, Provided
<1> QED BY <1>1, InvHolds, PTL

----------------------------------------------------------------------------
\* The budget

TaskRow == [status : Statuses, intent : Intents, tokens : Nat, ceiling : Nat,
            placed : Nat, executed : Nat]

\* what an open child may still use, and what a child used beyond its ceiling
Reserve(row) == IF row.status \notin Terminal /\ row.ceiling > row.tokens THEN row.ceiling - row.tokens ELSE 0
Excess(row) == IF row.tokens > row.ceiling THEN row.tokens - row.ceiling ELSE 0

Table(T) == \A t \in Ids : T[t] \in TaskRow

\* The account R of the root, and the rows T of its children.
Balanced(R, T) ==
  /\ R.tokens = SumFunctionOnSet([t \in Ids |-> T[t].tokens], Ids)
  /\ R.attempts = SumFunctionOnSet([t \in Ids |-> T[t].placed], Ids)
  /\ R.attempts <= MaxAttempts
  /\ R.tokens + SumFunctionOnSet([t \in Ids |-> Reserve(T[t])], Ids)
       <= MaxTokens + SumFunctionOnSet([t \in Ids |-> Excess(T[t])], Ids)

\* What was never inserted counts for nothing.
Blank == \A t \in Ids : task[t].status = "Absent" => task[t] = NoTask

Funds == Inv /\ TypeOK /\ Blank /\ Balanced(root, task)

LEMMA IdsFinite == IsFiniteSet(Ids)
<1>1. IsFiniteSet(1..MaxRevisions) /\ IsFiniteSet(Keys)
  BY FS_Interval, WorkflowAssumption
<1> QED BY <1>1, FS_Product DEF Ids

\* the greater of zero and a number
LEMMA MaxZero == ASSUME NEW d \in Int PROVE Max({0, d}) = IF d > 0 THEN d ELSE 0
<1>1. CASE d > 0
  BY <1>1, MaxIs
<1>2. CASE ~(d > 0)
  BY <1>2, MaxIs
<1> QED BY <1>1, <1>2

\* What a row contributes to the four sums.
LEMMA RowCounts ==
  ASSUME NEW row \in TaskRow
  PROVE  /\ row.tokens \in Nat /\ row.placed \in Nat /\ row.ceiling \in Nat
         /\ Reserve(row) \in Nat /\ Excess(row) \in Nat
BY DEF TaskRow, Reserve, Excess

\* An attempt that is admitted or charged to an open child, or an open child that
\* ends, keeps the account balanced.
LEMMA ChildBalance ==
  ASSUME NEW R, NEW T, Table(T), Balanced(R, T), NEW t \in Ids, NEW row \in TaskRow,
         NEW s \in Nat, NEW p \in Nat, NEW Q, NEW B,
         \A u \in Ids : B[u] = IF u = t THEN row ELSE T[u],
         row.tokens = T[t].tokens + s, row.placed = T[t].placed + p, row.ceiling = T[t].ceiling,
         T[t].status \notin Terminal,
         Q.tokens = R.tokens + s, Q.attempts = R.attempts + p, Q.attempts <= MaxAttempts
  PROVE  Balanced(Q, B)
<1> DEFINE tokens(A) == [u \in Ids |-> A[u].tokens]
           placed(A) == [u \in Ids |-> A[u].placed]
           reserve(A) == [u \in Ids |-> Reserve(A[u])]
           excess(A) == [u \in Ids |-> Excess(A[u])]
<1>1. IsFiniteSet(Ids)
  BY IdsFinite
<1>2. T[t] \in TaskRow /\ \A u \in Ids : T[u] \in TaskRow /\ B[u] \in TaskRow
  BY DEF Table
<1>3. \A u \in Ids : /\ tokens(T)[u] \in Nat /\ tokens(B)[u] \in Nat /\ placed(T)[u] \in Nat /\ placed(B)[u] \in Nat
                     /\ reserve(T)[u] \in Nat /\ reserve(B)[u] \in Nat /\ excess(T)[u] \in Nat /\ excess(B)[u] \in Nat
  BY <1>2, RowCounts
<1>4. \A u \in Ids \ {t} : /\ tokens(T)[u] = tokens(B)[u] /\ placed(T)[u] = placed(B)[u]
                           /\ reserve(T)[u] = reserve(B)[u] /\ excess(T)[u] = excess(B)[u]
  OBVIOUS
<1>5. /\ tokens(T)[t] = T[t].tokens /\ tokens(B)[t] = row.tokens
      /\ placed(T)[t] = T[t].placed /\ placed(B)[t] = row.placed
      /\ reserve(T)[t] = Reserve(T[t]) /\ reserve(B)[t] = Reserve(row)
      /\ excess(T)[t] = Excess(T[t]) /\ excess(B)[t] = Excess(row)
  OBVIOUS
<1>6. /\ R.tokens = SumFunctionOnSet(tokens(T), Ids)
      /\ R.attempts = SumFunctionOnSet(placed(T), Ids)
      /\ R.tokens + SumFunctionOnSet(reserve(T), Ids) <= MaxTokens + SumFunctionOnSet(excess(T), Ids)
  BY DEF Balanced
<1>7. Reserve(row) + s + Excess(T[t]) <= Reserve(T[t]) + Excess(row)
  BY <1>2 DEF Reserve, Excess, TaskRow
<1> HIDE DEF tokens, placed, reserve, excess
<1>0. ASSUME NEW f, NEW g, \A u \in Ids : f[u] \in Nat /\ g[u] \in Nat, \A u \in Ids \ {t} : f[u] = g[u]
      PROVE  SumFunctionOnSet(f, Ids) + g[t] = SumFunctionOnSet(g, Ids) + f[t]
  BY <1>0, <1>1, SumChange
<1>8. SumFunctionOnSet(tokens(T), Ids) + tokens(B)[t] = SumFunctionOnSet(tokens(B), Ids) + tokens(T)[t]
  BY <1>0, <1>3, <1>4
<1>9. SumFunctionOnSet(placed(T), Ids) + placed(B)[t] = SumFunctionOnSet(placed(B), Ids) + placed(T)[t]
  BY <1>0, <1>3, <1>4
<1>10. SumFunctionOnSet(reserve(T), Ids) + reserve(B)[t] = SumFunctionOnSet(reserve(B), Ids) + reserve(T)[t]
  BY <1>0, <1>3, <1>4
<1>11. SumFunctionOnSet(excess(T), Ids) + excess(B)[t] = SumFunctionOnSet(excess(B), Ids) + excess(T)[t]
  BY <1>0, <1>3, <1>4
<1>12. /\ SumFunctionOnSet(tokens(T), Ids) \in Nat /\ SumFunctionOnSet(tokens(B), Ids) \in Nat
       /\ SumFunctionOnSet(placed(T), Ids) \in Nat /\ SumFunctionOnSet(placed(B), Ids) \in Nat
       /\ SumFunctionOnSet(reserve(T), Ids) \in Nat /\ SumFunctionOnSet(reserve(B), Ids) \in Nat
       /\ SumFunctionOnSet(excess(T), Ids) \in Nat /\ SumFunctionOnSet(excess(B), Ids) \in Nat
  BY <1>1, <1>3, SumRemove
<1>13. /\ row.tokens \in Nat /\ T[t].tokens \in Nat /\ row.placed \in Nat /\ T[t].placed \in Nat
       /\ Reserve(row) \in Nat /\ Reserve(T[t]) \in Nat /\ Excess(row) \in Nat /\ Excess(T[t]) \in Nat
  BY <1>2, RowCounts
<1>14. Q.tokens = SumFunctionOnSet(tokens(B), Ids) /\ Q.attempts = SumFunctionOnSet(placed(B), Ids)
  BY <1>5, <1>6, <1>8, <1>9, <1>12, <1>13
<1>15. Q.tokens + SumFunctionOnSet(reserve(B), Ids) <= MaxTokens + SumFunctionOnSet(excess(B), Ids)
  BY <1>5, <1>6, <1>7, <1>10, <1>11, <1>12, <1>13, WorkflowAssumption
<1> QED BY <1>14, <1>15 DEF Balanced, tokens, placed, reserve, excess

\* What the model writes of an open child's ceiling, by cases.
LEMMA UnspentIs ==
  ASSUME Table(task), NEW t \in Ids
  PROVE  /\ t \in Open => Unspent(t) = Reserve(task[t])
         /\ Overrun(t) = Excess(task[t])
<1>1. task[t].tokens \in Nat /\ task[t].ceiling \in Nat
  BY RowCounts DEF Table
<1>2. Unspent(t) = IF task[t].ceiling - task[t].tokens > 0 THEN task[t].ceiling - task[t].tokens ELSE 0
  BY <1>1, MaxZero DEF Unspent
<1>3. Overrun(t) = IF task[t].tokens - task[t].ceiling > 0 THEN task[t].tokens - task[t].ceiling ELSE 0
  BY <1>1, MaxZero DEF Overrun
<1> QED BY <1>1, <1>2, <1>3 DEF Reserve, Excess, Open

\* The ceilings an acceptable plan gives to its new children are numbers.
LEMMA CeilingsTyped ==
  ASSUME NEW plan \in Plans, NEW available \in Int,
         Implicit(plan) # {} => Share(plan, available) >= 1
  PROVE  /\ IsFiniteSet(Fresh(plan)) /\ Fresh(plan) \subseteq Keys
         /\ \A k \in Fresh(plan) : Ceiling(plan, available, k) \in Nat
<1>1. plan \in PlanForm
  BY WorkflowAssumption
<1>2. Fresh(plan) \subseteq Keys /\ plan.ceiling \in [Keys -> Nat]
  BY <1>1 DEF PlanForm, Fresh
<1>3. /\ IsFiniteSet(Fresh(plan)) /\ Implicit(plan) \subseteq Fresh(plan) /\ Explicit(plan) \subseteq Fresh(plan)
      /\ IsFiniteSet(Implicit(plan)) /\ IsFiniteSet(Explicit(plan))
  BY <1>2, FS_Subset, WorkflowAssumption DEF Implicit, Explicit
<1>4. Asked(plan) \in Nat
  <2>1. \A k \in Explicit(plan) : plan.ceiling[k] \in Nat
    BY <1>2, <1>3
  <2> QED BY <1>3, <2>1, SumRemove DEF Asked
<1>5. ASSUME Implicit(plan) # {} PROVE Share(plan, available) \in Nat
  <2>1. Cardinality(Implicit(plan)) \in Nat /\ Cardinality(Implicit(plan)) > 0
    BY <1>3, <1>5, FS_CardinalityType, FS_EmptySet
  <2>2. Share(plan, available) \in Int
    <3> DEFINE d == available - Asked(plan)
               c == Cardinality(Implicit(plan))
    <3>1. d \in Int /\ c \in Nat /\ c > 0
      BY <1>4, <2>1
    <3> HIDE DEF d, c
    <3>2. d \div c \in Int
      BY <3>1
    <3> QED BY <3>2 DEF d, c, Share
  <2> QED BY <1>5, <2>2
<1> QED BY <1>2, <1>3, <1>5 DEF Ceiling

\* No child is open before the first plan is accepted.
LEMMA NoneBefore ==
  ASSUME Inv, root.revision = 0
  PROVE  \A t \in Ids : task[t].status = "Absent"
BY TaskIsPlanned DEF Ids

\* What a plan may share out.
LEMMA AvailableIs ==
  ASSUME Inv, Table(task), root.tokens \in Nat, NEW replan \in BOOLEAN, replan \/ root.revision = 0
  PROVE  LET live == {t \in Open : ~NotStarted(t)}
             reserve == [t \in Ids |-> Reserve(task[t])]
         IN /\ SumFunctionOnSet(reserve, live) \in Nat
            /\ Available(replan) = MaxTokens - root.tokens - SumFunctionOnSet(reserve, live)
<1> DEFINE live == {t \in Open : ~NotStarted(t)}
           reserve == [t \in Ids |-> Reserve(task[t])]
           unspent == [t \in Open |-> Unspent(t)]
<1>1. live \subseteq Ids /\ live \subseteq Open /\ IsFiniteSet(live)
  BY IdsFinite, FS_Subset DEF Open, Created
<1>2. \A t \in live : reserve[t] \in Nat /\ unspent[t] = reserve[t]
  <2> SUFFICES ASSUME NEW t \in live PROVE reserve[t] \in Nat /\ unspent[t] = reserve[t]
    OBVIOUS
  <2>1. t \in Ids /\ t \in Open
    BY <1>1
  <2>2. Reserve(task[t]) \in Nat /\ Unspent(t) = Reserve(task[t])
    BY <2>1, UnspentIs, RowCounts DEF Table
  <2> QED BY <2>1, <2>2
<1>3. Available(replan) = MaxTokens - root.tokens - (IF replan THEN SumFunctionOnSet(unspent, live) ELSE 0)
  BY DEF Available
<1>4. ~replan => live = {}
  BY NoneBefore DEF Open, Created
<1> HIDE DEF live, reserve, unspent
<1>5. SumFunctionOnSet(reserve, live) \in Nat /\ SumFunctionOnSet(unspent, live) = SumFunctionOnSet(reserve, live)
  BY <1>1, <1>2, SumRemove, SumSame
<1>6. ~replan => SumFunctionOnSet(reserve, live) = 0
  BY <1>4, SumEmpty
<1>7. Available(replan) = MaxTokens - root.tokens - SumFunctionOnSet(reserve, live)
  BY <1>3, <1>5, <1>6
<1> QED BY <1>5, <1>7 DEF live, reserve

\* What an accepted plan makes of the children's rows.
LEMMA PlanRowsNew ==
  ASSUME Inv, Table(task), Blank, root.tokens \in Nat, NEW plan \in Plans, NEW replan \in BOOLEAN, replan \/ root.revision = 0,
         Len(plans) < MaxRevisions, AcceptPlan(plan, replan)
  PROVE  LET r == Len(plans) + 1
             live == {t \in Open : ~NotStarted(t)}
             fresh == {r} \X Fresh(plan)
             ceiling(k) == Ceiling(plan, Available(replan), k)
         IN /\ Table(task') /\ r \in 1..MaxRevisions
            /\ IsFiniteSet(Fresh(plan)) /\ Fresh(plan) \subseteq Keys
            /\ \A k \in Fresh(plan) : ceiling(k) \in Nat
            /\ ~replan => live = {}
            /\ \A t \in Ids : /\ task'[t].tokens = task[t].tokens /\ task'[t].placed = task[t].placed
                              /\ Excess(task'[t]) = Excess(task[t])
            /\ \A t \in live : Reserve(task'[t]) = Reserve(task[t])
            /\ \A t \in Ids \ (live \cup fresh) : Reserve(task'[t]) = 0
            /\ \A k \in Fresh(plan) : <<r, k>> \in Ids \ live /\ Reserve(task'[<<r, k>>]) = ceiling(k)
            /\ \A t \in Ids : /\ task'[t].status = "Absent" => task'[t] = task[t]
                              /\ task[t].status # "Absent" => task'[t].status # "Absent"
<1> DEFINE r == Len(plans) + 1
           live == {t \in Open : ~NotStarted(t)}
           ceiling(k) == Ceiling(plan, Available(replan), k)
           obsolete == IF replan THEN Open ELSE {}
           fresh(t) == t[1] = r /\ t[2] \in Fresh(plan)
<1>1. Len(plans) \in Nat /\ r \in 1..MaxRevisions
  BY WorkflowAssumption DEF Inv, Shapes
<1>2. Available(replan) \in Int /\ (Implicit(plan) # {} => Share(plan, Available(replan)) >= 1)
  <2> DEFINE held == SumFunctionOnSet([t \in Ids |-> Reserve(task[t])], live)
  <2>0. held \in Nat /\ Available(replan) = MaxTokens - root.tokens - held
    BY AvailableIs
  <2> HIDE DEF held
  <2>1. Available(replan) \in Int
    BY <2>0, WorkflowAssumption
  <2> QED BY <2>1 DEF AcceptPlan, Acceptable
<1>3. /\ IsFiniteSet(Fresh(plan)) /\ Fresh(plan) \subseteq Keys
      /\ \A k \in Fresh(plan) : ceiling(k) \in Nat
  BY <1>2, CeilingsTyped
<1>4. ~replan => live = {} /\ obsolete = {}
  BY NoneBefore DEF Open, Created
<1>5. \A t \in Ids : task'[t] =
           IF t \in obsolete THEN Obsolete(t)
           ELSE IF fresh(t) THEN Inserted(ceiling(t[2])) ELSE task[t]
  BY DEF AcceptPlan, Dropped
<1>6. live \subseteq obsolete /\ obsolete \subseteq Open /\ Open \subseteq Ids
      /\ obsolete = Open
  BY <1>4, NoneBefore DEF Open, Created
<1>7. \A t \in Ids : fresh(t) => task[t] = NoTask /\ t \notin Open
  <2> SUFFICES ASSUME NEW t \in Ids, fresh(t) PROVE task[t] = NoTask /\ t \notin Open
    OBVIOUS
  <2>1. ~(t[1] <= Len(plans))
    BY <1>1
  <2>2. task[t].status = "Absent"
    BY <2>1, TaskIsPlanned
  <2> QED BY <2>2 DEF Blank, Open, Created
<1>8. ASSUME NEW t \in Open
      PROVE  /\ task'[t] \in TaskRow /\ task'[t].status # "Absent"
             /\ task'[t].tokens = task[t].tokens /\ task'[t].placed = task[t].placed
             /\ task'[t].ceiling = task[t].ceiling
             /\ task'[t].status = IF NotStarted(t) THEN "Cancelled" ELSE task[t].status
  <2>1. task'[t] = Obsolete(t) /\ task[t] \in TaskRow /\ task[t].status # "Absent"
    BY <1>5, <1>6 DEF Table, Open, Created
  <2> QED BY <2>1 DEF Obsolete, TaskRow, Statuses, Intents, Terminal
<1>9. ASSUME NEW t \in Ids, fresh(t)
      PROVE  /\ task'[t] \in TaskRow /\ task'[t].status = "Pending"
             /\ task'[t].tokens = 0 /\ task'[t].placed = 0 /\ task'[t].ceiling = ceiling(t[2])
             /\ task[t].tokens = 0 /\ task[t].placed = 0 /\ task[t].ceiling = 0
             /\ t[2] \in Fresh(plan) /\ ceiling(t[2]) \in Nat
  <2>1. task[t] = NoTask /\ task'[t] = Inserted(ceiling(t[2])) /\ t[2] \in Fresh(plan)
    BY <1>5, <1>6, <1>7, <1>9
  <2>2. ceiling(t[2]) \in Nat
    BY <1>3, <2>1
  <2> HIDE DEF ceiling
  <2>3. \A c \in Nat : /\ Inserted(c) \in TaskRow /\ Inserted(c).status = "Pending"
                       /\ Inserted(c).tokens = 0 /\ Inserted(c).placed = 0 /\ Inserted(c).ceiling = c
    BY DEF Inserted, NoTask, TaskRow, Statuses, Intents
  <2>4. NoTask.tokens = 0 /\ NoTask.placed = 0 /\ NoTask.ceiling = 0
    BY DEF NoTask
  <2> QED BY <2>1, <2>2, <2>3, <2>4
<1>10. ASSUME NEW t \in Ids, t \notin Open, ~fresh(t) PROVE task'[t] = task[t]
  BY <1>5, <1>6, <1>10
<1>11. ASSUME NEW t \in Ids PROVE task[t] \in TaskRow
  BY DEF Table
<1>12. \A k \in Fresh(plan) : <<r, k>> \in Ids /\ fresh(<<r, k>>) /\ <<r, k>>[2] = k /\ <<r, k>> \in {r} \X Fresh(plan)
  BY <1>1, <1>3 DEF Ids
<1>13. \A t \in Ids : fresh(t) <=> t \in {r} \X Fresh(plan)
  BY <1>3 DEF Ids
<1> HIDE DEF r, ceiling, fresh, obsolete
<1>14. Table(task')
  BY <1>6, <1>8, <1>9, <1>10, <1>11 DEF Table
<1>15. \A t \in Ids : /\ task'[t].tokens = task[t].tokens /\ task'[t].placed = task[t].placed
                      /\ Excess(task'[t]) = Excess(task[t])
  <2> SUFFICES ASSUME NEW t \in Ids
               PROVE  /\ task'[t].tokens = task[t].tokens /\ task'[t].placed = task[t].placed
                      /\ Excess(task'[t]) = Excess(task[t])
    OBVIOUS
  <2>1. CASE t \in Open
    BY <1>8, <2>1 DEF Excess
  <2>2. CASE fresh(t)
    BY <1>9, <2>2 DEF Excess
  <2>3. CASE t \notin Open /\ ~fresh(t)
    BY <1>10, <2>3
  <2> QED BY <2>1, <2>2, <2>3
<1>16. ASSUME NEW t \in live PROVE Reserve(task'[t]) = Reserve(task[t])
  <2>1. t \in Open /\ ~NotStarted(t)
    OBVIOUS
  <2> QED BY <1>8, <2>1 DEF Reserve
<1>17. ASSUME NEW t \in Ids, t \notin live, ~fresh(t) PROVE Reserve(task'[t]) = 0
  <2>1. CASE t \in Open
    <3>1. task'[t].status = "Cancelled"
      BY <1>8, <1>17, <2>1
    <3> QED BY <3>1 DEF Reserve, Terminal
  <2>2. CASE t \notin Open
    <3>1. task'[t] = task[t] /\ (task[t].status \in Terminal \/ task[t] = NoTask)
      BY <1>10, <1>17, <2>2 DEF Open, Created, Blank
    <3> QED BY <3>1 DEF Reserve, NoTask
  <2> QED BY <2>1, <2>2
<1>18. ASSUME NEW k \in Fresh(plan)
       PROVE  <<r, k>> \in Ids \ live /\ Reserve(task'[<<r, k>>]) = ceiling(k)
  <2>1. <<r, k>> \in Ids /\ fresh(<<r, k>>) /\ <<r, k>> \notin Open /\ <<r, k>>[2] = k
    BY <1>7, <1>12, <1>18
  <2> QED BY <1>9, <2>1 DEF Reserve, Terminal
<1>19. \A t \in Ids : /\ task'[t].status = "Absent" => task'[t] = task[t]
                      /\ task[t].status # "Absent" => task'[t].status # "Absent"
  <2> SUFFICES ASSUME NEW t \in Ids
               PROVE  /\ task'[t].status = "Absent" => task'[t] = task[t]
                      /\ task[t].status # "Absent" => task'[t].status # "Absent"
    OBVIOUS
  <2>1. t \in Open \/ fresh(t) => task'[t].status # "Absent"
    BY <1>8, <1>9
  <2> QED BY <1>10, <2>1
<1> HIDE DEF live
<1>20. \A t \in Ids \ (live \cup ({r} \X Fresh(plan))) : Reserve(task'[t]) = 0
  BY <1>13, <1>17
<1> QED BY <1>1, <1>3, <1>4, <1>14, <1>15, <1>16, <1>18, <1>19, <1>20 DEF r, live, ceiling

\* What an accepted plan shares out fits into what is left.
LEMMA PlanFits ==
  ASSUME Inv, Table(task), Blank, root.tokens \in Nat,
         NEW plan \in Plans, NEW replan \in BOOLEAN, replan \/ root.revision = 0,
         Len(plans) < MaxRevisions, AcceptPlan(plan, replan)
  PROVE  LET reserve == [t \in Ids |-> Reserve(task'[t])]
         IN /\ SumFunctionOnSet(reserve, Ids) \in Nat
            /\ root.tokens + SumFunctionOnSet(reserve, Ids) <= MaxTokens
<1> DEFINE r == Len(plans) + 1
           live == {t \in Open : ~NotStarted(t)}
           fresh == {r} \X Fresh(plan)
           ceiling(k) == Ceiling(plan, Available(replan), k)
           share == [k \in Fresh(plan) |-> ceiling(k)]
           was == [t \in Ids |-> Reserve(task[t])]
           reserve == [t \in Ids |-> Reserve(task'[t])]
           sum(f, S) == SumFunctionOnSet(f, S)
<1>1. /\ Table(task')
      /\ IsFiniteSet(Fresh(plan)) /\ \A k \in Fresh(plan) : ceiling(k) \in Nat
      /\ \A t \in live : Reserve(task'[t]) = Reserve(task[t])
      /\ \A t \in Ids \ (live \cup fresh) : Reserve(task'[t]) = 0
      /\ \A k \in Fresh(plan) : <<r, k>> \in Ids \ live /\ Reserve(task'[<<r, k>>]) = ceiling(k)
  BY PlanRowsNew
<1>2. live \subseteq Ids /\ IsFiniteSet(live) /\ IsFiniteSet(Ids)
  BY IdsFinite, FS_Subset DEF Open, Created
<1>3. fresh \subseteq Ids /\ fresh \cap live = {}
  BY <1>1
<1>4. /\ sum(was, live) \in Nat /\ Available(replan) = MaxTokens - root.tokens - sum(was, live)
  BY AvailableIs
<1>5. sum(share, Fresh(plan)) <= Available(replan)
  BY DEF AcceptPlan, Acceptable
<1>7. \A k \in Fresh(plan) : share[k] \in Nat /\ reserve[<<r, k>>] = share[k]
  BY <1>1
<1>8. \A t \in Ids : reserve[t] \in Nat /\ was[t] \in Nat
  BY <1>1, RowCounts DEF Table
<1>9. \A t \in live : reserve[t] = was[t]
  BY <1>1, <1>2
<1>10. \A t \in Ids \ (live \cup fresh) : reserve[t] = 0
  BY <1>1
<1> HIDE DEF live, share, was, reserve, sum, ceiling
<1>12. IsFiniteSet(fresh) /\ sum(reserve, fresh) = sum(share, Fresh(plan))
  <2> DEFINE keys == Fresh(plan)
  <2> HIDE DEF r
  <2>1. IsFiniteSet(keys) /\ \A k \in keys : share[k] \in Nat /\ reserve[<<r, k>>] = share[k]
    BY <1>1, <1>7
  <2>2. Paired(reserve, share, r, keys)
    BY <2>1 DEF Paired
  <2> HIDE DEF keys
  <2>3. IsFiniteSet({r} \X keys) /\ SumFunctionOnSet(reserve, {r} \X keys) = SumFunctionOnSet(share, keys)
    BY <2>1, <2>2, SumPairs
  <2> QED BY <2>3 DEF sum, keys
<1> HIDE DEF fresh
<1>13. sum(reserve, live) = sum(was, live)
  BY <1>2, <1>9, SumSame DEF sum
<1>14. sum(reserve, live \cup fresh) = sum(reserve, live) + sum(reserve, fresh)
  <2>1. \A t \in live \cup fresh : reserve[t] \in Nat
    BY <1>2, <1>3, <1>8
  <2>2. live \cap fresh = {}
    BY <1>3
  <2> QED BY <1>2, <1>12, <2>1, <2>2, SumUnion DEF sum
<1>15. sum(reserve, Ids) = sum(reserve, live \cup fresh)
  <2>1. live \cup fresh \in SUBSET Ids /\ \A t \in live \cup fresh : reserve[t] \in Nat
    BY <1>2, <1>3, <1>8
  <2> QED BY <1>2, <1>10, <2>1, SumZeros DEF sum
<1>16. sum(share, Fresh(plan)) \in Nat /\ sum(reserve, Ids) \in Nat
  BY <1>1, <1>2, <1>7, <1>8, SumRemove DEF sum
<1>17. root.tokens + sum(reserve, Ids) <= MaxTokens
  BY <1>4, <1>5, <1>12, <1>13, <1>14, <1>15, <1>16, WorkflowAssumption
<1> QED BY <1>16, <1>17 DEF sum, reserve

\* An accepted plan shares out no more than is left.
LEMMA PlanBalance ==
  ASSUME Inv, Table(task), Blank, root.tokens \in Nat, Balanced(root, task),
         NEW plan \in Plans, NEW replan \in BOOLEAN, replan \/ root.revision = 0,
         Len(plans) < MaxRevisions, AcceptPlan(plan, replan)
  PROVE  Balanced(root', task')
<1> DEFINE reserve == [t \in Ids |-> Reserve(task'[t])]
           excess == [t \in Ids |-> Excess(task[t])]
<1>1. \A t \in Ids : /\ task'[t].tokens = task[t].tokens /\ task'[t].placed = task[t].placed
                     /\ Excess(task'[t]) = Excess(task[t])
  BY PlanRowsNew
<1>2. root'.tokens = root.tokens /\ root'.attempts = root.attempts
  BY DEF AcceptPlan, Revised, Inv, Shapes
<1>3. /\ [t \in Ids |-> task'[t].tokens] = [t \in Ids |-> task[t].tokens]
      /\ [t \in Ids |-> task'[t].placed] = [t \in Ids |-> task[t].placed]
      /\ [t \in Ids |-> Excess(task'[t])] = excess
  BY <1>1
<1>4. \A t \in Ids : excess[t] \in Nat
  BY RowCounts DEF Table
<1>5. SumFunctionOnSet(reserve, Ids) \in Nat /\ root.tokens + SumFunctionOnSet(reserve, Ids) <= MaxTokens
  BY PlanFits
<1> HIDE DEF reserve, excess
<1>6. SumFunctionOnSet(excess, Ids) \in Nat
  BY <1>4, IdsFinite, SumRemove
<1>7. root.tokens + SumFunctionOnSet(reserve, Ids) <= MaxTokens + SumFunctionOnSet(excess, Ids)
  BY <1>5, <1>6, WorkflowAssumption
<1>8. /\ root.tokens = SumFunctionOnSet([t \in Ids |-> task[t].tokens], Ids)
      /\ root.attempts = SumFunctionOnSet([t \in Ids |-> task[t].placed], Ids)
      /\ root.attempts <= MaxAttempts
  BY DEF Balanced
<1> QED BY <1>2, <1>3, <1>7, <1>8 DEF Balanced, reserve

RootRow == [state : {"planning", "executing", "failed"}, revision : 0..MaxRevisions,
            tokens : Nat, attempts : 0..MaxAttempts]
CommandRow == [replan : BOOLEAN, revision : 0..MaxRevisions]

\* TypeOK, of the values that the variables have
Typed(R, planned, list, C, T, A, D, F, P, M) ==
  /\ R \in RootRow
  /\ planned \in {"Pending", "Succeeded", "Failed"}
  /\ list \in Seq(PlanRows) /\ Len(list) <= MaxRevisions
  /\ C \in [Ids -> Ids \cup {NoRow}]
  /\ T \in [Ids -> TaskRow] /\ A \in [Ids -> Attempts]
  /\ D \subseteq Ids \X Ids /\ F \subseteq Ids \X Ids
  /\ P \in [Ids -> Outputs]
  /\ M \in [CommandKeys -> CommandRow]

LEMMA Typing ==
  /\ TypeOK <=> Typed(root, planner, plans, child, task, attempt, delivered, failed, output, command)
  /\ TypeOK' <=> Typed(root', planner', plans', child', task', attempt', delivered', failed', output', command')
BY DEF TypeOK, Typed, Created, NoRow, Ids, RootRow, PlanRows, TaskRow, Attempts, CommandRow, Statuses, Intents, Terminal

\* The initial state is typed and owes nothing.
LEMMA FundsInit == Init => Funds
<1> SUFFICES ASSUME Init PROVE Funds
  OBVIOUS
<1>1. Inv
  BY InvInit
<1>2. NoTask \in TaskRow /\ NoAttempt \in Attempts /\ NoCommand \in CommandRow
  BY WorkflowAssumption DEF NoTask, NoAttempt, NoCommand, TaskRow, Attempts, CommandRow, Statuses, Intents
<1>3. TypeOK
  <2>1. root \in RootRow
    BY WorkflowAssumption DEF Init, RootRow
  <2>2. Len(plans) <= MaxRevisions
    BY WorkflowAssumption DEF Init
  <2>3. output \in [Ids -> Outputs]
    BY DEF Init, Outputs
  <2> QED BY <1>1, <1>2, <2>1, <2>2, <2>3, Typing DEF Init, Inv, Shapes, Typed
<1>4. Blank
  BY DEF Init, Blank
<1>5. Balanced(root, task)
  <2> DEFINE zero == [t \in Ids |-> 0]
  <2>1. SumFunctionOnSet(zero, Ids) = 0
    <3>1. /\ IsFiniteSet(Ids) /\ {} \in SUBSET Ids
          /\ \A t \in Ids \ {} : zero[t] = 0
      BY IdsFinite
    <3> HIDE DEF zero
    <3>2. SumFunctionOnSet(zero, Ids) = SumFunctionOnSet(zero, {})
      BY <3>1, SumZeros
    <3> QED BY <3>2, SumEmpty
  <2>2. \A t \in Ids : /\ task[t].tokens = 0 /\ task[t].placed = 0
                       /\ Reserve(task[t]) = 0 /\ Excess(task[t]) = 0
    BY DEF Init, NoTask, Reserve, Excess
  <2>3. /\ [t \in Ids |-> task[t].tokens] = zero /\ [t \in Ids |-> task[t].placed] = zero
        /\ [t \in Ids |-> Reserve(task[t])] = zero /\ [t \in Ids |-> Excess(task[t])] = zero
    BY <2>2
  <2>4. root.tokens = 0 /\ root.attempts = 0
    BY DEF Init
  <2> HIDE DEF zero
  <2> QED BY <2>1, <2>3, <2>4, WorkflowAssumption DEF Balanced
<1> QED BY <1>1, <1>3, <1>4, <1>5 DEF Funds

\* A step of an open child that charges s tokens and p attempts to the root.
LEMMA ChildFunds ==
  ASSUME Funds, Inv', NEW t \in Open, NEW row \in TaskRow, row.status # "Absent", NEW s \in Nat, NEW p \in Nat,
         row.tokens = task[t].tokens + s, row.placed = task[t].placed + p, row.ceiling = task[t].ceiling,
         task' = [task EXCEPT ![t] = row], attempt' \in [Ids -> Attempts],
         root' \in RootRow, root'.tokens = root.tokens + s, root'.attempts = root.attempts + p,
         delivered' \subseteq Ids \X Ids, failed' \subseteq Ids \X Ids, output' \in [Ids -> Outputs],
         UNCHANGED <<planner, plans, child, command>>
  PROVE  Funds'
<1>1. /\ t \in Ids /\ task[t].status # "Absent" /\ task[t].status \notin Terminal
      /\ task \in [Ids -> TaskRow]
  BY Typing DEF Open, Created, Funds, Typed
<1>2. /\ \A u \in Ids : task'[u] = IF u = t THEN row ELSE task[u]
      /\ task' \in [Ids -> TaskRow]
  BY <1>1
<1>4. TypeOK'
  <2>1. /\ planner \in {"Pending", "Succeeded", "Failed"}
        /\ plans \in Seq(PlanRows) /\ Len(plans) <= MaxRevisions
        /\ child \in [Ids -> Ids \cup {NoRow}]
        /\ command \in [CommandKeys -> CommandRow]
    BY Typing DEF Funds, Typed
  <2> QED BY <1>2, <2>1, Typing DEF Typed
<1>5. Blank'
  BY <1>2 DEF Funds, Blank, Ids, NoTask
<1>6. Balanced(root', task')
  <2>1. Table(task) /\ Balanced(root, task) /\ root'.attempts <= MaxAttempts
    BY <1>1, WorkflowAssumption DEF Table, Funds, RootRow
  <2>2. /\ \A u \in Ids : task'[u] = IF u = t THEN row ELSE task[u]
        /\ t \in Ids /\ task[t].status \notin Terminal
    BY <1>1, <1>2
  <2>3. ASSUME NEW Q, NEW B, \A u \in Ids : B[u] = IF u = t THEN row ELSE task[u],
               Q.tokens = root.tokens + s, Q.attempts = root.attempts + p, Q.attempts <= MaxAttempts
        PROVE  Balanced(Q, B)
    BY <2>1, <2>2, <2>3, ChildBalance
  <2> QED BY <2>1, <2>2, <2>3
<1> QED BY <1>4, <1>5, <1>6 DEF Funds

\* A step that leaves root, rows and attempts alone keeps the account.
LEMMA SameFunds ==
  ASSUME Funds, Inv', UNCHANGED <<root, task, child>>, plans' \in Seq(PlanRows), Len(plans') <= MaxRevisions,
         planner' \in {"Pending", "Succeeded", "Failed"}, attempt' \in [Ids -> Attempts],
         delivered' \subseteq Ids \X Ids, failed' \subseteq Ids \X Ids, output' \in [Ids -> Outputs],
         command' \in [CommandKeys -> CommandRow]
  PROVE  Funds'
<1>1. TypeOK'
  <2>1. /\ root \in RootRow /\ child \in [Ids -> Ids \cup {NoRow}]
        /\ task \in [Ids -> TaskRow]
    BY Typing DEF Funds, Typed
  <2> QED BY <2>1, Typing DEF Typed
<1> QED BY <1>1 DEF Funds, Blank, Ids, NoTask

\* What the loop over the sources records is about children.
LEMMA HandedTyped ==
  ASSUME Funds, NEW t \in Created
  PROVE  /\ Handed(t) \subseteq Ids \X Ids
         /\ Stopped(t) => Refused(t) \subseteq Ids \X Ids
<1>1. /\ t \in Ids /\ task[t].status # "Absent" /\ Inv
      /\ delivered \subseteq Ids \X Ids /\ failed \subseteq Ids \X Ids
  BY Typing DEF Funds, Typed, Created
<1>2. ASSUME NEW i \in DOMAIN Sources(t) PROVE child[Sources(t)[i]] \in Ids
  <2>1. PICK k \in Required(t) : Sources(t)[i] = <<t[1], k>> /\ <<t[1], k>> \in Ids /\ Planned(<<t[1], k>>)
    BY <1>1, SourcesOwn
  <2> QED BY <1>1, <2>1 DEF Inv, RowsKept, RowNames
<1>3. \A i \in 1..(Stop(t) - 1) : i \in DOMAIN Sources(t)
  <2>1. Len(Sources(t)) \in Nat /\ DOMAIN Sources(t) = 1..Len(Sources(t))
    BY <1>1, SourcesOwn
  <2>2. Stop(t) \in Int /\ Stop(t) <= Len(Sources(t)) + 1
    <3>1. CASE Stopped(t)
      BY <1>1, <2>1, <3>1, StopMeets DEF Stopped
    <3>2. CASE ~Stopped(t)
      <4> DEFINE blocked == {i \in DOMAIN Sources(t) : ~Ready(Sources(t)[i])}
      <4>1. blocked = {}
        BY <1>1, <2>1, <3>2, StopMeets
      <4>2. Stop(t) = Len(Sources(t)) + 1
        BY <4>1 DEF Stop
      <4> QED BY <2>1, <4>2
    <3> QED BY <3>1, <3>2
  <2> QED BY <2>1, <2>2
<1>4. Stopped(t) => child[Blocker(t)] \in Ids
  <2>1. Stopped(t) => Stop(t) \in DOMAIN Sources(t)
    BY <1>1, SourcesOwn, StopMeets
  <2> QED BY <1>2, <2>1 DEF Blocker
<1> QED BY <1>1, <1>2, <1>3, <1>4 DEF Handed, Refused

\* Every step of a child keeps the account.
LEMMA ChildSteps ==
  ASSUME Funds, Inv', NEW t \in Created,
         \/ Wait(t) \/ HandoffFails(t) \/ Refuse(t) \/ Admit(t)
         \/ Launch(t) \/ Unlaunched(t) \/ Settle(t)
         \/ Cancel(t) \/ Deadline(t) \/ \E found \in Outputs : Written(t, found)
         \/ \E kind \in {"Succeeded", "transient", "permanent"}, spent \in Spends : End(t, kind, spent)
  PROVE  Funds'
<1>1. /\ t \in Ids /\ task[t] \in TaskRow /\ task[t].status # "Absent" /\ attempt[t] \in Attempts /\ Inv
      /\ root \in RootRow /\ attempt \in [Ids -> Attempts] /\ task \in [Ids -> TaskRow]
      /\ plans \in Seq(PlanRows) /\ Len(plans) <= MaxRevisions /\ planner \in {"Pending", "Succeeded", "Failed"}
      /\ delivered \subseteq Ids \X Ids /\ failed \subseteq Ids \X Ids
      /\ command \in [CommandKeys -> CommandRow] /\ output \in [Ids -> Outputs]
  BY Typing DEF Funds, Typed, Created
<1>2. /\ Handed(t) \subseteq Ids \X Ids
      /\ Stopped(t) => Refused(t) \subseteq Ids \X Ids
  BY HandedTyped
<1>3. /\ attempt[t].state # "None" => task[t].status = "Scheduled"
      /\ task[t].status \in {"Pending", "Scheduled"} => t \in Open
  BY <1>1 DEF Inv, AttemptsScheduled, Open, Terminal
<1>4. root.tokens \in Nat /\ root.attempts \in 0..MaxAttempts /\ root.tokens = root.tokens + 0
      /\ root.attempts = root.attempts + 0
      /\ task[t].tokens = task[t].tokens + 0 /\ task[t].placed = task[t].placed + 0
  BY <1>1, RowCounts DEF RootRow
<1>5. NoAttempt \in Attempts
  BY DEF NoAttempt, Attempts
<1>6. CASE Wait(t)
  BY <1>1, <1>2, <1>6, SameFunds DEF Wait
<1>17. ASSUME NEW found \in Outputs, Written(t, found) PROVE Funds'
  BY <1>1, <1>17, SameFunds DEF Written
<1>7. CASE Launch(t)
  <2>1. attempt' \in [Ids -> Attempts]
    <3>1. [attempt[t] EXCEPT !.state = "Live"] \in Attempts
      BY <1>1 DEF Attempts
    <3> QED BY <1>1, <1>7, <3>1 DEF Launch
  <2> QED BY <1>1, <1>7, <2>1, SameFunds DEF Launch
<1>8. ASSUME NEW kind \in {"Succeeded", "transient", "permanent"}, NEW spent \in Spends, End(t, kind, spent)
      PROVE  Funds'
  <2>1. attempt' \in [Ids -> Attempts]
    <3>1. [state |-> "Ended", kind |-> kind, spent |-> spent] \in Attempts
      BY WorkflowAssumption DEF Attempts
    <3> QED BY <1>1, <1>8, <3>1 DEF End
  <2> QED BY <1>1, <1>8, <2>1, SameFunds DEF End
\* a step that charges nothing
<1>9. ASSUME t \in Open, NEW row \in TaskRow, row.status # "Absent", row.tokens = task[t].tokens,
             row.placed = task[t].placed, row.ceiling = task[t].ceiling,
             task' = [task EXCEPT ![t] = row], attempt' \in [Ids -> Attempts], root' = root,
             delivered' \subseteq Ids \X Ids, failed' \subseteq Ids \X Ids, output' = output,
             UNCHANGED <<planner, plans, child, command>>
      PROVE  Funds'
  BY <1>1, <1>4, <1>9, ChildFunds
<1>10. CASE HandoffFails(t) \/ Refuse(t)
  <2> DEFINE row == [task[t] EXCEPT !.status = "Failed"]
  <2>1. /\ row \in TaskRow /\ row.status # "Absent" /\ row.tokens = task[t].tokens
        /\ row.placed = task[t].placed /\ row.ceiling = task[t].ceiling
    BY <1>1 DEF TaskRow, Statuses, Terminal
  <2>2. task' = [task EXCEPT ![t] = row] /\ UNCHANGED <<planner, plans, child, command, root, attempt, output>>
        /\ delivered' \subseteq Ids \X Ids /\ failed' \subseteq Ids \X Ids /\ t \in Open
    BY <1>1, <1>2, <1>3, <1>10 DEF HandoffFails, Refuse, Due
  <2> HIDE DEF row
  <2> QED BY <1>1, <1>9, <2>1, <2>2
<1>11. CASE Unlaunched(t)
  <2> DEFINE row == IF task[t].intent = "Run" THEN [task[t] EXCEPT !.status = "Pending"] ELSE Finished(t)
  <2>1. /\ row \in TaskRow /\ row.status # "Absent" /\ row.tokens = task[t].tokens
        /\ row.placed = task[t].placed /\ row.ceiling = task[t].ceiling
    BY <1>1 DEF TaskRow, Statuses, Terminal, Finished
  <2>2. task' = [task EXCEPT ![t] = row] /\ UNCHANGED <<planner, plans, child, command, root, delivered, failed, output>>
        /\ attempt' \in [Ids -> Attempts] /\ t \in Open
    BY <1>1, <1>3, <1>5, <1>11 DEF Unlaunched
  <2> HIDE DEF row
  <2> QED BY <1>1, <1>9, <2>1, <2>2
<1>12. ASSUME NEW intent \in {"user_cancelled", "deadline_exceeded"}, NEW end \in {"Cancelled", "Failed"},
              t \in Open,
              task' = [task EXCEPT ![t].intent = intent, ![t].status = IF @ = "Pending" THEN end ELSE @],
              UNCHANGED <<root, planner, plans, child, attempt, delivered, failed, output, command>>
       PROVE  Funds'
  <2> DEFINE row == [task[t] EXCEPT !.intent = intent, !.status = IF @ = "Pending" THEN end ELSE @]
  <2>1. /\ row \in TaskRow /\ row.status # "Absent" /\ row.tokens = task[t].tokens
        /\ row.placed = task[t].placed /\ row.ceiling = task[t].ceiling
    BY <1>1 DEF TaskRow, Statuses, Terminal, Intents
  <2>2. task' = [task EXCEPT ![t] = row]
    BY <1>1, <1>12
  <2> HIDE DEF row
  <2> QED BY <1>1, <1>9, <1>12, <2>1, <2>2
<1>13. CASE Cancel(t)
  BY <1>12, <1>13 DEF Cancel
<1>14. CASE Deadline(t)
  BY <1>12, <1>14 DEF Deadline
<1>15. CASE Admit(t)
  <2> DEFINE row == [task[t] EXCEPT !.status = "Scheduled", !.placed = @ + 1]
             n == task[t].placed + 1
  <2>1. /\ row \in TaskRow /\ row.status # "Absent" /\ row.tokens = task[t].tokens + 0
        /\ row.placed = task[t].placed + 1 /\ row.ceiling = task[t].ceiling
    <3>1. n \in Nat
      BY <1>1, RowCounts
    <3>2. row = [task[t] EXCEPT !.status = "Scheduled", !.placed = n]
      OBVIOUS
    <3> HIDE DEF n
    <3> QED BY <1>1, <1>4, <3>1, <3>2 DEF TaskRow, Statuses, n
  <2>2. /\ task' = [task EXCEPT ![t] = row] /\ UNCHANGED <<planner, plans, child, command, failed, output>>
        /\ delivered' \subseteq Ids \X Ids /\ t \in Open
    BY <1>1, <1>2, <1>3, <1>15 DEF Admit, Due
  <2>3. attempt' \in [Ids -> Attempts]
    <3>1. [attempt[t] EXCEPT !.state = "Queued"] \in Attempts
      BY <1>1 DEF Attempts
    <3> QED BY <1>1, <1>15, <3>1 DEF Admit
  <2>4. root' = [root EXCEPT !.attempts = @ + 1] /\ root.attempts < MaxAttempts
    BY <1>1, <1>4, <1>15, WorkflowAssumption DEF Admit, Exhausted
  <2>5. root' \in RootRow /\ root'.tokens = root.tokens + 0 /\ root'.attempts = root.attempts + 1
    <3> DEFINE m == root.attempts + 1
    <3>1. m \in 0..MaxAttempts
      BY <1>4, <2>4, WorkflowAssumption
    <3>2. root' = [root EXCEPT !.attempts = m]
      BY <2>4
    <3> HIDE DEF m
    <3> QED BY <1>1, <1>4, <3>1, <3>2 DEF RootRow, m
  <2> HIDE DEF row
  <2> QED BY <1>1, <2>1, <2>2, <2>3, <2>5, ChildFunds
<1>16. CASE Settle(t)
  <2> DEFINE s == attempt[t].spent
             row == [Charged(t) EXCEPT !.status = Verdict(t)]
             n == task[t].tokens + s
             m == task[t].executed + 1
  <2>1. s \in Nat /\ n \in Nat /\ m \in Nat /\ task[t].status = "Scheduled"
    BY <1>1, <1>3, <1>16 DEF Settle, Attempts, TaskRow
  <2>2. Verdict(t) \in Statuses /\ Verdict(t) # "Absent"
    <3>1. Finished(t).status \in {"Failed", "Cancelled"}
      BY <1>1 DEF Finished, TaskRow
    <3> QED BY <3>1 DEF Verdict, Statuses, Terminal
  <2>3. /\ row \in TaskRow /\ row.status # "Absent" /\ row.tokens = task[t].tokens + s
        /\ row.placed = task[t].placed + 0 /\ row.ceiling = task[t].ceiling
    <3>1. row = [[task[t] EXCEPT !.tokens = n, !.executed = m] EXCEPT !.status = Verdict(t)]
      BY DEF Charged
    <3> DEFINE v == Verdict(t)
    <3>2. v \in Statuses /\ v # "Absent" /\ row = [[task[t] EXCEPT !.tokens = n, !.executed = m] EXCEPT !.status = v]
      BY <2>2, <3>1
    <3> HIDE DEF v, row, n, m, s
    <3>3. row \in TaskRow /\ row.status = v /\ row.tokens = n /\ row.placed = task[t].placed
          /\ row.ceiling = task[t].ceiling
      BY <1>1, <2>1, <3>2 DEF TaskRow
    <3> QED BY <1>4, <3>2, <3>3 DEF n
  <2>4. /\ task' = [task EXCEPT ![t] = row] /\ UNCHANGED <<planner, plans, child, command, delivered, failed>>
        /\ attempt' \in [Ids -> Attempts] /\ t \in Open /\ root' = Recorded(t)
    BY <1>1, <1>3, <1>5, <1>16, <2>1 DEF Settle, Counted
  <2>6. output' \in [Ids -> Outputs]
    BY <1>1, <1>16 DEF Settle, Outputs
  <2>5. root' \in RootRow /\ root'.tokens = root.tokens + s /\ root'.attempts = root.attempts + 0
    <3> DEFINE k == root.tokens + s
               state == IF k > MaxTokens THEN "failed" ELSE root.state
    <3>1. k \in Nat /\ state \in {"planning", "executing", "failed"}
      BY <1>1, <1>4, <2>1 DEF RootRow
    <3>2. root' = [root EXCEPT !.tokens = k, !.state = state]
      BY <2>4 DEF Recorded
    <3> HIDE DEF k, state
    <3> QED BY <1>1, <1>4, <3>1, <3>2 DEF RootRow, k
  <2> HIDE DEF row, s
  <2> QED BY <1>1, <2>1, <2>3, <2>4, <2>5, <2>6, ChildFunds
<1> QED BY <1>6, <1>7, <1>8, <1>10, <1>11, <1>13, <1>14, <1>15, <1>16, <1>17

\* Every settlement of a plan keeps the account.
LEMMA PlanSteps ==
  ASSUME Funds, Inv', NEW plan \in Plans, NEW replan \in BOOLEAN, replan \/ root.revision = 0,
         SettlePlan(plan, replan), UNCHANGED <<delivered, failed, output>>,
         planner' \in {"Pending", "Succeeded", "Failed"}, command' \in [CommandKeys -> CommandRow]
  PROVE  Funds'
<1>1. /\ Inv /\ Blank /\ root \in RootRow /\ Balanced(root, task) /\ Table(task)
      /\ child \in [Ids -> Ids \cup {NoRow}] /\ task \in [Ids -> TaskRow] /\ attempt \in [Ids -> Attempts]
      /\ plans \in Seq(PlanRows) /\ Len(plans) < MaxRevisions
      /\ delivered \subseteq Ids \X Ids /\ failed \subseteq Ids \X Ids /\ output \in [Ids -> Outputs]
  BY Typing DEF Funds, Typed, Table, SettlePlan, Created
<1>2. /\ root.tokens \in Nat /\ Len(plans) \in Nat
  BY <1>1 DEF RootRow
<1>3. CASE RejectPlan(plan, replan)
  <2>1. UNCHANGED <<child, task, attempt>> /\ plans' = Append(plans, [state |-> "rejected", plan |-> plan])
        /\ root' = Rejected
    BY <1>3 DEF RejectPlan
  <2>2. /\ root' \in RootRow /\ root'.tokens = root.tokens /\ root'.attempts = root.attempts
    BY <1>1, <2>1 DEF Rejected, RootRow
  <2>3. plans' \in Seq(PlanRows) /\ Len(plans') <= MaxRevisions
    <3>1. [state |-> "rejected", plan |-> plan] \in PlanRows
      BY DEF PlanRows
    <3>2. Len(plans') = Len(plans) + 1 /\ plans' \in Seq(PlanRows)
      BY <1>1, <2>1, <3>1, NextPlan
    <3> QED BY <1>1, <1>2, <3>2, WorkflowAssumption
  <2>4. TypeOK'
    BY <1>1, <2>1, <2>2, <2>3, Typing DEF Typed, Created
  <2>5. Balanced(root', task')
    BY <1>1, <2>1, <2>2 DEF Balanced
  <2>6. Blank'
    BY <1>1, <2>1 DEF Blank, Ids, NoTask
  <2> QED BY <2>4, <2>5, <2>6 DEF Funds
<1>4. CASE AcceptPlan(plan, replan)
  <2>1. Balanced(root', task')
    BY <1>1, <1>2, <1>4, PlanBalance
  <2>2. /\ Table(task')
        /\ \A t \in Ids : /\ task'[t].status = "Absent" => task'[t] = task[t]
                          /\ task[t].status # "Absent" => task'[t].status # "Absent"
    BY <1>1, <1>2, <1>4, PlanRowsNew
  <2>3. /\ task' = [t \in Ids |-> task'[t]]
        /\ \A t \in Ids : attempt'[t] \in {NoAttempt, attempt[t]}
        /\ attempt' = [t \in Ids |-> attempt'[t]]
        /\ plans' = Append(plans, [state |-> "accepted", plan |-> plan])
        /\ root' = [root EXCEPT !.state = "executing", !.revision = Len(plans) + 1]
    BY <1>4 DEF AcceptPlan, Revised
  <2>4. task' \in [Ids -> TaskRow]
    BY <2>2, <2>3 DEF Table
  <2>5. NoAttempt \in Attempts
    BY DEF NoAttempt, Attempts
  <2>6. attempt' \in [Ids -> Attempts]
    BY <1>1, <2>3, <2>5
  <2>7. child' \in [Ids -> Ids \cup {NoRow}]
    <3>1. child' = [x \in Ids |-> child'[x]]
      BY <1>4 DEF AcceptPlan
    <3>2. \A x \in Ids : child'[x] \in Ids \cup {NoRow}
      <4>1. \A x \in Ids : child'[x] = NoRow \/ RowNames(x)'
        BY DEF Inv, RowsKept, Ids, NoRow
      <4>2. \A x \in Ids : RowNames(x)' => child'[x] \in Ids
        BY DEF RowNames, Ids
      <4> QED BY <4>1, <4>2
    <3> QED BY <3>1, <3>2
  <2>8. plans' \in Seq(PlanRows) /\ Len(plans') <= MaxRevisions
    <3>1. [state |-> "accepted", plan |-> plan] \in PlanRows
      BY DEF PlanRows
    <3>2. Len(plans') = Len(plans) + 1 /\ plans' \in Seq(PlanRows)
      BY <1>1, <2>3, <3>1, NextPlan
    <3> QED BY <1>1, <1>2, <3>2, WorkflowAssumption
  <2>9. root' \in RootRow
    <3>1. Len(plans) + 1 \in 0..MaxRevisions
      BY <1>1, <1>2, WorkflowAssumption
    <3> QED BY <1>1, <2>3, <3>1 DEF RootRow
  <2>10. TypeOK'
    BY <1>1, <2>4, <2>6, <2>7, <2>8, <2>9, Typing DEF Typed
  <2>11. Blank'
    <3>1. \A t \in Ids : task'[t].status = "Absent" => task'[t] = NoTask
      BY <1>1, <2>2 DEF Blank
    <3> QED BY <3>1 DEF Blank, Ids, NoTask
  <2> QED BY <2>1, <2>10, <2>11 DEF Funds
<1> QED BY <1>3, <1>4 DEF SettlePlan

\* Every step of the workflow keeps the account.
LEMMA FundsStep == Funds /\ [Next]_vars => Funds'
<1> SUFFICES ASSUME Funds, [Next]_vars PROVE Funds'
  OBVIOUS
<1>1. Inv' /\ Inv
  BY InvStep DEF Funds
<1>2. /\ planner \in {"Pending", "Succeeded", "Failed"} /\ plans \in Seq(PlanRows) /\ Len(plans) <= MaxRevisions
      /\ attempt \in [Ids -> Attempts] /\ delivered \subseteq Ids \X Ids /\ failed \subseteq Ids \X Ids
      /\ command \in [CommandKeys -> CommandRow] /\ output \in [Ids -> Outputs]
  BY Typing DEF Funds, Typed
<1>3. CASE UNCHANGED vars
  BY <1>1, <1>2, <1>3, SameFunds DEF vars
<1>4. CASE PlannerFails
  BY <1>1, <1>2, <1>4, SameFunds DEF PlannerFails
<1>5. ASSUME NEW plan \in Plans, PlannerSucceeds(plan) PROVE Funds'
  <2>1. CASE root.revision > 0
    BY <1>1, <1>2, <1>5, <2>1, SameFunds DEF PlannerSucceeds
  <2>2. CASE ~(root.revision > 0)
    <3>1. root.revision = 0
      BY <1>1, <2>2 DEF Inv, Shapes
    <3> QED BY <1>1, <1>2, <1>5, <2>2, <3>1, PlanSteps DEF PlannerSucceeds
  <2> QED BY <2>1, <2>2
<1>6. ASSUME NEW plan \in Plans, NEW c \in CommandKeys, NEW replan \in BOOLEAN, Command(c, plan, replan)
      PROVE  Funds'
  <2>1. /\ replan \/ root.revision = 0
        /\ SettlePlan(plan, replan) /\ UNCHANGED <<planner, delivered, failed, output>>
        /\ command' = [command EXCEPT ![c] = [replan |-> replan, revision |-> Len(plans')]]
    BY <1>6 DEF Command
  <2>2. Len(plans') \in 0..MaxRevisions
    <3>1. \E s \in {"accepted", "rejected"} : plans' = Append(plans, [state |-> s, plan |-> plan])
      BY <2>1 DEF SettlePlan, AcceptPlan, RejectPlan
    <3>2. Len(plans') = Len(plans) + 1 /\ Len(plans) \in Nat /\ Len(plans) < MaxRevisions
      BY <1>2, <2>1, <3>1 DEF SettlePlan
    <3> QED BY <3>2, WorkflowAssumption
  <2>3. command' \in [CommandKeys -> CommandRow]
    <3>1. [replan |-> replan, revision |-> Len(plans')] \in CommandRow
      BY <2>2 DEF CommandRow
    <3> QED BY <1>2, <2>1, <3>1
  <2> QED BY <1>1, <1>2, <2>1, <2>3, PlanSteps
<1> QED BY <1>1, <1>3, <1>4, <1>5, <1>6, ChildSteps DEF Next

\* What the children used adds up to what the root recorded, and what it has left
\* covers what the open ones may still use, whatever was retried, carried over,
\* replanned or dropped: only attempts that overran their child's ceiling, which
\* nothing stops, are missing from it (_settle_plan_locked, record_usage_locked).
THEOREM BudgetKept == Spec => []BudgetNotOversold
<1>1. Funds => BudgetNotOversold
  <2> SUFFICES ASSUME Funds PROVE BudgetNotOversold
    OBVIOUS
  <2>1. TypeOK /\ Table(task) /\ Blank /\ Balanced(root, task)
    BY Typing DEF Funds, Typed, Table
  <2>2. Created \in SUBSET Ids /\ Open \in SUBSET Ids /\ Open \subseteq Created /\ IsFiniteSet(Ids)
        /\ IsFiniteSet(Created) /\ IsFiniteSet(Open)
    BY IdsFinite, FS_Subset DEF Created, Open
  <2>3. ASSUME NEW f, NEW g, NEW S \in SUBSET Ids, \A t \in S : f[t] \in Nat /\ g[t] = f[t], \A t \in Ids \ S : f[t] = 0
        PROVE  SumFunctionOnSet(f, Ids) = SumFunctionOnSet(g, S)
    <3>1. IsFiniteSet(S)
      BY <2>2, FS_Subset
    <3>2. SumFunctionOnSet(f, Ids) = SumFunctionOnSet(f, S)
      BY <2>2, <2>3, SumZeros
    <3>3. SumFunctionOnSet(f, S) = SumFunctionOnSet(g, S)
      BY <2>3, <3>1, SumSame
    <3> QED BY <3>2, <3>3
  <2>4. ASSUME NEW t \in Ids
        PROVE  /\ task[t].tokens \in Nat /\ task[t].placed \in Nat
               /\ Reserve(task[t]) \in Nat /\ Excess(task[t]) \in Nat
               /\ t \in Open => Unspent(t) = Reserve(task[t])
               /\ Overrun(t) = Excess(task[t])
    BY <2>1, RowCounts, UnspentIs DEF Table
  <2>5. ASSUME NEW t \in Ids, t \notin Created
        PROVE  task[t].tokens = 0 /\ task[t].placed = 0 /\ Reserve(task[t]) = 0 /\ Excess(task[t]) = 0
    BY <2>1, <2>5 DEF Blank, Created, NoTask, Reserve, Excess
  <2>6. ASSUME NEW t \in Ids, t \notin Open PROVE Reserve(task[t]) = 0
    BY <2>5, <2>6 DEF Open, Reserve
  <2> DEFINE used == [t \in Ids |-> task[t].tokens]
             placed == [t \in Ids |-> task[t].placed]
             reserve == [t \in Ids |-> Reserve(task[t])]
             excess == [t \in Ids |-> Excess(task[t])]
             used1 == [t \in Created |-> task[t].tokens]
             placed1 == [t \in Created |-> task[t].placed]
             reserve1 == [t \in Open |-> Unspent(t)]
             excess1 == [t \in Created |-> Overrun(t)]
  <2>7. /\ \A t \in Created : /\ used[t] \in Nat /\ used1[t] = used[t]
                              /\ placed[t] \in Nat /\ placed1[t] = placed[t]
                              /\ excess[t] \in Nat /\ excess1[t] = excess[t]
        /\ \A t \in Ids \ Created : used[t] = 0 /\ placed[t] = 0 /\ excess[t] = 0
        /\ \A t \in Open : reserve[t] \in Nat /\ reserve1[t] = reserve[t]
        /\ \A t \in Ids \ Open : reserve[t] = 0
    BY <2>2, <2>4, <2>5, <2>6
  <2>8. /\ root.tokens = SumFunctionOnSet(used, Ids)
        /\ root.attempts = SumFunctionOnSet(placed, Ids) /\ root.attempts <= MaxAttempts
        /\ root.tokens + SumFunctionOnSet(reserve, Ids) <= MaxTokens + SumFunctionOnSet(excess, Ids)
    BY <2>1 DEF Balanced
  <2> HIDE DEF used, placed, reserve, excess, used1, placed1, reserve1, excess1
  <2>9. /\ SumFunctionOnSet(used, Ids) = SumFunctionOnSet(used1, Created)
        /\ SumFunctionOnSet(placed, Ids) = SumFunctionOnSet(placed1, Created)
        /\ SumFunctionOnSet(excess, Ids) = SumFunctionOnSet(excess1, Created)
        /\ SumFunctionOnSet(reserve, Ids) = SumFunctionOnSet(reserve1, Open)
    BY <2>2, <2>3, <2>7
  <2> QED BY <2>1, <2>8, <2>9 DEF BudgetNotOversold, used1, placed1, reserve1, excess1
<1> QED BY <1>1, FundsInit, FundsStep, PTL DEF Spec

----------------------------------------------------------------------------
\* What a step makes of the children

\* A child has an attempt exactly while it is Scheduled.
Seats == \A t \in Ids : task[t].status = "Scheduled" <=> attempt[t].state # "None"

\* What a step of a child may make of its row.
Begins(old, row) == /\ old.status = "Pending" /\ row.status = "Scheduled"
                    /\ old.intent = "Run" /\ row.intent = "Run" /\ row.tokens = old.tokens
Returns(old, row) == /\ old.status = "Scheduled" /\ row.status = "Pending"
                     /\ old.intent = "Run" /\ row.intent = "Run" /\ row.tokens = old.tokens
GivesUp(old, row) == /\ old.status = "Pending" /\ row.status = "Failed"
                     /\ old.intent = "Run" /\ row.intent = "Run" /\ row.tokens = old.tokens
Stops(old, row) ==
  /\ row.intent # "Run" /\ row.tokens = old.tokens
  /\ \/ old.status = "Pending" /\ row.status \in {"Failed", "Cancelled"}
     \/ old.status = "Scheduled" /\ row.status = "Scheduled"
Finishes(old, row) ==
  /\ old.status = "Scheduled" /\ row.intent = old.intent /\ row.tokens >= old.tokens
  /\ \/ row.status = "Pending" /\ old.intent = "Run" /\ row.tokens < row.ceiling
     \/ row.status = "Succeeded" /\ old.intent = "Run"
     \/ row.status = "Cancelled" /\ old.intent # "Run"
     \/ row.status = "Failed"

\* what an admission has seen to
MayBegin(t) == /\ Used < MaxActive /\ root.tokens < MaxTokens /\ root.attempts < MaxAttempts
            /\ \A k \in Required(t) : task[child[<<t[1], k>>]].status = "Succeeded"

Turn(t, row, att) ==
  /\ task' = [task EXCEPT ![t] = row] /\ attempt' = [attempt EXCEPT ![t] = att]
  /\ row.ceiling = task[t].ceiling
  /\ row.status = "Scheduled" <=> att.state # "None"
  /\ root'.tokens = root.tokens + row.tokens - task[t].tokens
  /\ \/ /\ Begins(task[t], row) /\ MayBegin(t) /\ root'.attempts = root.attempts + 1
     \/ /\ root'.attempts = root.attempts
        /\ \/ row = task[t] \/ Returns(task[t], row) \/ GivesUp(task[t], row)
           \/ Stops(task[t], row) \/ Finishes(task[t], row)

\* Every step of a child is one of these turns.
LEMMA ChildTurns ==
  ASSUME Funds, Seats, NEW t \in Created,
         \/ Wait(t) \/ HandoffFails(t) \/ Refuse(t) \/ Admit(t)
         \/ Launch(t) \/ Unlaunched(t) \/ Settle(t)
         \/ Cancel(t) \/ Deadline(t) \/ \E found \in Outputs : Written(t, found)
         \/ \E kind \in {"Succeeded", "transient", "permanent"}, spent \in Spends : End(t, kind, spent)
  PROVE  /\ UNCHANGED <<plans, child>>
         /\ \E row \in TaskRow, att \in Attempts : Turn(t, row, att)
<1>1. /\ t \in Ids /\ task[t] \in TaskRow /\ task[t].status # "Absent" /\ attempt[t] \in Attempts
      /\ root \in RootRow /\ attempt \in [Ids -> Attempts] /\ task \in [Ids -> TaskRow]
      /\ task = [task EXCEPT ![t] = task[t]] /\ attempt = [attempt EXCEPT ![t] = attempt[t]]
  BY Typing DEF Funds, Typed, Created
<1>2. /\ root.tokens \in Nat /\ root.attempts \in 0..MaxAttempts
      /\ task[t].tokens \in Nat /\ task[t].placed \in Nat /\ task[t].ceiling \in Nat
      /\ task[t].executed \in Nat /\ attempt[t].spent \in Nat
  BY <1>1 DEF RootRow, TaskRow, Attempts
<1>3. /\ task[t].status = "Scheduled" <=> attempt[t].state # "None"
      /\ NoAttempt \in Attempts /\ NoAttempt.state = "None"
  BY <1>1 DEF Seats, NoAttempt, Attempts
<1>4. UNCHANGED <<plans, child>>
  BY DEF Wait, HandoffFails, Refuse, Admit, Launch, Unlaunched, Settle, Cancel, Deadline, Written, End
<1>5. ASSUME NEW att \in Attempts, attempt' = [attempt EXCEPT ![t] = att], UNCHANGED <<root, task>>,
             task[t].status = "Scheduled" <=> att.state # "None"
      PROVE  Turn(t, task[t], att)
  BY <1>1, <1>2, <1>5 DEF Turn
<1>6. CASE Wait(t) \/ \E found \in Outputs : Written(t, found)
  BY <1>1, <1>3, <1>4, <1>5, <1>6 DEF Wait, Written
<1>7. CASE Launch(t)
  <2> DEFINE att == [attempt[t] EXCEPT !.state = "Live"]
  <2>1. att \in Attempts /\ att.state # "None" /\ attempt' = [attempt EXCEPT ![t] = att]
        /\ UNCHANGED <<root, task>> /\ attempt[t].state # "None"
    BY <1>1, <1>7 DEF Launch, Attempts
  <2> HIDE DEF att
  <2> QED BY <1>1, <1>3, <1>4, <1>5, <2>1
<1>8. ASSUME NEW kind \in {"Succeeded", "transient", "permanent"}, NEW spent \in Spends, End(t, kind, spent)
      PROVE  \E att \in Attempts : Turn(t, task[t], att)
  <2> DEFINE att == [state |-> "Ended", kind |-> kind, spent |-> spent]
  <2>1. att \in Attempts /\ att.state # "None" /\ attempt' = [attempt EXCEPT ![t] = att]
        /\ UNCHANGED <<root, task>> /\ attempt[t].state # "None"
    BY <1>8, WorkflowAssumption DEF End, Attempts
  <2> HIDE DEF att
  <2> QED BY <1>3, <1>5, <2>1
<1>9. CASE HandoffFails(t) \/ Refuse(t)
  <2> DEFINE row == [task[t] EXCEPT !.status = "Failed"]
  <2>1. /\ row \in TaskRow /\ row.status = "Failed" /\ row.tokens = task[t].tokens
        /\ row.ceiling = task[t].ceiling /\ row.intent = task[t].intent
    BY <1>1 DEF TaskRow, Statuses, Terminal
  <2>2. /\ task' = [task EXCEPT ![t] = row] /\ UNCHANGED <<root, attempt>>
        /\ task[t].status = "Pending" /\ task[t].intent = "Run"
    BY <1>1, <1>9 DEF HandoffFails, Refuse, Due
  <2> HIDE DEF row
  <2>3. Turn(t, row, attempt[t])
    BY <1>1, <1>2, <1>3, <2>1, <2>2 DEF Turn, GivesUp
  <2> QED BY <1>1, <1>4, <2>1, <2>3
<1>10. CASE Admit(t)
  <2> DEFINE row == [task[t] EXCEPT !.status = "Scheduled", !.placed = @ + 1]
             att == [attempt[t] EXCEPT !.state = "Queued"]
             n == task[t].placed + 1
  <2>1. /\ row \in TaskRow /\ row.status = "Scheduled" /\ row.tokens = task[t].tokens
        /\ row.ceiling = task[t].ceiling /\ row.intent = task[t].intent
    <3>1. n \in Nat /\ row = [task[t] EXCEPT !.status = "Scheduled", !.placed = n]
      BY <1>2
    <3> HIDE DEF n
    <3> QED BY <1>1, <3>1 DEF TaskRow, Statuses
  <2>2. att \in Attempts /\ att.state # "None"
    BY <1>1 DEF Attempts
  <2>3. /\ task' = [task EXCEPT ![t] = row] /\ attempt' = [attempt EXCEPT ![t] = att]
        /\ root' = [root EXCEPT !.attempts = @ + 1]
        /\ task[t].status = "Pending" /\ task[t].intent = "Run" /\ ~Stopped(t) /\ Used < MaxActive
        /\ ~(root.tokens >= MaxTokens) /\ ~(root.attempts >= MaxAttempts)
    BY <1>1, <1>10 DEF Admit, Due, Exhausted
  <2>4. root'.tokens = root.tokens /\ root'.attempts = root.attempts + 1
    BY <1>1, <2>3 DEF RootRow
  <2>5. MayBegin(t)
    <3>1. root.tokens < MaxTokens /\ root.attempts < MaxAttempts
      BY <1>2, <2>3, WorkflowAssumption
    <3>2. \A k \in Required(t) : task[child[<<t[1], k>>]].status = "Succeeded"
      BY <1>1, <2>3, HandOver DEF Funds
    <3> QED BY <2>3, <3>1, <3>2 DEF MayBegin
  <2> HIDE DEF row, att
  <2>6. Turn(t, row, att)
    BY <1>2, <2>1, <2>2, <2>3, <2>4, <2>5 DEF Turn, Begins
  <2> QED BY <1>4, <2>1, <2>2, <2>6
<1>11. CASE Unlaunched(t)
  <2> DEFINE row == IF task[t].intent = "Run" THEN [task[t] EXCEPT !.status = "Pending"] ELSE Finished(t)
  <2>1. /\ row \in TaskRow /\ row.tokens = task[t].tokens
        /\ row.ceiling = task[t].ceiling /\ row.intent = task[t].intent
        /\ row.status = IF task[t].intent = "Run" THEN "Pending"
                        ELSE IF task[t].intent = "deadline_exceeded" THEN "Failed" ELSE "Cancelled"
    BY <1>1 DEF TaskRow, Statuses, Terminal, Finished
  <2>2. task' = [task EXCEPT ![t] = row] /\ attempt' = [attempt EXCEPT ![t] = NoAttempt]
        /\ UNCHANGED root /\ task[t].status = "Scheduled"
    BY <1>1, <1>3, <1>11 DEF Unlaunched
  <2> HIDE DEF row
  <2>3. Returns(task[t], row) \/ Finishes(task[t], row)
    BY <1>2, <2>1, <2>2 DEF Returns, Finishes
  <2>4. Turn(t, row, NoAttempt)
    BY <1>2, <1>3, <2>1, <2>2, <2>3 DEF Turn
  <2> QED BY <1>3, <1>4, <2>1, <2>4
<1>12. CASE Settle(t)
  <2> DEFINE n == task[t].tokens + attempt[t].spent
             m == task[t].executed + 1
             v == Verdict(t)
             row == [Charged(t) EXCEPT !.status = v]
  <2>1. n \in Nat /\ m \in Nat /\ n >= task[t].tokens /\ task[t].status = "Scheduled"
    BY <1>2, <1>3, <1>12 DEF Settle
  <2>2. /\ Charged(t).tokens = n /\ Charged(t).ceiling = task[t].ceiling
        /\ Charged(t) = [task[t] EXCEPT !.tokens = n, !.executed = m]
    BY <1>1, <2>1 DEF Charged, TaskRow
  <2>3. /\ v \in Statuses
        /\ \/ v = "Pending" /\ task[t].intent = "Run" /\ n < task[t].ceiling
           \/ v = "Succeeded" /\ task[t].intent = "Run"
           \/ v = "Cancelled" /\ task[t].intent # "Run"
           \/ v = "Failed"
    <3>1. Finished(t).status = IF task[t].intent = "deadline_exceeded" THEN "Failed" ELSE "Cancelled"
      BY <1>1 DEF Finished, TaskRow
    <3>2. Retryable(t) => n < task[t].ceiling
      BY <2>2 DEF Retryable
    <3> QED BY <3>1, <3>2 DEF Verdict, Statuses, Terminal
  <2>4. /\ task' = [task EXCEPT ![t] = row] /\ attempt' = [attempt EXCEPT ![t] = NoAttempt]
        /\ root' = [root EXCEPT !.tokens = root.tokens + attempt[t].spent,
                                !.state = IF root.tokens + attempt[t].spent > MaxTokens THEN "failed" ELSE @]
    BY <1>12 DEF Settle, Counted, Recorded
  <2>5. root'.tokens = root.tokens + attempt[t].spent /\ root'.attempts = root.attempts
    BY <1>1, <2>4 DEF RootRow
  <2>6. row = [[task[t] EXCEPT !.tokens = n, !.executed = m] EXCEPT !.status = v]
    BY <2>2
  <2>7. root'.tokens = root.tokens + n - task[t].tokens
    BY <1>2, <2>5
  <2> HIDE DEF n, m, v, row
  <2>8. /\ row \in TaskRow /\ row.status = v /\ row.tokens = n /\ row.ceiling = task[t].ceiling
        /\ row.intent = task[t].intent
    BY <1>1, <2>1, <2>3, <2>6 DEF TaskRow
  <2>9. Finishes(task[t], row) /\ row.status # "Scheduled"
    BY <2>1, <2>3, <2>8 DEF Finishes
  <2>10. Turn(t, row, NoAttempt)
    BY <1>3, <2>4, <2>5, <2>7, <2>8, <2>9 DEF Turn
  <2> QED BY <1>3, <1>4, <2>8, <2>10
<1>13. ASSUME NEW intent \in {"user_cancelled", "deadline_exceeded"}, NEW end \in {"Cancelled", "Failed"},
              t \in Open,
              task' = [task EXCEPT ![t].intent = intent, ![t].status = IF @ = "Pending" THEN end ELSE @],
              UNCHANGED <<root, attempt>>
       PROVE  \E row \in TaskRow, att \in Attempts : Turn(t, row, att)
  <2> DEFINE row == [task[t] EXCEPT !.intent = intent, !.status = IF @ = "Pending" THEN end ELSE @]
  <2>1. /\ row \in TaskRow /\ row.tokens = task[t].tokens /\ row.ceiling = task[t].ceiling
        /\ row.intent = intent /\ intent # "Run"
        /\ row.status = IF task[t].status = "Pending" THEN end ELSE task[t].status
    BY <1>1 DEF TaskRow, Statuses, Terminal, Intents
  <2>2. task' = [task EXCEPT ![t] = row]
    BY <1>1, <1>13
  <2>3. task[t].status \in {"Pending", "Scheduled"}
    BY <1>1, <1>13 DEF Open, TaskRow, Statuses
  <2> HIDE DEF row
  <2>4. Stops(task[t], row)
    BY <2>1, <2>3 DEF Stops
  <2>5. /\ row.status = "Scheduled" <=> attempt[t].state # "None"
        /\ root'.tokens = root.tokens + row.tokens - task[t].tokens /\ root'.attempts = root.attempts
        /\ attempt' = [attempt EXCEPT ![t] = attempt[t]]
    BY <1>1, <1>2, <1>3, <1>13, <2>1, <2>3
  <2>6. Turn(t, row, attempt[t])
    BY <2>1, <2>2, <2>4, <2>5 DEF Turn
  <2> QED BY <1>1, <2>1, <2>6
<1>14. CASE Cancel(t)
  BY <1>4, <1>13, <1>14 DEF Cancel
<1>15. CASE Deadline(t)
  BY <1>4, <1>13, <1>15 DEF Deadline
<1> QED BY <1>1, <1>4, <1>6, <1>7, <1>8, <1>9, <1>10, <1>11, <1>12, <1>14, <1>15

\* What an accepted plan makes of a child: it is inserted by it, dropped by it, or
\* not open and left alone.
Enters(t) == /\ task[t] = NoTask /\ task'[t].status = "Pending" /\ task'[t].intent = "Run"
             /\ attempt'[t].state = "None"
Drops(t) == /\ task'[t].intent # "Run"
            /\ task'[t].ceiling = task[t].ceiling /\ task'[t].tokens = task[t].tokens
            /\ \/ task'[t].status = "Cancelled" /\ attempt'[t].state = "None"
               \/ /\ task[t].status = "Scheduled" /\ task'[t].status = "Scheduled"
                  /\ attempt'[t].state # "None"
Stays(t) == task'[t] = task[t] /\ attempt'[t] = attempt[t]

PlanTurn(r, plan) ==
  /\ r = Len(plans) + 1 /\ r \in 1..MaxRevisions
  /\ task' = [t \in Ids |-> task'[t]] /\ attempt' = [t \in Ids |-> attempt'[t]]
  /\ \A t \in Ids : IF t \in {r} \X Fresh(plan) THEN Enters(t)
                    ELSE IF t \in Open THEN Drops(t) ELSE Stays(t)

\* An accepted plan does so to every child.
LEMMA PlanTurns ==
  ASSUME Funds, Seats, NEW plan \in Plans, NEW replan \in BOOLEAN, replan \/ root.revision = 0,
         Len(plans) < MaxRevisions, AcceptPlan(plan, replan)
  PROVE  PlanTurn(Len(plans) + 1, plan)
<1> DEFINE r == Len(plans) + 1
           obsolete == IF replan THEN Open ELSE {}
           ceiling(k) == Ceiling(plan, Available(replan), k)
<1>1. /\ Inv /\ Blank /\ task \in [Ids -> TaskRow] /\ attempt \in [Ids -> Attempts]
      /\ r \in 1..MaxRevisions
  BY Typing, WorkflowAssumption DEF Funds, Typed, Inv, Shapes
<1>2. /\ task' = [t \in Ids |-> task'[t]] /\ attempt' = [t \in Ids |-> attempt'[t]]
      /\ \A t \in Ids : task'[t] =
           IF t \in obsolete THEN Obsolete(t)
           ELSE IF t[1] = r /\ t[2] \in Fresh(plan) THEN Inserted(ceiling(t[2])) ELSE task[t]
      /\ \A t \in Ids : attempt'[t] = IF t \in obsolete /\ NotStarted(t) THEN NoAttempt ELSE attempt[t]
  BY DEF AcceptPlan, Dropped
<1>3. obsolete = Open
  BY <1>1, NoneBefore DEF Open, Created
<1>4. NoAttempt.state = "None" /\ \A c : Inserted(c).status = "Pending" /\ Inserted(c).intent = "Run"
  BY DEF NoAttempt, Inserted, NoTask
<1>5. \A t \in Ids : t \in {r} \X Fresh(plan) <=> t[1] = r /\ t[2] \in Fresh(plan)
  BY DEF Ids
<1> HIDE DEF obsolete, ceiling
<1>6. ASSUME NEW t \in Ids, t \in {r} \X Fresh(plan) PROVE Enters(t)
  <2>1. ~(t[1] <= Len(plans))
    BY <1>1, <1>5, <1>6 DEF Inv, Shapes
  <2>2. task[t] = NoTask /\ task[t].status = "Absent"
    BY <1>1, <2>1, TaskIsPlanned DEF Blank
  <2>3. t \notin Open /\ attempt[t].state = "None"
    BY <2>2 DEF Open, Created, Seats
  <2> QED BY <1>2, <1>3, <1>4, <1>5, <1>6, <2>2, <2>3 DEF Enters
<1>7. ASSUME NEW t \in Open, t \notin {r} \X Fresh(plan) PROVE Drops(t)
  <2>1. t \in Ids /\ task[t] \in TaskRow /\ task'[t] = Obsolete(t)
        /\ task[t].status \in {"Pending", "Scheduled"}
    BY <1>1, <1>2, <1>3 DEF Open, Created, TaskRow, Statuses
  <2>2. /\ Obsolete(t).intent # "Run" /\ Obsolete(t).ceiling = task[t].ceiling
        /\ Obsolete(t).tokens = task[t].tokens
        /\ Obsolete(t).status = IF NotStarted(t) THEN "Cancelled" ELSE task[t].status
    BY <2>1 DEF Obsolete, TaskRow
  <2>3. CASE NotStarted(t)
    BY <1>2, <1>3, <1>4, <2>1, <2>2, <2>3 DEF Drops
  <2>4. CASE ~NotStarted(t)
    <3>1. attempt[t].state # "None" /\ attempt'[t] = attempt[t]
      BY <1>2, <2>1, <2>4 DEF NotStarted
    <3>2. task[t].status = "Scheduled"
      BY <2>1, <3>1 DEF Seats
    <3> QED BY <2>1, <2>2, <2>4, <3>1, <3>2 DEF Drops
  <2> QED BY <2>3, <2>4
<1>8. ASSUME NEW t \in Ids, t \notin Open, t \notin {r} \X Fresh(plan) PROVE Stays(t)
  BY <1>2, <1>3, <1>5, <1>8 DEF Stays
<1> QED BY <1>1, <1>2, <1>6, <1>7, <1>8 DEF PlanTurn

\* The step leaves the children and the account alone.
Quiet == UNCHANGED <<task, attempt, root.tokens, root.attempts>>

\* Every step is a turn of one child, an accepted plan, or leaves the children alone.
LEMMA Turns ==
  ASSUME Funds, Seats, [Next]_vars
  PROVE  \/ Quiet /\ (UNCHANGED plans \/ \E row \in PlanRows : plans' = Append(plans, row))
         \/ \E plan \in Plans, replan \in BOOLEAN :
              /\ PlanTurn(Len(plans) + 1, plan) /\ AcceptPlan(plan, replan)
              /\ replan \/ root.revision = 0
              /\ Len(plans) < MaxRevisions
         \/ UNCHANGED plans /\ \E t \in Created, row \in TaskRow, att \in Attempts : Turn(t, row, att)
<1>1. /\ Inv /\ root \in RootRow
  BY Typing DEF Funds, Typed
<1>2. ASSUME NEW plan \in Plans, NEW replan \in BOOLEAN, replan \/ root.revision = 0, SettlePlan(plan, replan)
      PROVE  \/ Quiet /\ \E row \in PlanRows : plans' = Append(plans, row)
             \/ PlanTurn(Len(plans) + 1, plan) /\ AcceptPlan(plan, replan) /\ Len(plans) < MaxRevisions
  <2>1. CASE RejectPlan(plan, replan)
    <3>1. UNCHANGED <<task, attempt>> /\ plans' = Append(plans, [state |-> "rejected", plan |-> plan])
          /\ root' = Rejected
      BY <2>1 DEF RejectPlan
    <3>2. [state |-> "rejected", plan |-> plan] \in PlanRows
      BY DEF PlanRows
    <3>3. root'.tokens = root.tokens /\ root'.attempts = root.attempts
      BY <1>1, <3>1 DEF Rejected, RootRow
    <3> QED BY <3>1, <3>2, <3>3 DEF Quiet
  <2>2. CASE AcceptPlan(plan, replan)
    BY <1>2, <2>2, PlanTurns DEF SettlePlan
  <2> QED BY <1>2, <2>1, <2>2 DEF SettlePlan
<1>3. CASE UNCHANGED vars \/ PlannerFails
  BY <1>3 DEF vars, PlannerFails, Quiet
<1>4. ASSUME NEW plan \in Plans, PlannerSucceeds(plan)
      PROVE  \/ Quiet /\ (UNCHANGED plans \/ \E row \in PlanRows : plans' = Append(plans, row))
             \/ /\ PlanTurn(Len(plans) + 1, plan) /\ AcceptPlan(plan, FALSE)
                /\ Len(plans) < MaxRevisions /\ root.revision = 0
  <2>1. CASE root.revision > 0
    BY <1>4, <2>1 DEF PlannerSucceeds, Quiet
  <2>2. CASE ~(root.revision > 0)
    <3>1. root.revision \in Nat
      BY <1>1 DEF RootRow
    <3>2. root.revision = 0
      BY <2>2, <3>1
    <3>3. SettlePlan(plan, FALSE)
      BY <1>4, <2>2, Zenon DEF PlannerSucceeds
    <3> QED BY <1>2, <3>2, <3>3
  <2> QED BY <2>1, <2>2
<1>5. ASSUME NEW plan \in Plans, NEW c \in CommandKeys, NEW replan \in BOOLEAN, Command(c, plan, replan)
      PROVE  \/ Quiet /\ \E row \in PlanRows : plans' = Append(plans, row)
             \/ /\ PlanTurn(Len(plans) + 1, plan) /\ AcceptPlan(plan, replan)
                /\ Len(plans) < MaxRevisions /\ (replan \/ root.revision = 0)
  BY <1>2, <1>5 DEF Command
<1> QED BY <1>3, <1>4, <1>5, ChildTurns DEF Next

----------------------------------------------------------------------------
\* Children keep the contract of the task core

Seated == {t \in Ids : task[t].status = "Scheduled"}
Slots == Seats /\ Cardinality(Seated) <= MaxActive

LEMMA SlotsInit == Init => Slots
<1> SUFFICES ASSUME Init PROVE Slots
  OBVIOUS
<1>1. \A t \in Ids : task[t].status = "Absent" /\ attempt[t].state = "None"
  BY DEF Init, NoTask, NoAttempt
<1>2. Seated = {}
  BY <1>1 DEF Seated
<1> QED BY <1>1, <1>2, FS_EmptySet, WorkflowAssumption DEF Slots, Seats

\* No more children hold a slot than max_active, and they are those with an attempt.
LEMMA SlotsStep == Funds /\ Slots /\ [Next]_vars => Slots'
<1> SUFFICES ASSUME Funds, Slots, [Next]_vars PROVE Slots'
  OBVIOUS
<1>1. /\ Seats /\ Cardinality(Seated) <= MaxActive /\ MaxActive \in Nat
      /\ task \in [Ids -> TaskRow] /\ attempt \in [Ids -> Attempts]
  BY Typing, WorkflowAssumption DEF Funds, Typed, Slots
<1>2. IsFiniteSet(Seated) /\ Cardinality(Seated) \in Nat
  BY IdsFinite, FS_Subset, FS_CardinalityType DEF Seated
<1>3. ASSUME Seated' \subseteq Seated PROVE Cardinality(Seated') <= MaxActive
  <2>1. Cardinality(Seated') <= Cardinality(Seated) /\ Cardinality(Seated') \in Nat
    BY <1>2, <1>3, FS_Subset, FS_CardinalityType
  <2> QED BY <1>1, <1>2, <2>1
<1>4. CASE Quiet
  <2>1. Seated' = Seated /\ Seats'
    BY <1>1, <1>4 DEF Quiet, Seated, Seats, Ids
  <2> QED BY <1>3, <2>1 DEF Slots
<1>5. ASSUME NEW r, NEW plan, PlanTurn(r, plan) PROVE Slots'
  <2>1. \A t \in Ids : Enters(t) \/ Drops(t) \/ Stays(t)
    BY <1>5 DEF PlanTurn
  <2>2. \A t \in Ids : /\ task'[t].status = "Scheduled" => task[t].status = "Scheduled"
                       /\ task'[t].status = "Scheduled" <=> attempt'[t].state # "None"
    BY <1>1, <2>1 DEF Enters, Drops, Stays, Seats
  <2>3. Seated' \subseteq Seated /\ Seats'
    BY <2>2 DEF Seated, Seats, Ids
  <2> QED BY <1>3, <2>3 DEF Slots
<1>6. ASSUME NEW t \in Created, NEW row \in TaskRow, NEW att \in Attempts, Turn(t, row, att) PROVE Slots'
  <2>1. /\ t \in Ids /\ task'[t] = row /\ attempt'[t] = att
        /\ \A u \in Ids \ {t} : task'[u] = task[u] /\ attempt'[u] = attempt[u]
        /\ row.status = "Scheduled" <=> att.state # "None"
    BY <1>1, <1>6 DEF Turn, Created
  <2>2. Seats'
    BY <1>1, <2>1 DEF Seats, Ids
  <2>3. CASE Begins(task[t], row) /\ MayBegin(t)
    <3>1. {u \in Created : attempt[u].state # "None"} = Seated
      BY <1>1 DEF Seated, Seats, Created
    <3>2. Cardinality(Seated) < MaxActive
      BY <2>3, <3>1 DEF MayBegin, Used
    <3>3. Seated' = Seated \cup {t} /\ t \notin Seated
      BY <2>1, <2>3 DEF Seated, Begins, Ids
    <3>4. Cardinality(Seated') = Cardinality(Seated) + 1
      BY <1>2, <3>3, FS_AddElement
    <3> QED BY <1>1, <1>2, <2>2, <3>2, <3>4 DEF Slots
  <2>4. CASE row = task[t] \/ Returns(task[t], row) \/ GivesUp(task[t], row)
             \/ Stops(task[t], row) \/ Finishes(task[t], row)
    <3>1. row.status = "Scheduled" => task[t].status = "Scheduled"
      BY <2>4 DEF Returns, GivesUp, Stops, Finishes
    <3>2. Seated' \subseteq Seated
      BY <2>1, <3>1 DEF Seated, Ids
    <3> QED BY <1>3, <2>2, <3>2 DEF Slots
  <2> QED BY <1>6, <2>3, <2>4 DEF Turn
<1> QED BY <1>1, <1>4, <1>5, <1>6, Turns

LEMMA CoreInit == Init => Core!Init
<1> SUFFICES ASSUME Init PROVE Core!Init
  OBVIOUS
<1>1. \A t \in Ids : task[t].status = "Absent" /\ task[t].intent = "Run"
  BY DEF Init, NoTask
<1> QED BY <1>1 DEF Core!Init, Phase, Halted

\* the phase of a row
PhaseOf(status) ==
  CASE status = "Absent" -> "absent" [] status = "Pending" -> "waiting"
    [] status = "Scheduled" -> "holding" [] status = "Succeeded" -> "succeeded"
    [] status = "Failed" -> "failed" [] status = "Cancelled" -> "cancelled"

LEMMA PhaseIs ==
  /\ Phase = [t \in Ids |-> PhaseOf(task[t].status)]
  /\ Phase' = [t \in Ids |-> PhaseOf(task'[t].status)]
  /\ Halted' = [t \in Ids |-> task'[t].intent # "Run"]
BY DEF Phase, PhaseOf, Halted, Ids

LEMMA PhaseCases ==
  /\ PhaseOf("Absent") = "absent" /\ PhaseOf("Pending") = "waiting" /\ PhaseOf("Scheduled") = "holding"
  /\ PhaseOf("Succeeded") = "succeeded" /\ PhaseOf("Failed") = "failed" /\ PhaseOf("Cancelled") = "cancelled"
  /\ \A s \in Statuses : /\ PhaseOf(s) \in Core!Phases
                         /\ PhaseOf(s) = "holding" <=> s = "Scheduled"
BY DEF PhaseOf, Statuses, Terminal, Core!Phases

\* What every step makes of a child is a move of the contract.
LEMMA ChildMayMove ==
  ASSUME Funds, Slots, [Next]_vars, Funds', NEW t \in Ids
  PROVE  Core!Move(t)
<1>1. /\ task \in [Ids -> TaskRow] /\ task' \in [Ids -> TaskRow] /\ Seats
  BY Typing DEF Funds, Typed, Slots
<1>2. /\ Phase[t] = PhaseOf(task[t].status) /\ Phase'[t] = PhaseOf(task'[t].status)
      /\ Halted[t] = (task[t].intent # "Run") /\ Halted'[t] = (task'[t].intent # "Run")
  BY PhaseIs DEF Halted
<1>3. task[t] \in TaskRow /\ task'[t] \in TaskRow
  BY <1>1
<1>4. ASSUME task'[t] = task[t] PROVE Core!Move(t)
  BY <1>2, <1>4 DEF Core!Move, Core!Stays
<1>5. CASE Quiet
  BY <1>4, <1>5 DEF Quiet
<1>6. ASSUME NEW r, NEW plan, PlanTurn(r, plan) PROVE Core!Move(t)
  <2>1. CASE Enters(t)
    <3>1. task[t].status = "Absent" /\ task[t].intent = "Run"
      BY <2>1 DEF Enters, NoTask
    <3> QED BY <1>2, <2>1, <3>1, PhaseCases DEF Enters, Core!Move, Core!Accept
  <2>2. CASE t \in Open /\ Drops(t)
    <3>1. task[t].status \in {"Pending", "Scheduled"}
      BY <1>3, <2>2 DEF Open, Created, TaskRow, Statuses
    <3> QED BY <1>2, <2>2, <3>1, PhaseCases DEF Drops, Core!Move, Core!StopNow
  <2>3. CASE Stays(t)
    BY <1>4, <2>3 DEF Stays
  <2> QED BY <1>6, <2>1, <2>2, <2>3 DEF PlanTurn
<1>7. ASSUME NEW u \in Created, NEW row \in TaskRow, NEW att \in Attempts, Turn(u, row, att)
      PROVE  Core!Move(t)
  <2>1. CASE t # u
    <3>1. task'[t] = task[t]
      BY <1>1, <1>7, <2>1 DEF Turn
    <3> QED BY <1>4, <3>1
  <2>2. CASE t = u
    <3>1. task'[t] = row
      BY <1>1, <1>7, <2>2 DEF Turn
    <3>2. CASE row = task[t]
      BY <1>4, <3>1, <3>2
    <3>3. CASE Begins(task[t], row)
      BY <1>2, <3>1, <3>3, PhaseCases DEF Begins, Core!Move, Core!Grant
    <3>4. CASE Returns(task[t], row)
      BY <1>2, <3>1, <3>4, PhaseCases DEF Returns, Core!Move, Core!GiveBack
    <3>5. CASE GivesUp(task[t], row)
      BY <1>2, <3>1, <3>5, PhaseCases DEF GivesUp, Core!Move, Core!Fail
    <3>6. CASE Stops(task[t], row)
      BY <1>2, <3>1, <3>6, PhaseCases DEF Stops, Core!Move, Core!Fail, Core!StopNow
    <3>7. CASE Finishes(task[t], row)
      BY <1>2, <3>1, <3>7, PhaseCases
      DEF Finishes, Core!Move, Core!GiveBack, Core!Succeed, Core!Fail, Core!StopNow
    <3> QED BY <1>7, <2>2, <3>2, <3>3, <3>4, <3>5, <3>6, <3>7 DEF Turn
  <2> QED BY <2>1, <2>2
<1> QED BY <1>1, <1>5, <1>6, <1>7, Turns

LEMMA CoreStep ==
  ASSUME Funds, Slots, [Next]_vars, Funds', Slots'
  PROVE  Core!Next
<1>1. task' \in [Ids -> TaskRow]
  BY Typing DEF Funds, Typed
<1>2. \A t \in Ids : task'[t].status \in Statuses
  BY <1>1 DEF TaskRow
<1>3. Phase' \in [Ids -> Core!Phases] /\ Halted' \in [Ids -> BOOLEAN]
  BY <1>2, PhaseIs, PhaseCases
<1>4. Core!Holding' = Seated'
  BY <1>2, PhaseIs, PhaseCases DEF Core!Holding, Seated, Ids
<1>5. \A S : Core!Cardinality(S) = Cardinality(S)
  BY DEF Core!Cardinality, Cardinality
<1> QED BY <1>3, <1>4, <1>5, ChildMayMove DEF Core!Next, Slots

\* The children of a workflow live as tasks of the core do, whatever is planned,
\* replanned, handed over, retried or charged: each ends once, no more than
\* max_active hold a slot, and a stop is never undone and wins over a success
\* that is not settled (_settle_plan_locked, Manager.schedule, settle, cancel).
THEOREM ChildrenAreTasks == Spec => ChildrenKeepContract
<1>1. Funds /\ Slots /\ [Next]_vars => Funds' /\ Slots'
  BY FundsStep, SlotsStep
<1>2. Funds /\ Slots /\ Funds' /\ Slots' /\ [Next]_vars => [Core!Next]_<<Phase, Halted>>
  BY CoreStep
<1> QED BY <1>1, <1>2, FundsInit, SlotsInit, CoreInit, PTL DEF Spec, ChildrenKeepContract, Core!Spec

----------------------------------------------------------------------------
\* The workflow keeps the contract of its owner

\* The contract adds up by the same definition.
LEMMA OwnerSum == \A f, S : Owner!SumFunctionOnSet(f, S) = SumFunctionOnSet(f, S)
BY Zenon DEF Owner!SumFunctionOnSet, Owner!FoldFunctionOnSet, Owner!MapThenFoldSet,
             SumFunctionOnSet, FoldFunctionOnSet, MapThenFoldSet

Kept == [t \in Ids |-> Reserve(task[t])]

\* What the contract calls a child's reserve is that of its row.
LEMMA KeptIs == Funds => Reserved = Kept
<1> SUFFICES ASSUME Funds PROVE Reserved = Kept
  OBVIOUS
<1>1. Table(task) /\ Blank
  BY Typing DEF Funds, Typed, Table
<1>2. ASSUME NEW t \in Ids PROVE (IF t \in Open THEN Unspent(t) ELSE 0) = Reserve(task[t])
  <2>1. CASE t \in Open
    BY <1>1, <2>1, UnspentIs
  <2>2. CASE t \notin Created
    BY <1>1, <2>2 DEF Blank, Created, Open, NoTask, Reserve
  <2>3. CASE t \in Created /\ t \notin Open
    BY <2>3 DEF Open, Reserve
  <2> QED BY <2>1, <2>2, <2>3
<1> QED BY <1>2 DEF Reserved, Kept

LEMMA KeptNext == Funds' => (Reserved = Kept)'
BY KeptIs, PTL

\* A key is done for the owner when a task of it has succeeded.
LEMMA DoneIs ==
  ASSUME Funds, NEW k \in Keys
  PROVE  Owner!Done(k) <=> \E t \in Ids : t[2] = k /\ task[t].status = "Succeeded"
<1>1. \A t \in Ids : Phase[t] = "succeeded" <=> task[t].status = "Succeeded"
  <2> SUFFICES ASSUME NEW t \in Ids PROVE Phase[t] = "succeeded" <=> task[t].status = "Succeeded"
    OBVIOUS
  <2>1. Phase[t] = PhaseOf(task[t].status)
    BY PhaseIs
  <2>2. task[t].status \in Statuses
    BY Typing DEF Funds, Typed, TaskRow
  <2> QED BY <2>1, <2>2 DEF PhaseOf, Statuses, Terminal
<1>2. Owner!Children = Ids
  BY DEF Owner!Children, Ids
<1> QED BY <1>1, <1>2 DEF Owner!Done

\* What a child waits for stays as it is while it exists.
LEMMA AwaitedStays ==
  ASSUME Inv, NEW t \in Ids, task[t].status # "Absent", task'[t].status # "Absent",
         UNCHANGED plans \/ \E row \in PlanRows : plans' = Append(plans, row)
  PROVE  Awaited'[t] = Awaited[t]
<1>1. t[1] \in 1..Len(plans)
  BY TaskIsPlanned DEF Ids
<1>2. plans'[t[1]] = plans[t[1]]
  BY <1>1, NextPlan
<1>3. Awaited[t] = Needs(plans[t[1]].plan, t[2]) /\ Awaited'[t] = Needs(plans'[t[1]].plan, t[2])
  BY DEF Awaited, Created, Ids, Needs
<1> QED BY <1>2, <1>3 DEF Needs

\* Only what is absent waits for nothing.
LEMMA AwaitedNone ==
  ASSUME NEW t \in Ids
  PROVE  /\ task[t].status = "Absent" => Awaited[t] = {}
         /\ task'[t].status = "Absent" => Awaited'[t] = {}
BY DEF Awaited, Created, Ids

\* What a child waits for are keys.
LEMMA AwaitedTyped == Funds => Awaited \in [Ids -> SUBSET Keys]
<1> SUFFICES ASSUME Funds, NEW t \in Ids PROVE Awaited[t] \in SUBSET Keys
  BY DEF Awaited
<1>1. Inv
  BY DEF Funds
<1>2. CASE task[t].status = "Absent"
  BY <1>2, AwaitedNone
<1>3. CASE task[t].status # "Absent"
  <2>1. Required(t) \subseteq Keys
    BY <1>1, <1>3, SourcesOwn DEF Ids
  <2> QED BY <1>3, <2>1 DEF Awaited, Required, Created
<1> QED BY <1>2, <1>3

LEMMA AwaitedTypedNext == Funds' => (Awaited \in [Ids -> SUBSET Keys])'
BY AwaitedTyped, PTL

LEMMA OwnerInit == Init => Owner!Init
<1> SUFFICES ASSUME Init PROVE Owner!Init
  OBVIOUS
<1>1. \A t \in Ids : task[t].status = "Absent" /\ task[t].intent = "Run"
  BY DEF Init, NoTask
<1>2. Owner!Children = Ids
  BY DEF Owner!Children, Ids
<1>3. Phase = [t \in Ids |-> "absent"] /\ Halted = [t \in Ids |-> FALSE]
  BY <1>1 DEF Phase, Halted
<1>4. Awaited = [t \in Ids |-> {}] /\ Reserved = [t \in Ids |-> 0]
  BY <1>1 DEF Awaited, Reserved, Open, Created
<1>5. root.tokens = 0 /\ root.attempts = 0
  BY DEF Init
<1> QED BY <1>2, <1>3, <1>4, <1>5 DEF Owner!Init

----------------------------------------------------------------------------
\* An accepted plan is a plan of the contract.
LEMMA OwnerPlan ==
  ASSUME Funds, Seats, Funds', NEW plan \in Plans, NEW replan \in BOOLEAN, replan \/ root.revision = 0,
         Len(plans) < MaxRevisions, AcceptPlan(plan, replan), PlanTurn(Len(plans) + 1, plan)
  PROVE  Owner!Plan(Len(plans) + 1, Fresh(plan))
<1> DEFINE r == Len(plans) + 1
           kids == Fresh(plan)
<1>1. /\ Inv /\ Table(task) /\ Blank /\ Table(task') /\ root \in RootRow
      /\ task \in [Ids -> TaskRow] /\ task' \in [Ids -> TaskRow]
  BY Typing DEF Funds, Typed, Table
<1>2. /\ Owner!Children = Ids /\ Reserved = Kept /\ Reserved' = Kept'
      /\ Kept = [t \in Ids |-> Reserve(task[t])] /\ Kept' = [t \in Ids |-> Reserve(task'[t])]
  BY KeptIs, KeptNext DEF Owner!Children, Ids, Kept
<1>3. \A t \in Ids : /\ Phase[t] = PhaseOf(task[t].status) /\ Phase'[t] = PhaseOf(task'[t].status)
                     /\ Halted[t] = (task[t].intent # "Run") /\ Halted'[t] = (task'[t].intent # "Run")
                     /\ Reserved[t] = Reserve(task[t]) /\ Reserved'[t] = Reserve(task'[t])
                     /\ task[t] \in TaskRow /\ task'[t] \in TaskRow
  BY <1>1, <1>2, PhaseIs DEF Halted
<1>4. /\ plans' = Append(plans, [state |-> "accepted", plan |-> plan])
      /\ [state |-> "accepted", plan |-> plan] \in PlanRows /\ Len(plans) \in Nat
      /\ root.tokens < MaxTokens /\ root.attempts < MaxAttempts /\ WellFormed(plan)
      /\ root'.tokens = root.tokens /\ root'.attempts = root.attempts
  BY <1>1 DEF AcceptPlan, Acceptable, PlanRows, Inv, Shapes, Revised, RootRow
<1>5. Owner!Affordable
  BY <1>4 DEF Owner!Affordable
<1>6. /\ Phase' \in [Ids -> Owner!Phases] /\ Halted' \in [Ids -> BOOLEAN]
      /\ Reserved' \in [Ids -> Nat] /\ Awaited' \in [Ids -> SUBSET Keys]
  <2>1. \A t \in Ids : task'[t].status \in Statuses /\ Reserve(task'[t]) \in Nat
    BY <1>3, RowCounts DEF TaskRow
  <2>2. Phase' \in [Ids -> Owner!Phases]
    BY <2>1, PhaseIs, PhaseCases DEF Owner!Phases, Core!Phases
  <2> QED BY <1>2, <2>1, <2>2, PhaseIs, AwaitedTypedNext
<1>7. /\ r \in 1..MaxRevisions /\ kids \subseteq Keys /\ kids = {k \in plan.kids : Carried(k) = NoRow}
      /\ plan.kids \subseteq Keys
  BY WorkflowAssumption DEF PlanTurn, Fresh, PlanForm
<1>8. \A k \in kids : ~Owner!Done(k)
  <2> SUFFICES ASSUME NEW k \in kids, NEW t \in Ids, t[2] = k, task[t].status = "Succeeded" PROVE FALSE
    BY <1>7, DoneIs
  <2>1. Carried(k) = t /\ t # NoRow
    BY <1>1, <1>7, CarriedIs, TaskIsPlanned
  <2> QED BY <1>7, <2>1
<1>9. \A k \in plan.kids : k \in kids \/ Owner!Done(k)
  <2> SUFFICES ASSUME NEW k \in plan.kids, k \notin kids PROVE Owner!Done(k)
    OBVIOUS
  <2>1. Carried(k) # NoRow /\ k \in Keys
    BY <1>7
  <2>2. Carried(k) \in Ids /\ Carried(k)[2] = k /\ task[Carried(k)].status = "Succeeded"
    BY <1>1, <2>1, CarriedIs
  <2> QED BY <2>1, <2>2, DoneIs
<1>10. \A t \in Ids : t \in Owner!Unfinished <=> t \in Open
  <2> SUFFICES ASSUME NEW t \in Ids PROVE t \in Owner!Unfinished <=> t \in Open
    OBVIOUS
  <2>1. task[t].status \in Statuses /\ Phase[t] = PhaseOf(task[t].status)
    BY <1>3 DEF TaskRow
  <2> QED BY <1>2, <2>1, PhaseCases DEF Owner!Unfinished, Open, Created, Statuses, Terminal
<1>11. ASSUME NEW t \in Ids, t \in {r} \X kids, Enters(t) PROVE Owner!Insert(t, kids)
  <2>1. /\ Phase[t] = "absent" /\ Phase'[t] = "waiting" /\ ~Halted'[t]
        /\ t[1] = r /\ t[2] \in kids /\ task'[t].status = "Pending"
    <3>1. task[t].status = "Absent" /\ task'[t].status = "Pending" /\ task'[t].intent = "Run"
      BY <1>11 DEF Enters, NoTask
    <3>2. t[1] = r /\ t[2] \in kids
      BY <1>11
    <3> QED BY <1>3, <3>1, <3>2, PhaseCases
  <2>2. Awaited'[t] = Needs(plan, t[2])
    <3>1. plans'[t[1]].plan = plan
      BY <1>1, <1>4, <2>1, NextPlan
    <3>2. Awaited'[t] = Needs(plans'[t[1]].plan, t[2])
      BY <2>1 DEF Awaited, Created, Ids, Needs
    <3> QED BY <3>1, <3>2
  <2>3. Needs(plan, t[2]) \subseteq plan.kids
    BY <1>4, <1>7, <2>1 DEF WellFormed
  <2>4. ~Owner!Done(t[2]) /\ \A k \in Awaited'[t] : k \in kids \/ Owner!Done(k)
    BY <1>8, <1>9, <2>1, <2>2, <2>3
  <2> QED BY <2>1, <2>4, Zenon DEF Owner!Insert
<1>12. ASSUME NEW t \in Open, Drops(t) PROVE Owner!Drop(t)
  <2>1. t \in Ids /\ task[t].status # "Absent" /\ task'[t].status # "Absent"
    BY <1>12 DEF Open, Created, Drops
  <2>2. Awaited'[t] = Awaited[t]
    BY <1>1, <1>4, <2>1, AwaitedStays
  <2>3. Halted'[t]
    BY <1>3, <1>12, <2>1 DEF Drops
  <2>4. CASE task'[t].status = "Cancelled"
    <3>1. Phase'[t] = "cancelled" /\ Reserved'[t] = 0
      BY <1>3, <2>1, <2>4, PhaseCases DEF Reserve, Terminal
    <3> QED BY <2>2, <2>3, <3>1 DEF Owner!Drop
  <2>5. CASE task[t].status = "Scheduled" /\ task'[t].status = "Scheduled"
    <3>1. Phase[t] = "holding" /\ Phase'[t] = "holding" /\ Reserved'[t] = Reserved[t]
      BY <1>3, <1>12, <2>1, <2>5, PhaseCases DEF Reserve, Drops
    <3> QED BY <2>2, <2>3, <3>1 DEF Owner!Drop
  <2> QED BY <1>12, <2>4, <2>5 DEF Drops
<1>13. ASSUME NEW t \in Ids, Stays(t) PROVE Owner!Keep(t)
  <2>1. task'[t] = task[t]
    BY <1>13 DEF Stays
  <2>2. Awaited'[t] = Awaited[t]
    <3>1. CASE task[t].status = "Absent"
      BY <2>1, <3>1, AwaitedNone
    <3>2. CASE task[t].status # "Absent"
      BY <1>1, <1>4, <2>1, <3>2, AwaitedStays
    <3> QED BY <3>1, <3>2
  <2> QED BY <1>3, <2>1, <2>2 DEF Owner!Keep
<1>14. \A t \in Ids : IF t \in {r} \X kids THEN Owner!Insert(t, kids)
                      ELSE IF t \in Owner!Unfinished THEN Owner!Drop(t) ELSE Owner!Keep(t)
  <2> SUFFICES ASSUME NEW t \in Ids
               PROVE  IF t \in {r} \X kids THEN Owner!Insert(t, kids)
                      ELSE IF t \in Owner!Unfinished THEN Owner!Drop(t) ELSE Owner!Keep(t)
    OBVIOUS
  <2>1. IF t \in {r} \X kids THEN Enters(t) ELSE IF t \in Open THEN Drops(t) ELSE Stays(t)
    BY DEF PlanTurn
  <2> HIDE DEF r, kids
  <2>2. t \in Open <=> t \in Owner!Unfinished
    BY <1>10
  <2> QED BY <1>11, <1>12, <1>13, <2>1, <2>2, Zenon
<1>15. root.tokens + Owner!SumFunctionOnSet(Reserved', Ids) <= MaxTokens
  <2>1. root.tokens \in Nat
    BY <1>1 DEF RootRow
  <2>2. root.tokens + SumFunctionOnSet(Kept', Ids) <= MaxTokens
    BY <1>1, <1>2, <2>1, PlanFits
  <2> QED BY <1>2, <2>2, OwnerSum
<1> HIDE DEF r, kids
<1>16. Owner!Plan(r, kids)
  BY <1>2, <1>4, <1>5, <1>6, <1>14, <1>15 DEF Owner!Plan, Owner!books
<1> QED BY <1>16 DEF r, kids

\* A turn of a child is a step of the contract.
LEMMA OwnerTurn ==
  ASSUME Funds, Funds', UNCHANGED plans,
         NEW t \in Created, NEW row \in TaskRow, NEW att \in Attempts, Turn(t, row, att)
  PROVE  [Owner!Next]_<<Phase, Halted, Awaited, Reserved, Owner!books>>
<1>1. /\ Inv /\ t \in Ids /\ root \in RootRow /\ root' \in RootRow /\ task \in [Ids -> TaskRow]
      /\ task[t] \in TaskRow /\ task[t].status # "Absent"
  BY Typing DEF Funds, Typed, Created
<1>2. /\ task' = [task EXCEPT ![t] = row] /\ row.ceiling = task[t].ceiling
      /\ root.tokens \in Nat /\ root'.tokens \in Nat /\ root.attempts \in Nat
      /\ row.tokens \in Nat /\ task[t].tokens \in Nat /\ task[t].ceiling \in Nat
      /\ Reserve(row) \in Nat /\ Reserve(task[t]) \in Nat
      /\ root'.tokens = root.tokens + row.tokens - task[t].tokens
  BY <1>1, RowCounts DEF Turn, RootRow, TaskRow
<1>3. /\ Owner!Children = Ids /\ Reserved = Kept /\ Reserved' = Kept'
      /\ Kept = [u \in Ids |-> Reserve(task[u])] /\ Kept' = [u \in Ids |-> Reserve(task'[u])]
  BY KeptIs, KeptNext DEF Owner!Children, Ids, Kept
<1>4. /\ Phase[t] = PhaseOf(task[t].status) /\ Halted[t] = (task[t].intent # "Run")
      /\ Reserved[t] = Reserve(task[t])
      /\ Phase' = [Phase EXCEPT ![t] = PhaseOf(row.status)]
      /\ Halted' = [Halted EXCEPT ![t] = (row.intent # "Run")]
      /\ Reserved' = [Reserved EXCEPT ![t] = Reserve(row)]
  BY <1>1, <1>2, <1>3, PhaseIs DEF Halted
<1>5. Awaited' = Awaited
  <2>1. row.status # "Absent"
    <3>1. row = task[t] \/ Begins(task[t], row) \/ Returns(task[t], row) \/ GivesUp(task[t], row)
          \/ Stops(task[t], row) \/ Finishes(task[t], row)
      BY DEF Turn
    <3> QED BY <1>1, <3>1 DEF Begins, Returns, GivesUp, Stops, Finishes
  <2>2. Created' = Created
    BY <1>1, <1>2, <2>1 DEF Created, Ids
  <2> QED BY <2>2 DEF Awaited, Ids, Needs
<1>6. /\ row.intent = task[t].intent => Halted' = Halted
      /\ PhaseOf(row.status) = Phase[t] => Phase' = Phase
      /\ Reserve(row) = Reserve(task[t]) => Reserved' = Reserved
  <2>1. Phase = [u \in Ids |-> Phase[u]]
    BY PhaseIs, Zenon
  <2>2. Halted = [u \in Ids |-> Halted[u]]
    BY DEF Halted
  <2>3. Reserved = [u \in Ids |-> Reserved[u]]
    BY DEF Reserved
  <2> HIDE DEF Phase, Halted, Reserved
  <2> QED BY <1>1, <1>4, <2>1, <2>2, <2>3
<1>7. row.tokens = task[t].tokens => root'.tokens = root.tokens
  BY <1>2
<1>8. CASE row = task[t] /\ root'.attempts = root.attempts
  BY <1>4, <1>5, <1>6, <1>7, <1>8 DEF Owner!books
<1>9. CASE Begins(task[t], row) /\ MayBegin(t) /\ root'.attempts = root.attempts + 1
  <2>0. Halted' = Halted /\ root'.tokens = root.tokens /\ Owner!Affordable
    BY <1>6, <1>7, <1>9 DEF Begins, MayBegin, Owner!Affordable
  <2>1. Phase[t] = "waiting" /\ ~Halted[t] /\ Phase' = [Phase EXCEPT ![t] = "holding"]
        /\ Halted' = Halted /\ root'.tokens = root.tokens /\ Owner!Affordable
    BY <1>4, <1>9, <2>0, PhaseCases DEF Begins
  <2>2. Reserved' = Reserved
    BY <1>2, <1>6, <1>9 DEF Begins, Reserve, Terminal
  <2>3. \A k \in Awaited[t] : Owner!Done(k)
    <3>1. Awaited[t] = Required(t)
      BY <1>1 DEF Awaited, Required, Created
    <3> SUFFICES ASSUME NEW k \in Required(t) PROVE Owner!Done(k)
      BY <3>1
    <3>2. <<t[1], k>> \in Ids /\ Planned(<<t[1], k>>) /\ task[child[<<t[1], k>>]].status = "Succeeded"
      BY <1>1, <1>9, SourcesOwn DEF MayBegin
    <3>3. child[<<t[1], k>>] \in Ids /\ child[<<t[1], k>>][2] = k
      BY <1>1, <3>2 DEF Inv, RowsKept, RowNames
    <3>4. k \in Keys
      BY <3>2 DEF Ids
    <3> QED BY <3>2, <3>3, <3>4, DoneIs
  <2>4. Owner!Begin(t)
    BY <1>5, <1>9, <2>1, <2>2, <2>3 DEF Owner!Begin
  <2> QED BY <1>1, <1>3, <2>4 DEF Owner!Next
<1>10. ASSUME root'.attempts = root.attempts PROVE Owner!books' = Owner!books <=> root'.tokens = root.tokens
  BY <1>10 DEF Owner!books
<1>11. CASE Returns(task[t], row) /\ root'.attempts = root.attempts
  <2>1. Phase[t] = "holding" /\ ~Halted[t] /\ Phase' = [Phase EXCEPT ![t] = "waiting"]
        /\ Halted' = Halted /\ Owner!books' = Owner!books
    BY <1>4, <1>6, <1>7, <1>10, <1>11, PhaseCases DEF Returns
  <2>2. Reserved' = Reserved
    BY <1>2, <1>6, <1>11 DEF Returns, Reserve, Terminal
  <2>3. Owner!Return(t)
    BY <1>5, <2>1, <2>2 DEF Owner!Return
  <2> QED BY <1>1, <1>3, <2>3 DEF Owner!Next
<1>12. ASSUME row.status \in Terminal PROVE Reserved' = [Reserved EXCEPT ![t] = 0]
  BY <1>4, <1>12 DEF Reserve
<1>13. CASE GivesUp(task[t], row) /\ root'.attempts = root.attempts
  <2>1. Phase[t] = "waiting" /\ ~Halted[t] /\ Phase' = [Phase EXCEPT ![t] = "failed"]
        /\ Halted' = Halted /\ Owner!books' = Owner!books /\ Reserved' = [Reserved EXCEPT ![t] = 0]
    BY <1>4, <1>6, <1>7, <1>10, <1>12, <1>13, PhaseCases DEF GivesUp, Terminal
  <2>2. Owner!GiveUp(t)
    BY <1>5, <2>1 DEF Owner!GiveUp, Owner!Leave
  <2> QED BY <1>1, <1>3, <2>2 DEF Owner!Next
<1>14. CASE Stops(task[t], row) /\ root'.attempts = root.attempts
  <2>1. Halted' = [Halted EXCEPT ![t] = TRUE] /\ Owner!books' = Owner!books
    BY <1>4, <1>7, <1>10, <1>14 DEF Stops
  <2>2. CASE task[t].status = "Pending" /\ row.status \in {"Failed", "Cancelled"}
    <3>1. Phase[t] = "waiting" /\ t \in Owner!Unfinished /\ Reserved' = [Reserved EXCEPT ![t] = 0]
          /\ \/ Phase' = [Phase EXCEPT ![t] = "failed"] \/ Phase' = [Phase EXCEPT ![t] = "cancelled"]
      BY <1>1, <1>3, <1>4, <1>12, <2>2, PhaseCases DEF Owner!Unfinished, Terminal
    <3>2. Owner!Stop(t)
      BY <1>5, <2>1, <3>1 DEF Owner!Stop, Owner!Leave
    <3> QED BY <1>1, <1>3, <3>2 DEF Owner!Next
  <2>3. CASE task[t].status = "Scheduled" /\ row.status = "Scheduled"
    <3>1. Phase[t] = "holding" /\ t \in Owner!Unfinished /\ Phase' = Phase
      BY <1>1, <1>3, <1>4, <1>6, <2>3, PhaseCases DEF Owner!Unfinished
    <3>2. Reserved' = Reserved
      BY <1>2, <1>6, <1>14, <2>3 DEF Stops, Reserve, Terminal
    <3>3. Owner!Stop(t)
      BY <1>5, <2>1, <3>1, <3>2 DEF Owner!Stop
    <3> QED BY <1>1, <1>3, <3>3 DEF Owner!Next
  <2> QED BY <1>14, <2>2, <2>3 DEF Stops
<1>15. CASE Finishes(task[t], row) /\ root'.attempts = root.attempts
  <2> DEFINE left == Reserved[t] - (root'.tokens - root.tokens)
             outcome == \/ /\ ~Halted[t] /\ left > 0
                           /\ Phase' = [Phase EXCEPT ![t] = "waiting"]
                           /\ Reserved' = [Reserved EXCEPT ![t] = left]
                        \/ ~Halted[t] /\ ~Owner!Done(t[2]) /\ Owner!Leave(t, "succeeded")
                        \/ Halted[t] /\ Owner!Leave(t, "cancelled")
                        \/ Owner!Leave(t, "failed")
  <2>1. /\ Phase[t] = "holding" /\ Halted' = Halted /\ task[t].status = "Scheduled"
        /\ Halted[t] = (task[t].intent # "Run")
    BY <1>4, <1>6, <1>15, PhaseCases DEF Finishes
  <2>2. root'.tokens \in Nat /\ root'.tokens >= root.tokens
    BY <1>2, <1>15 DEF Finishes
  <2>3. ASSUME row.status = "Pending", task[t].intent = "Run", row.tokens < row.ceiling PROVE outcome
    <3>1. left > 0 /\ left = Reserve(row)
      <4>1. /\ Reserve(task[t]) = task[t].ceiling - task[t].tokens
            /\ Reserve(row) = task[t].ceiling - row.tokens /\ row.tokens < task[t].ceiling
        BY <1>2, <1>15, <2>1, <2>3 DEF Reserve, Terminal, Finishes
      <4>2. left = task[t].ceiling - row.tokens
        BY <1>2, <1>4, <4>1
      <4> HIDE DEF left
      <4> QED BY <1>2, <4>1, <4>2
    <3>2. Reserved' = [Reserved EXCEPT ![t] = left] /\ Phase' = [Phase EXCEPT ![t] = "waiting"]
      BY <1>4, <2>3, <3>1, PhaseCases
    <3> QED BY <2>1, <2>3, <3>1, <3>2
  <2>4. ASSUME row.status = "Succeeded", task[t].intent = "Run" PROVE outcome
    <3>1. ~Owner!Done(t[2])
      <4> SUFFICES ASSUME NEW u \in Ids, u[2] = t[2], task[u].status = "Succeeded" PROVE FALSE
        BY <1>1, DoneIs DEF Ids
      <4>1. t[1] = root.revision /\ child[t] = t /\ Planned(t)
        BY <1>1, <2>1, <2>4, TaskIsPlanned DEF Inv, Current
      <4>2. u[1] <= t[1]
        BY <1>1, <4>1, TaskIsPlanned
      <4>3. child[t] = u
        BY <1>1, <4>1, <4>2 DEF Inv, CarriedOn
      <4> QED BY <2>1, <4>1, <4>3
    <3>2. Phase' = [Phase EXCEPT ![t] = "succeeded"] /\ Reserved' = [Reserved EXCEPT ![t] = 0]
      BY <1>4, <1>12, <2>4, PhaseCases DEF Terminal
    <3> QED BY <2>1, <2>4, <3>1, <3>2 DEF Owner!Leave
  <2>5. ASSUME row.status = "Cancelled", task[t].intent # "Run" PROVE outcome
    <3>1. Phase' = [Phase EXCEPT ![t] = "cancelled"] /\ Reserved' = [Reserved EXCEPT ![t] = 0]
      BY <1>4, <1>12, <2>5, PhaseCases DEF Terminal
    <3> QED BY <2>1, <2>5, <3>1 DEF Owner!Leave
  <2>6. ASSUME row.status = "Failed" PROVE outcome
    <3>1. Phase' = [Phase EXCEPT ![t] = "failed"] /\ Reserved' = [Reserved EXCEPT ![t] = 0]
      BY <1>4, <1>12, <2>6, PhaseCases DEF Terminal
    <3> QED BY <3>1 DEF Owner!Leave
  <2>7. outcome
    BY <1>15, <2>3, <2>4, <2>5, <2>6 DEF Finishes
  <2>8. Owner!End(t)
    BY <1>5, <1>15, <2>1, <2>2, <2>7 DEF Owner!End
  <2> QED BY <1>1, <1>3, <2>8 DEF Owner!Next
<1> QED BY <1>8, <1>9, <1>11, <1>13, <1>14, <1>15 DEF Turn

\* Every step is one of the contract.
LEMMA OwnerStep ==
  ASSUME Funds, Slots, [Next]_vars, Funds'
  PROVE  [Owner!Next]_<<Phase, Halted, Awaited, Reserved, Owner!books>>
<1>1. Inv /\ Seats /\ Reserved = Kept /\ Reserved' = Kept'
  BY KeptIs, KeptNext DEF Funds, Slots
<1>2. CASE Quiet /\ (UNCHANGED plans \/ \E row \in PlanRows : plans' = Append(plans, row))
  <2>1. task' = task /\ root'.tokens = root.tokens /\ root'.attempts = root.attempts
    BY <1>2 DEF Quiet
  <2>2. Phase' = Phase /\ Halted' = Halted /\ Reserved' = Reserved
    BY <1>1, <2>1 DEF Phase, Halted, Kept, Ids
  <2>3. \A t \in Ids : Awaited'[t] = Awaited[t]
    BY <1>1, <1>2, <2>1, AwaitedNone, AwaitedStays
  <2>4. Awaited' = Awaited
    BY <2>3 DEF Awaited, Ids
  <2> QED BY <2>1, <2>2, <2>4 DEF Owner!books
<1>3. ASSUME NEW plan \in Plans, NEW replan \in BOOLEAN, PlanTurn(Len(plans) + 1, plan),
             AcceptPlan(plan, replan), replan \/ root.revision = 0, Len(plans) < MaxRevisions
      PROVE  Owner!Next
  <2>1. Owner!Plan(Len(plans) + 1, Fresh(plan))
    BY <1>1, <1>3, OwnerPlan
  <2>2. Len(plans) + 1 \in 1..MaxRevisions /\ Fresh(plan) \in SUBSET Keys
    BY <1>3, WorkflowAssumption DEF PlanTurn, Fresh, PlanForm
  <2> QED BY <2>1, <2>2 DEF Owner!Next
<1> QED BY <1>1, <1>2, <1>3, Turns, OwnerTurn

\* Whatever is replanned, carried over, retried, cancelled or refused, a workflow
\* is what its owner was promised: budgets that are only spent and never promised
\* twice, sources that succeed before what needs them, replaced work that never
\* succeeds, and one success for a key (_settle_plan_locked,
\* _deliver_dependencies_locked, claim_attempt_locked, settle).
THEOREM OwnerContractKept == Spec => KeepsOwnerContract
<1>1. Funds /\ Slots /\ [Next]_vars => Funds' /\ Slots'
  BY FundsStep, SlotsStep
<1>2. Funds /\ Slots /\ Funds' /\ [Next]_vars
        => [Owner!Next]_<<Phase, Halted, Awaited, Reserved, Owner!books>>
  BY OwnerStep
<1> QED BY <1>1, <1>2, FundsInit, SlotsInit, OwnerInit, PTL
        DEF Spec, KeepsOwnerContract, Owner!Spec, Owner!books

\* One workflow keeps both: what its owner sees, and what its children are
\* (_settle_plan_locked, Manager.settle, schedule).
THEOREM ContractsKept == Spec => KeepsContracts
BY ChildrenAreTasks, OwnerContractKept DEF KeepsContracts
=============================================================================
