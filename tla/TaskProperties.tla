--------------------------- MODULE TaskProperties ---------------------------
(***************************************************************************)
(* What the task core promises: the type invariant, the safety invariants, *)
(* the action properties and the liveness of TaskLifecycle.                *)
(***************************************************************************)
EXTENDS TaskLifecycle, FiniteSetsExt

WorkerRow == [registered : BOOLEAN, slots : Nat, offers : SUBSET Runtimes,
              lastSeen : Nat]

CheckRow == {NoCheck} \cup [stage : {"listed", "valid", "confirmed", "rejected"},
                            number : Numbers, intent : {"Run", "Cancel"}]

\* Every table, process and file holds a value of its type; a task's current
\* attempt, when it has one, is one of its rows, and only an attempt ended
\* before its claim is a confirmed non-start (tables of store.py).
TypeOK ==
  /\ now \in Nat
  /\ task \in [Tasks -> TaskRow]
  /\ attempt \in [Attempts -> AttemptRow]
  /\ worker \in [Workers -> WorkerRow]
  /\ command \in [Keys -> [kind : {"none", "submit", "cancel"}, task : Tasks \cup {0}]]
  /\ lastWorker \in Workers \cup {0}
  /\ check \in [Tasks -> CheckRow]
  /\ proc \in [Procs -> ProcRow]
  /\ launched \in [Workers -> SUBSET Procs]
  /\ artifact \in [Attempts -> {"none", "good", "bad"}]
  /\ faults \in Nat
  /\ \A t \in Tasks : task[t].current \in Numbers \cup {0}
  /\ \A a \in Attempts : attempt[a].kind = "not_started" => attempt[a].state = "Cancelled"

----------------------------------------------------------------------------
\* Safety

\* The reservations of all attempts together never exceed max_active, although
\* one tick places several tasks and settles others (schedule, settle).
CapacityBound == Cardinality(Reserved) <= MaxActive

\* A slot is held exactly by the current attempt of a task that is Scheduled or
\* Running: no settled, superseded or finished attempt keeps or loses one
\* (settle, schedule, and the early ends of the sweep).
SlotsMatchTasks ==
  \A a \in Attempts :
    attempt[a].reserved <=> /\ task[a[1]].current = a[2]
                            /\ task[a[1]].status \in {"Scheduled", "Running"}

\* An attempt that has not ended holds a slot, and a runner past its claim works
\* on the current attempt of its task, which records it as its runner and has
\* not ended: capacity is never given back while the work it stands for may
\* still have effects (settle, the sweep's worker-lost and runner-lost branches,
\* run_attempt's claim).
ExecutionHoldsSlot ==
  /\ \A a \in Attempts :
       attempt[a].state \in {"Queued", "Launching", "Running", "Unknown"} => attempt[a].reserved
  /\ \A p \in Procs : Executing(p) =>
       /\ attempt[Of(p)].runner = p[3]
       /\ attempt[Of(p)].state \in {"Launching", "Running", "Unknown"}
       /\ task[p[1]].current = p[2]

\* At no time do two runners execute work of the same task, whatever crashes,
\* relaunches, lost workers and retries happened before.
OneRunnerPerTask ==
  \A p, q \in Procs : Executing(p) /\ Executing(q) /\ p[1] = q[1] => p = q

\* the reports a runner may still send: only its final one once it concludes
Reportable(p) ==
  IF proc[p].pc = "concluding" THEN {FinalState(proc[p].outcome)}
  ELSE {"Running", "Succeeded", "Failed", "Cancelled", "Unknown"}

\* A runner whose attempt the manager has ended as Unknown is never heard again:
\* by its sequence number, or, when a refusal was swallowed by a warm-up and
\* moved that number past the row's, by the state it would report.  Any other
\* executing runner is level with the row: its reports are not lost as late ones
\* (observe, Controller.report, _warm_coddy).
OverruledUnheard ==
  \A p \in Procs : Executing(p) =>
    IF attempt[Of(p)].state = "Unknown"
    THEN \A state \in Reportable(p) : ~Accepted(p, state)
    ELSE proc[p].sequence = attempt[Of(p)].sequence

\* A Succeeded task was never asked to stop, and stands on a current attempt
\* that reported success by the deadline and whose result was not rejected
\* (tick's deadline sweep against a late report; _validate_and_settle).
AcceptedOutcome ==
  \A t \in Tasks : task[t].status = "Succeeded" =>
    /\ task[t].intent = "Run"
    /\ attempt[Current(t)].state = "Succeeded"
    /\ attempt[Current(t)].settled
    /\ attempt[Current(t)].kind = "none"
    /\ attempt[Current(t)].finished <= task[t].deadline

\* A task runs again only after every earlier attempt ended as a confirmed
\* non-start, or by a failure its replay-safe policy names; the executions
\* that count never exceed max_attempts (settle, executions).
RetryDiscipline ==
  \A t \in Tasks : Present(t) =>
    /\ Executions(t) <= SpecOf[t].maxAttempts
    /\ \A m, n \in Numbers :
         m < n /\ attempt[<<t, n>>].state # "None" =>
           \/ attempt[<<t, m>>].kind = "not_started"
           \/ SpecOf[t].replaySafe /\ attempt[<<t, m>>].kind \in SpecOf[t].on

SettledRows(t) == {n \in Numbers : attempt[<<t, n>>].settled}

Used(t, S) == SumFunctionOnSet([n \in Numbers |-> attempt[<<t, n>>].known], S)

\* Every table and process is well typed, a task is charged for each settled
\* attempt exactly once, and its usage is unknown exactly when one of them is
\* (settle, against repeated validations, manager crashes and retries).
UsageConservation ==
  /\ TypeOK
  /\ \A t \in Tasks :
       /\ task[t].tokensUsed = Used(t, SettledRows(t))
       /\ task[t].usageUnknown <=> \E n \in SettledRows(t) : ~attempt[<<t, n>>].usageKnown

\* A provider call is made only while the known usage of all attempts of the
\* task is below max_tokens and none of it is unknown, although the runner
\* works from figures it read at its claim (Controller.request).
RequestWithinBudget ==
  \A p \in Procs :
    proc[p].pc = "requesting" /\ SpecOf[p[1]].maxTokens > 0 =>
      LET others == {n \in Numbers : n # p[2] /\ attempt[<<p[1], n>>].state # "None"}
      IN /\ Used(p[1], others) + proc[p].tokens < SpecOf[p[1]].maxTokens
         /\ \A n \in others : attempt[<<p[1], n>>].usageKnown

----------------------------------------------------------------------------
\* Action properties

\* Nothing changes a terminal task or any of its attempts: not a late runner, a
\* late cancel, a repeated tick or an unfinished validation.
TerminalFrozen ==
  [][\A t \in Tasks : task[t].status \in Terminal =>
       /\ task'[t] = task[t]
       /\ \A n \in Numbers : attempt'[<<t, n>>] = attempt[<<t, n>>]]_vars

\* An Unknown attempt changes only when the operator resolves it, and keeps its
\* slot until then: no retry, no late report and no cancel ends it.
UnknownAwaitsOperator ==
  [][\A a \in Attempts : attempt[a].state = "Unknown" =>
       \/ attempt'[a] = attempt[a]
       \/ /\ attempt'[a].state = "Failed" /\ attempt'[a].kind = "permanent"
          /\ attempt'[a].reserved]_vars

\* A claimed attempt is never claimed again: a launch is not replayed, whatever
\* its first runner did (run_attempt; worker.py launches repeatedly).
ClaimedOnce ==
  [][\A a \in Attempts : attempt[a].runner # 0 =>
       attempt'[a].runner = attempt[a].runner]_vars

----------------------------------------------------------------------------
\* Liveness

\* Every accepted task is eventually terminal, or waits for the operator on an
\* attempt whose outcome is Unknown.
EventuallyDecided ==
  \A t \in Tasks :
    Present(t) ~> \/ task[t].status \in Terminal
                  \/ HasCurrent(t) /\ attempt[Current(t)].state = "Unknown"
=============================================================================
