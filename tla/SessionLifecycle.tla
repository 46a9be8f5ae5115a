--------------------------- MODULE SessionLifecycle ---------------------------
(***************************************************************************)
(* Native sessions and jobs (session_lifecycle.SessionLifecycle, and        *)
(* runner.Controller._warm_coddy as its caller).  A session is warmed by    *)
(* two commands with effects elsewhere, each between two transactions, and  *)
(* then serves one run at a time.  A job waits for its dependencies and     *)
(* takes over, or branches, the session of the first.                       *)
(***************************************************************************)
EXTENDS Naturals, Sequences, Functions

CONSTANTS
  Jobs,         \* native jobs; a session created for job j is named j
  Named,        \* sessions created by create_session or ensure_session
  None,         \* no session, no job
  Deps,         \* Deps[j]: the dependencies of j, in the order of its document
  Mention,      \* Mention[j]: the session that j names, or None
  ReplaySafe,   \* jobs with metadata.replay_safe
  Callers,      \* processes that warm sessions and start jobs
  MaxAttempts   \* bound: runs of a job

Sessions == Jobs \cup Named
Commands == {"compact", "rpa"}   \* WARMUP_STEPS

ASSUME SessionAssumption ==
  /\ Jobs \cap Named = {} /\ None \notin Sessions /\ ReplaySafe \subseteq Jobs
  /\ Deps \in [Jobs -> Seq(Jobs)] /\ Mention \in [Jobs -> Named \cup {None}]
  /\ MaxAttempts \in Nat \ {0}

VARIABLES
  session,   \* session rows
  job,       \* job rows
  run,       \* run[j][n]: the state of the n-th run of j
  transfer,  \* transfer[i][j]: what j was given of i
  caller,    \* each caller inside start_job, warm_session or retry_warmup
  doubt,     \* history: executions whose outcome nobody knows and nobody resolved
  recorded   \* history: commands recorded as succeeded

vars == <<session, job, run, transfer, caller, doubt, recorded>>
rows == <<session, job, run, transfer>>
past == <<doubt, recorded>>

Absent == [state |-> "absent", step |-> "none",
           status |-> [c \in Commands |-> "pending"]]
New    == [Absent EXCEPT !.state = "new"]

NoJob  == [state |-> "absent", session |-> None, attempts |-> 0]
Nothing == [session |-> None, attempt |-> 0]

Free == [pc |-> "idle", session |-> None, job |-> None, todo |-> <<>>, limited |-> FALSE]

Init ==
  /\ session = [s \in Sessions |-> IF s \in Named THEN New ELSE Absent]
  /\ job = [j \in Jobs |-> NoJob]
  /\ run = [j \in Jobs |-> [n \in 1..MaxAttempts |-> "none"]]
  /\ transfer = [i \in Jobs |-> [j \in Jobs |-> Nothing]]
  /\ caller = [p \in Callers |-> Free]
  /\ doubt = {} /\ recorded = {}

Prepared(s) == \A c \in Commands : session[s].status[c] = "succeeded"
Busy(s) == \E j \in Jobs, n \in 1..MaxAttempts : job[j].session = s /\ run[j][n] = "running"

Goto(p, pc) == caller' = [caller EXCEPT ![p].pc = pc]
Leave(p) == caller' = [caller EXCEPT ![p] = Free]

----------------------------------------------------------------------------
\* Warm-up: _warmup_claim and warm_session, from the transaction that claims
\* the session to the one that makes it ready

Warmable(row) ==
  \/ row.state = "new"
  \/ row.state = "ready" /\ \E c \in Commands : row.status[c] # "succeeded"

\* the steps that are not recorded, in the order of WARMUP_STEPS
Missing(row) ==
  LET open(c) == IF row.status[c] = "succeeded" THEN <<>> ELSE <<c>>
  IN open("compact") \o open("rpa")

\* where a caller goes once the session is ready
Onward(p) == IF caller[p].job = None THEN Leave(p) ELSE Goto(p, "start")

\* With nothing to do, warm_session still goes on to its last transaction.
ClaimWarmup(p) ==
  LET s == caller[p].session IN
  /\ caller[p].pc = "claim"
  /\ \/ /\ session[s].state = "ready" /\ Prepared(s)
        /\ caller' = [caller EXCEPT ![p].pc = "step", ![p].todo = <<>>]
        /\ UNCHANGED session
     \/ /\ Warmable(session[s])
        /\ session' = [session EXCEPT ![s].state = "warming", ![s].step = "compact"]
        /\ caller' = [caller EXCEPT ![p].pc = "step", ![p].todo = Missing(session[s])]
     \/ /\ ~Warmable(session[s]) /\ ~(session[s].state = "ready" /\ Prepared(s))
        /\ Leave(p) /\ UNCHANGED session
  /\ UNCHANGED <<job, run, transfer, past>>

\* Seeded fault: the row says failed although the outcome is unknown.
FaultyUncertain(s) == session' = [session EXCEPT ![s].state = "failed"]

\* _warmup_uncertain and _warmup_failed look at no state of the row.
Uncertain(s) == session' = [session EXCEPT ![s].state = "recovering"]
Failed(s)    == session' = [session EXCEPT ![s].state = "failed"]

\* The deadline of the job has passed, before a command or after its success.
DeadlinePassed(p) ==
  /\ caller[p].pc \in {"step", "returned"} /\ caller[p].todo # <<>>
  /\ caller[p].limited
  /\ Failed(caller[p].session) /\ Leave(p)
  /\ UNCHANGED <<job, run, transfer, past>>

\* A step that was recorded meanwhile is skipped; one that is running is run.
BeginStep(p) ==
  LET s == caller[p].session  c == Head(caller[p].todo) IN
  /\ caller[p].pc = "step" /\ caller[p].todo # <<>>
  /\ IF session[s].status[c] = "succeeded"
     THEN /\ caller' = [caller EXCEPT ![p].todo = Tail(@)]
          /\ UNCHANGED session
     ELSE /\ session' = [session EXCEPT ![s].status[c] = "running", ![s].step = c]
          /\ Goto(p, "executing")
  /\ UNCHANGED <<job, run, transfer, past>>

\* The executor returns without an error.
Execute(p) ==
  /\ caller[p].pc = "executing"
  /\ Goto(p, "returned")
  /\ UNCHANGED <<rows, past>>

\* A classified error, or False: the command had no effect.
Rejected(p) ==
  /\ caller[p].pc = "executing"
  /\ Failed(caller[p].session) /\ Leave(p)
  /\ UNCHANGED <<job, run, transfer, past>>

\* An unknown or unclassified error.
OutcomeUnknown(p) ==
  LET sc == <<caller[p].session, Head(caller[p].todo)>> IN
  /\ caller[p].pc = "executing"
  /\ Uncertain(caller[p].session) /\ Leave(p)
  /\ doubt' = doubt \cup {sc}
  /\ UNCHANGED <<job, run, transfer, recorded>>

RecordStep(p) ==
  LET s == caller[p].session  c == Head(caller[p].todo) IN
  /\ caller[p].pc = "returned"
  /\ session' = [session EXCEPT ![s].status[c] = "succeeded", ![s].step = c]
  /\ caller' = [caller EXCEPT ![p].pc = "step", ![p].todo = Tail(@)]
  /\ recorded' = recorded \cup {<<s, c>>}
  /\ UNCHANGED <<job, run, transfer, doubt>>

\* The last transaction looks at both commands and at no state of the row: what
\* another caller has made of the session meanwhile becomes "ready" again.
FinishWarmup(p) ==
  LET s == caller[p].session IN
  /\ caller[p].pc = "step" /\ caller[p].todo = <<>>
  /\ IF Prepared(s)
     THEN /\ session' = [session EXCEPT ![s].state = "ready", ![s].step = "none"]
          /\ Onward(p)
     ELSE Leave(p) /\ UNCHANGED session
  /\ UNCHANGED <<job, run, transfer, past>>

\* adopt_prepared_session: the remote session shows both commands.
Adopt(p) ==
  LET s == caller[p].session IN
  /\ caller[p].pc = "adopt"
  /\ IF session[s].state = "new"
     THEN /\ session' = [session EXCEPT ![s] =
               [state |-> "ready", step |-> "none", status |-> [c \in Commands |-> "succeeded"]]]
          /\ recorded' = recorded \cup ({s} \X Commands)
     ELSE UNCHANGED <<session, recorded>>
  /\ Leave(p)
  /\ UNCHANGED <<job, run, transfer, doubt>>

\* retry_warmup: the step that failed is pending again, and the session is
\* warmed, without a deadline.
MayRetry(row, confirmed) ==
  /\ row.state \in {"failed", "recovering"}
  /\ row.state = "recovering" => confirmed
  /\ row.step \in Commands

RetryWarmup(p, s, confirmed) ==
  IF MayRetry(session[s], confirmed)
  THEN /\ session' = [session EXCEPT ![s].state = "new", ![s].status[session[s].step] = "pending"]
       /\ caller' = [caller EXCEPT ![p] = [Free EXCEPT !.pc = "claim", !.session = s]]
       /\ doubt' = IF confirmed THEN doubt \ ({s} \X Commands) ELSE doubt
  ELSE Leave(p) /\ UNCHANGED <<session, doubt>>

\* The operator resolves a warm-up whose outcome is unknown.
OperatorRetries(p, s) ==
  /\ caller[p].pc = "idle" /\ MayRetry(session[s], TRUE)
  /\ RetryWarmup(p, s, TRUE)
  /\ UNCHANGED <<job, run, transfer, recorded>>

\* _warm_coddy: the row is read; a failed session is retried, a new one may be
\* adopted, any other is warmed before the task's deadline.
RunnerWarms(p, s) ==
  /\ caller[p].pc = "idle" /\ session[s].state # "absent"
  /\ \E pc \in {"claim", "retry", "adopt"} :
       /\ pc = "retry" <=> session[s].state = "failed"
       /\ pc = "adopt" => session[s].state = "new"
       /\ caller' = [caller EXCEPT ![p] =
            [Free EXCEPT !.pc = pc, !.session = s, !.limited = (pc = "claim")]]
  /\ UNCHANGED <<rows, past>>

RunnerRetries(p) ==
  /\ caller[p].pc = "retry"
  /\ RetryWarmup(p, caller[p].session, FALSE)
  /\ UNCHANGED <<job, run, transfer, recorded>>

----------------------------------------------------------------------------
\* Jobs: register, transfer, start, complete, retry

\* the consumers of i that may still take its session
Consumers(i, js) == {j \in Jobs : /\ js[j].state \notin {"absent", "cancelled", "failed"}
                                  /\ i \in Range(Deps[j])}

\* Seeded faults: one dependency that has succeeded is enough; only a job with
\* a single dependency is released.
FaultyReleased(i, js) == {j \in Jobs : js[j].state = "pending" /\ i \in Range(Deps[j])}
FaultySingle(i, js) == {j \in Jobs : js[j].state = "pending" /\ Deps[j] = <<i>> /\ js[i].state = "succeeded"}

\* the jobs that the success of i makes ready
Released(i, js) == {j \in Jobs : /\ js[j].state = "pending" /\ i \in Range(Deps[j])
                                 /\ \A d \in Range(Deps[j]) : js[d].state = "succeeded"}

\* the session that j takes: the one it names, or that of its first dependency
\* when nobody else may want it, or a branch
Target(j, i, js) == IF Mention[j] # None THEN Mention[j]
                    ELSE IF Len(Deps[j]) = 1 /\ Consumers(i, js) = {j} THEN js[i].session
                    ELSE j

\* _prepare_dependents_locked for each job of done
PrepareDependents(done, js, ss) ==
  LET ready == UNION {Released(i, js) : i \in done}
      from(j) == CHOOSE i \in done : j \in Released(i, js)
      target(j) == Target(j, from(j), js)
      given == {g \in Jobs \X ready : g[1] \in Range(Deps[g[2]]) /\ transfer[g[1]][g[2]] = Nothing}
  IN /\ job' = [j \in Jobs |-> IF j \in ready
                  THEN [js[j] EXCEPT !.state = "ready", !.session = target(j)] ELSE js[j]]
     /\ session' = [s \in Sessions |-> IF s \in ready /\ target(s) = s THEN New ELSE ss[s]]
     /\ transfer' = [i \in Jobs |-> [j \in Jobs |-> IF <<i, j>> \in given
                       THEN [session |-> js[i].session, attempt |-> js[i].attempts]
                       ELSE transfer[i][j]]]

RegisterJob(j) ==
  /\ job[j].state = "absent"
  /\ \A d \in Range(Deps[j]) : job[d].state # "absent"
  /\ LET own == Mention[j] = None /\ Deps[j] = <<>> IN
     /\ session' = IF own THEN [session EXCEPT ![j] = New] ELSE session
     /\ job' = [job EXCEPT ![j] = [attempts |-> 0,
                  session |-> IF own THEN j ELSE Mention[j],
                  state |-> IF Deps[j] = <<>> THEN "ready" ELSE "pending"]]
  /\ UNCHANGED <<run, transfer, caller, past>>

\* ready_jobs: whatever no completion has released yet.
ReadyJobs ==
  LET done == {i \in Jobs : job[i].state = "succeeded"} IN
  /\ \E i \in done : Released(i, job) # {}
  /\ PrepareDependents(done, job, session)
  /\ UNCHANGED <<run, caller, past>>

\* start_job reads the job and its session, and warms a new session first.
ReadJob(p, j) ==
  /\ caller[p].pc = "idle" /\ job[j].state = "ready"
  /\ LET s == job[j].session IN
     caller' = [caller EXCEPT ![p] = [Free EXCEPT
       !.pc = IF session[s].state = "new" THEN "claim" ELSE "start",
       !.session = s, !.job = j, !.limited = TRUE]]
  /\ UNCHANGED <<rows, past>>

\* Seeded fault: one run for each job, and no look at the session's other jobs.
FaultyStartable(j) == LET s == job[j].session IN
  job[j].state = "ready" /\ Prepared(s) /\ session[s].state \notin {"new", "warming", "recovering"}

Startable(j) == LET s == job[j].session IN
  /\ job[j].state = "ready" /\ Prepared(s)
  /\ session[s].state \notin {"new", "warming", "recovering"}
  /\ ~Busy(s)

StartRun(p) ==
  LET j == caller[p].job  n == job[caller[p].job].attempts + 1 IN
  /\ caller[p].pc = "start"
  /\ IF Startable(j)
     THEN /\ n <= MaxAttempts   \* bound of the model
          /\ run' = [run EXCEPT ![j][n] = "running"]
          /\ job' = [job EXCEPT ![j].state = "running", ![j].attempts = n]
          /\ session' = [session EXCEPT ![job[j].session].state = "running"]
     ELSE UNCHANGED <<run, job, session>>
  /\ Leave(p)
  /\ UNCHANGED <<transfer, past>>

\* complete_run: only a running run completes; a late completion of a run that
\* recover gave up changes nothing.
CompleteRun(j, n, state) ==
  LET s == job[j].session
      js == [job EXCEPT ![j].state = state]
      ss == [session EXCEPT ![s].state = IF state = "succeeded" THEN "completed" ELSE "failed"]
  IN /\ run[j][n] = "running"
     /\ run' = [run EXCEPT ![j][n] = state]
     /\ IF state = "succeeded" THEN PrepareDependents({j}, js, ss)
        ELSE job' = js /\ session' = ss /\ UNCHANGED transfer
     /\ UNCHANGED <<caller, past>>

\* Seeded fault: any job that has ended may be retried.
FaultyRetried(j) == job[j].state \in {"failed", "needs_operator"}

Retried(j) == /\ job[j].state = "failed" /\ j \in ReplaySafe
              /\ session[job[j].session].state # "recovering"

RetryJob(j) ==
  /\ Retried(j)
  /\ job[j].attempts < MaxAttempts   \* bound of the model
  /\ job' = [job EXCEPT ![j].state = "ready"]
  /\ UNCHANGED <<session, run, transfer, caller, past>>

----------------------------------------------------------------------------
\* Crashes, and the evidence that recover makes of them

\* The process dies; a command it was executing may have had its effect.
Crash(p) ==
  /\ caller[p].pc # "idle"
  /\ LET sc == <<caller[p].session, Head(caller[p].todo)>> IN
     IF caller[p].pc \in {"executing", "returned"}
     THEN doubt' = doubt \cup {sc} ELSE UNCHANGED doubt
  /\ Leave(p)
  /\ UNCHANGED <<rows, recorded>>

InFlight(s) == /\ session[s].state = "warming"
               /\ session[s].step \in Commands /\ session[s].status[session[s].step] = "running"

\* recover, after a restart: no process is inside the lifecycle.
Recover ==
  /\ \A p \in Callers : caller[p].pc = "idle"
  /\ \E s \in Sessions : InFlight(s) \/ Busy(s)
  /\ run' = [j \in Jobs |-> [n \in 1..MaxAttempts |->
               IF run[j][n] = "running" THEN "unknown" ELSE run[j][n]]]
  /\ job' = [j \in Jobs |-> IF \E n \in 1..MaxAttempts : run[j][n] = "running"
               THEN [job[j] EXCEPT !.state = "needs_operator"] ELSE job[j]]
  /\ session' = [s \in Sessions |-> IF Busy(s) \/ InFlight(s)
                   THEN [session[s] EXCEPT !.state = "recovering"] ELSE session[s]]
  /\ UNCHANGED <<transfer, caller, past>>

Warming(p) == \/ ClaimWarmup(p) \/ DeadlinePassed(p) \/ BeginStep(p) \/ Execute(p)
              \/ Rejected(p) \/ OutcomeUnknown(p) \/ RecordStep(p) \/ FinishWarmup(p)
              \/ Adopt(p) \/ RunnerRetries(p) \/ StartRun(p)

Next ==
  \/ \E p \in Callers : Warming(p) \/ Crash(p)
  \/ \E p \in Callers, s \in Sessions : RunnerWarms(p, s) \/ OperatorRetries(p, s)
  \/ \E p \in Callers, j \in Jobs : ReadJob(p, j)
  \/ \E j \in Jobs : RegisterJob(j) \/ RetryJob(j)
  \/ \E j \in Jobs, n \in 1..MaxAttempts, state \in {"succeeded", "failed", "cancelled"} :
       CompleteRun(j, n, state)
  \/ ReadyJobs \/ Recover

Spec == Init /\ [][Next]_vars

\* What the caller of ready_jobs, which is not part of the program, must
\* provide: it is called again and again.
FairSpec == Spec /\ WF_vars(ReadyJobs)
=============================================================================
