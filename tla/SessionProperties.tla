-------------------------- MODULE SessionProperties --------------------------
(***************************************************************************)
(* What the native session lifecycle must keep true.                        *)
(***************************************************************************)
EXTENDS SessionLifecycle

\* Rows and callers are as described; a job that is out of "pending" has a
\* session, and a caller between two steps knows its session.
TypeOK ==
  /\ session \in [Sessions ->
       [state : {"absent", "new", "warming", "ready", "running", "completed", "failed",
                 "recovering"},
        step : Commands \cup {"none"},
        status : [Commands -> {"pending", "running", "succeeded"}]]]
  /\ job \in [Jobs ->
       [state : {"absent", "pending", "ready", "running", "succeeded", "failed",
                 "cancelled", "needs_operator"},
        session : Sessions \cup {None}, attempts : 0..MaxAttempts]]
  /\ \A j \in Jobs : job[j].state \notin {"absent", "pending"} => job[j].session # None
  /\ \A j \in Jobs, n \in 1..MaxAttempts :
       run[j][n] \in {"none", "running", "succeeded", "failed", "cancelled", "unknown"}
  /\ \A i, j \in Jobs : transfer[i][j] = Nothing \/ i \in Range(Deps[j])
  /\ \A p \in Callers : caller[p].pc # "idle" => caller[p].session \in Sessions

Runs == {r \in Jobs \X (1..MaxAttempts) : run[r[1]][r[2]] = "running"}

\* With rows as described, a run has its session to itself from its claim to its
\* end, whichever jobs name the session, take it over or are started at the same
\* moment: it is its job's last, no other run is in the session, both commands
\* stay recorded and nobody sends another.  The session's own row may say "ready"
\* meanwhile, because a late warm-up overwrites its state; that another job does
\* not start there rests on the rows of the runs (start_job, warm_session,
\* complete_run, retry_warmup, recover).
RunHoldsSession ==
  /\ TypeOK
  /\ \A r \in Runs : LET s == job[r[1]].session IN
       /\ session[s].state \in {"running", "ready"} /\ Prepared(s)
       /\ job[r[1]].state = "running" /\ job[r[1]].attempts = r[2]
       /\ \A q \in Runs : job[q[1]].session = s => q = r
       /\ \A p \in Callers : caller[p].pc \in {"executing", "returned"} => caller[p].session # s

\* A command is sent only when no earlier sending of it is in doubt, or an
\* operator has confirmed it since, and /rpa-init only in a session whose
\* /compact is recorded; although recover, failed retries and other callers may
\* come in between (warm_session, retry_warmup, recover).
SentSafely ==
  [][\A p \in Callers : caller[p].pc = "step" /\ caller'[p].pc = "executing" =>
       LET s == caller[p].session
           c == Head(caller[p].todo)
       IN /\ <<s, c>> \notin doubt
          /\ c = "rpa" => session[s].status["compact"] = "succeeded"]_vars

\* A run given up as unknown is the last of its job, and no dependent of it is
\* released, whatever completes late (recover, retry_job, complete_run).
UnknownRunIsLast ==
  \A j \in Jobs, n \in 1..MaxAttempts : run[j][n] = "unknown" =>
    /\ job[j].attempts = n /\ job[j].state = "needs_operator"
    /\ \A c \in Jobs : j \in Range(Deps[c]) => job[c].state \in {"absent", "pending"}

\* A job that may run has been given the result of every dependency, and each
\* was given from the run that succeeded (_prepare_dependents_locked).
GivenInFull ==
  \A j \in Jobs : job[j].state \notin {"absent", "pending"} =>
    \A i \in Range(Deps[j]) :
      LET t == transfer[i][j] IN
      /\ t.session = job[i].session /\ t.attempt \in 1..MaxAttempts
      /\ run[i][t.attempt] = "succeeded"

Waiting == {j \in Jobs : /\ job[j].state = "pending"
                         /\ \A d \in Range(Deps[j]) : job[d].state = "succeeded"}

\* A job whose dependencies have all succeeded does not wait for ever, also when
\* it was registered after they had (complete_run, ready_jobs).
DependentsReleased == Waiting # {} ~> Waiting = {}

----------------------------------------------------------------------------
\* What the documentation says, and the code does not do

\* docs/exec.md: "a recorded successful command is never run again"
RecordedNeverRerun ==
  [][\A p \in Callers : caller[p].pc = "step" /\ caller'[p].pc = "executing" =>
       <<caller[p].session, Head(caller[p].todo)>> \notin recorded]_vars
=============================================================================
