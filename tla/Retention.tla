------------------------------ MODULE Retention ------------------------------
(***************************************************************************)
(* Expiry of results and deletion of old tasks (Store.expire_artifacts and *)
(* Store.retain).  A deletion is an intent row that moves through three    *)
(* phases, each with a commit of its own; retain may be run by several     *)
(* processes, any of which may die between two commits, while callers go   *)
(* on sending commands, also to tasks that are half deleted.               *)
(***************************************************************************)
EXTENDS Integers, FiniteSets

CONSTANTS
  Tasks,      \* task ids (integers: intents of one time are ordered by id)
  Plain,      \* bound: tasks that no workflow refers to
  Keys,       \* idempotency keys
  Retainers,  \* processes that call retain
  Retention,  \* settings.retention_seconds
  Horizon,    \* settings.idempotency_horizon
  MaxAttempts,  \* bound: attempts of a task
  MaxTime     \* bound: the clock stops here

ASSUME RetentionAssumption ==
  /\ Tasks \subseteq Int /\ Plain \subseteq Tasks
  /\ Retention \in Nat /\ Horizon \in Nat /\ MaxAttempts \in Nat /\ MaxTime \in Nat

VARIABLES
  now,
  task,      \* task rows: status, finish time, and the role in a workflow
  attempts,  \* attempts[t][n]: the n-th attempt row of t, "result" when it names its file
  events,    \* events[t]: event rows of t exist
  file,      \* file[t]: the attempts of t whose file, artifacts/<attempt>.json, is on disk
  intent,    \* table retention_intents
  command,   \* table commands: the task and the time each key was accepted
  retainer   \* each call of retain: where it is, and its `now`

vars == <<now, task, attempts, events, file, intent, command, retainer>>
rows == <<task, attempts, events, file, intent, command>>

Ended == {"Succeeded", "Failed", "Cancelled"}

\* what rows of workflow_children and workflow_roots say of a task
Roles == {"none", "child", "planner"}

Numbers == 1..MaxAttempts
NoAttempts == [n \in Numbers |-> "none"]
Idle == [step |-> "idle", at |-> 0]
NoIntent == [phase |-> "none", named |-> {}, created |-> 0]
Unused   == [task |-> 0, accepted |-> 0, used |-> FALSE]

Init ==
  /\ now = 0
  /\ \E role \in [Tasks -> Roles] :
       /\ \A t \in Plain : role[t] = "none"
       /\ task = [t \in Tasks |-> [status |-> "Absent", finished |-> 0, role |-> role[t]]]
  /\ attempts = [t \in Tasks |-> NoAttempts]
  /\ events = [t \in Tasks |-> FALSE]
  /\ file = [t \in Tasks |-> {}]
  /\ intent = [t \in Tasks |-> NoIntent]
  /\ command = [k \in Keys |-> Unused]
  /\ retainer = [r \in Retainers |-> Idle]

Row(t) == task[t].status \notin {"Absent", "Deleted"}   \* the task row exists
Rows(t) == {n \in Numbers : attempts[t][n] # "none"}
Reported(t) == {n \in Numbers : attempts[t][n] = "result"}
Current(t, n) == n \in Rows(t) /\ \A m \in Rows(t) : m <= n   \* current_attempt_id

----------------------------------------------------------------------------
\* Callers, and the manager that ends tasks

\* a key in use answers its receipt and changes nothing
Receive(k, t) ==
  /\ ~command[k].used
  /\ command' = [command EXCEPT ![k] = [task |-> t, accepted |-> now, used |-> TRUE]]
  /\ events' = [events EXCEPT ![t] = TRUE]

Submit(k, t) ==
  /\ Receive(k, t)
  /\ task[t].status = "Absent"
  /\ task' = [task EXCEPT ![t].status = "Live"]
  /\ UNCHANGED <<now, attempts, file, intent, retainer>>

Cancellable(t) == task[t].status \in Ended

\* cancel of a task that has ended: a command and the event
\* task.cancel_ignored_terminal
LateCancel(k, t) ==
  /\ Receive(k, t)
  /\ Cancellable(t)
  /\ UNCHANGED <<now, task, attempts, file, intent, retainer>>

\* an admission: the attempts of a task are numbered
Attempt(t, n) ==
  /\ task[t].status = "Live" /\ Rows(t) = 1..(n - 1)
  /\ attempts' = [attempts EXCEPT ![t][n] = "plain"]
  /\ UNCHANGED <<now, task, events, file, intent, command, retainer>>

\* The runner writes the file of its attempt, which no row names as yet.  It may
\* do so late: a task can be ended over it (Store.resolve takes the operator's word).
Publish(t, n) ==
  /\ attempts[t][n] = "plain" /\ n \notin file[t]
  /\ file' = [file EXCEPT ![t] = @ \cup {n}]
  /\ UNCHANGED <<now, task, attempts, events, intent, command, retainer>>

\* Its report follows in a transaction of its own, unless it is refused or the
\* runner has died.
Report(t, n) ==
  /\ attempts[t][n] = "plain" /\ n \in file[t]
  /\ task[t].status = "Live" /\ Current(t, n)
  /\ attempts' = [attempts EXCEPT ![t][n] = "result"]
  /\ UNCHANGED <<now, task, events, file, intent, command, retainer>>

\* a task ends; with success only by a result that was reported
Finish(t) ==
  /\ task[t].status = "Live"
  /\ \E status \in Ended :
       /\ status = "Succeeded" => \E n \in Reported(t) : Current(t, n)
       /\ task' = [task EXCEPT ![t].status = status, ![t].finished = now]
  /\ UNCHANGED <<now, attempts, events, file, intent, command, retainer>>

----------------------------------------------------------------------------
\* Store.expire_artifacts: one transaction, that unlinks the files itself

\* the attempt whose file is past its time, if any
Expired(t) == {n \in Reported(t) : /\ Current(t, n) /\ task[t].status = "Succeeded"
                                   /\ task[t].finished <= now - Retention
                                   /\ task[t].role # "child"}

ExpireArtifacts ==
  /\ \E t \in Tasks : Expired(t) \cap file[t] # {}
  /\ file' = [t \in Tasks |-> file[t] \ Expired(t)]
  /\ UNCHANGED <<now, task, attempts, events, intent, command, retainer>>

----------------------------------------------------------------------------
\* Store.retain

Goto(r, step) == retainer' = [retainer EXCEPT ![r] =
                   IF step = "idle" THEN Idle ELSE [@ EXCEPT !.step = step]]

Old(t, at) == /\ task[t].status \in Ended
              /\ task[t].finished <= at - Retention
              /\ task[t].role = "none"

\* Seeded fault: the files to delete are looked for when the rows are gone.
FaultyMarked(t, at) == [phase |-> "dependents", created |-> at, named |-> {}]

\* the intent of t, with the paths its attempts name
Marked(t, at) == [phase |-> "dependents", created |-> at, named |-> Reported(t)]

\* First transaction: an intent for every old task that has none.
Mark(r) ==
  /\ retainer[r].step = "idle"
  /\ intent' = [t \in Tasks |-> IF Old(t, now) /\ intent[t].phase = "none"
                                THEN Marked(t, now) ELSE intent[t]]
  /\ retainer' = [retainer EXCEPT ![r] = [step |-> "phases", at |-> now]]
  /\ UNCHANGED <<now, task, attempts, events, file, command>>

Pending == {t \in Tasks : intent[t].phase # "none"}

\* ORDER BY created_at, task_id LIMIT 1
First(t) == /\ t \in Pending
            /\ \A u \in Pending :
                 \/ intent[t].created < intent[u].created
                 \/ intent[t].created = intent[u].created /\ t <= u

DeleteDependents(t) == /\ attempts' = [attempts EXCEPT ![t] = NoAttempts]
                       /\ events' = [events EXCEPT ![t] = FALSE]

DropDependents(r, t) ==
  /\ retainer[r].step = "phases" /\ First(t) /\ intent[t].phase = "dependents"
  /\ DeleteDependents(t)
  /\ intent' = [intent EXCEPT ![t].phase = "task"]
  /\ UNCHANGED <<now, task, file, command, retainer>>

\* Seeded fault: what was written since the first phase is left in place.
FaultyCleared(t) == UNCHANGED <<attempts, events>>

\* Rows written since the first phase go in the same commit.
Cleared(t) == DeleteDependents(t)

\* DELETE FROM tasks: refused by the foreign keys while a row refers to it
DropTask(r, t) ==
  /\ retainer[r].step = "phases" /\ First(t) /\ intent[t].phase = "task"
  /\ Cleared(t)
  /\ IF attempts'[t] = NoAttempts /\ ~events'[t]
     THEN /\ task' = [task EXCEPT ![t].status = "Deleted"]
          /\ intent' = [intent EXCEPT ![t].phase = "artifact"]
          /\ UNCHANGED retainer
     ELSE Goto(r, "idle") /\ UNCHANGED <<task, intent>>
  /\ UNCHANGED <<now, file, command>>

\* The files are unlinked inside the transaction that deletes the intent.
DropArtifacts(r, t) ==
  /\ retainer[r].step = "phases" /\ First(t) /\ intent[t].phase = "artifact"
  /\ file' = [file EXCEPT ![t] = @ \ intent[t].named]
  /\ intent' = [intent EXCEPT ![t] = NoIntent]
  /\ UNCHANGED <<now, task, attempts, events, command, retainer>>

NoneLeft(r) ==
  /\ retainer[r].step = "phases" /\ Pending = {}
  /\ Goto(r, "tombstones")
  /\ UNCHANGED <<now, rows>>

\* Seeded fault: keys are forgotten although their task still exists.
FaultyForgotten(k, at) == command[k].used /\ command[k].accepted + Horizon < at

Forgotten(k, at) == /\ command[k].used /\ command[k].accepted + Horizon < at
                    /\ ~Row(command[k].task)

\* Last transaction: keys past the horizon whose task is gone are forgotten.
DropTombstones(r) ==
  /\ retainer[r].step = "tombstones"
  /\ command' = [k \in Keys |-> IF Forgotten(k, retainer[r].at) THEN Unused ELSE command[k]]
  /\ Goto(r, "idle")
  /\ UNCHANGED <<now, task, attempts, events, file, intent>>

\* The process dies between two commits, or in one that is rolled back.
Crash(r) ==
  /\ retainer[r].step # "idle"
  /\ Goto(r, "idle")
  /\ UNCHANGED <<now, rows>>

\* The process dies after the files are unlinked and before the commit.
CrashAfterUnlink(r, t) ==
  /\ retainer[r].step = "phases" /\ First(t) /\ intent[t].phase = "artifact"
  /\ file' = [file EXCEPT ![t] = @ \ intent[t].named]
  /\ Goto(r, "idle")
  /\ UNCHANGED <<now, task, attempts, events, intent, command>>

ClockTick == now < MaxTime /\ now' = now + 1 /\ UNCHANGED <<rows, retainer>>

\* one turn of the loop, with its commit
Drop(r) == \E t \in Tasks : DropDependents(r, t) \/ DropTask(r, t) \/ DropArtifacts(r, t)

Retain(r) == Mark(r) \/ Drop(r) \/ NoneLeft(r) \/ DropTombstones(r)

Next ==
  \/ \E k \in Keys, t \in Tasks : Submit(k, t) \/ LateCancel(k, t)
  \/ \E t \in Tasks : \/ Finish(t)
                       \/ \E n \in Numbers : Attempt(t, n) \/ Publish(t, n) \/ Report(t, n)
  \/ ExpireArtifacts \/ ClockTick
  \/ \E r \in Retainers : Retain(r) \/ Crash(r) \/ \E t \in Tasks : CrashAfterUnlink(r, t)

Spec == Init /\ [][Next]_vars

\* What the caller of retain, which is not part of the program, must provide: it
\* is called again and again, and some call that is not killed reaches its next
\* commit.
FairSpec == Spec /\ SF_vars(\E r \in Retainers : Mark(r))
                 /\ SF_vars(\E r \in Retainers : Drop(r))

----------------------------------------------------------------------------
\* Properties

\* Rows, files, intents and calls of retain are as described, and dependent
\* rows never outlive the row they refer to (foreign keys of the schema).
TypeOK ==
  /\ now \in 0..MaxTime
  /\ task \in [Tasks -> [status : {"Absent", "Live", "Deleted"} \cup Ended, finished : Nat,
                      role : Roles]]
  /\ attempts \in [Tasks -> [Numbers -> {"none", "plain", "result"}]]
  /\ events \in [Tasks -> BOOLEAN] /\ file \in [Tasks -> SUBSET Numbers]
  /\ intent \in [Tasks -> [phase : {"none", "dependents", "task", "artifact"},
                           named : SUBSET Numbers, created : Nat]]
  /\ command \in [Keys -> [task : Tasks \cup {0}, accepted : Nat, used : BOOLEAN]]
  /\ retainer \in [Retainers -> [step : {"idle", "phases", "tombstones"}, at : Nat]]
  /\ \A t \in Tasks : attempts[t] # NoAttempts \/ events[t] => Row(t)

Named(t) == Reported(t) \cup intent[t].named

\* Dependent rows never outlive the row they refer to (TypeOK), and the result of
\* a workflow's child stays as long as its attempt names it, whichever way results
\* are removed (expire_artifacts, retain).  What was reported is never lost sight
\* of: a file that a row or an intent names, and that a step leaves on disk, is
\* still named after it, wherever a deletion is interrupted.  A file that was
\* published and never reported has no name, and nothing collects it.
NothingOrphaned ==
  /\ [](TypeOK /\ \A t \in Tasks : task[t].role = "child" => Reported(t) \subseteq file[t])
  /\ [][\A t \in Tasks : Named(t) \cap file[t] \cap file'[t] \subseteq Named(t)']_vars

\* A key comes free only when its horizon has passed and its task is gone: a
\* delayed duplicate never runs the work twice (retain's last transaction
\* against interrupted deletions and other callers).
KeyRemembered ==
  [][\A k \in Keys : command[k].used /\ command'[k] # command[k] =>
       command[k].accepted + Horizon < now /\ ~Row(command[k].task)]_vars

\* Every deletion that was begun is completed, although calls die between
\* commits and late cancels write new rows for the task (retain).
EveryIntentCompletes ==
  \A t \in Tasks : intent[t].phase # "none" ~> intent[t].phase = "none"
=============================================================================
