--------------------------- MODULE TaskLifecycle ---------------------------
(***************************************************************************)
(* The core of boring_agent: tasks and attempts in one SQLite store, the   *)
(* single Manager that admits, settles and retries them, the Workers that  *)
(* launch runners, and the detached runners that execute attempts.         *)
(*                                                                         *)
(* Every write transaction of the code (BEGIN IMMEDIATE, store.transaction)*)
(* is one action; what the code does outside a transaction (artifact       *)
(* validation, a runner's work, a process launch) is a separate action, so *)
(* every interleaving of the processes is explored.  The tasks here are    *)
(* those of `submit`: they belong to no workflow, for which the workflow   *)
(* calls made by settle and schedule return without effect.                *)
(*                                                                         *)
(* Definitions whose name starts with Faulty are seeded faults: they are   *)
(* used by no action, and show which property each slip would break.       *)
(***************************************************************************)
EXTENDS Integers, FiniteSets

CONSTANTS
  Tasks,          \* task ids (a finite set of positive integers: `ORDER BY id`)
  Workers,        \* worker ids (positive integers: compared with the cursor)
  Keys,           \* idempotency keys of commands
  SpecOf,         \* SpecOf[t]: the normalised spec of the submission stored as t
  Runtimes,       \* what a worker may offer: runtimes, and write access
  WorkerForms,    \* the (slots, offers) pairs a worker may register with
  MaxActive,      \* settings.max_active
  WorkerTTL,      \* settings.worker_ttl
  AnswerTokens,   \* the usage figures a provider's answer may report
  WarmupCommands, \* the commands that prepare a Coddy session (WARMUP_STEPS)
  IdentityMayFail,\* TRUE: /proc may be unreadable for a live runner (OSError)
  MaxTime,        \* bound: the clock stops here
  MaxRows,        \* bound: attempt rows per task
  MaxLaunch,      \* bound: runner processes started per attempt
  Relaunched,     \* bound: the n for which an n-th attempt is launched again
  MaxSequence,    \* bound: no heartbeat raises the sequence of an n-th attempt
                  \* above MaxSequence[n]
  MaxFaults       \* bound: validation faults and manager crashes

SpecForm == [needs : SUBSET Runtimes, deadline : Nat, replaySafe : BOOLEAN,
          on : SUBSET {"transient", "validation"}, maxAttempts : Nat \ {0},
          backoff : Nat, maxTokens : Nat, maxSteps : Nat]

ASSUME ConstantsAssumption ==
  /\ Tasks \subseteq Nat \ {0} /\ IsFiniteSet(Tasks)
  /\ Workers \subseteq Nat \ {0}
  /\ SpecOf \in [Tasks -> SpecForm]
  /\ WorkerForms \subseteq [slots : Nat \ {0}, offers : SUBSET Runtimes]
  /\ MaxActive \in Nat /\ WorkerTTL \in Nat
  /\ AnswerTokens \subseteq Nat /\ WarmupCommands \in Nat
  /\ IdentityMayFail \in BOOLEAN
  /\ MaxTime \in Nat /\ MaxRows \in Nat /\ MaxLaunch \in Nat
  /\ Relaunched \subseteq Nat
  /\ MaxSequence \in [1..MaxRows -> Nat] /\ MaxFaults \in Nat

\* settle's `backoff_seconds * 2 ** (executed - 1)`
Delay(t, executed) == SpecOf[t].backoff * 2 ^ (executed - 1)

ASSUME DelayAssumption == \A t \in Tasks, e \in 1..MaxRows : Delay(t, e) \in Nat

VARIABLES
  now,        \* time.time()
  task,       \* table tasks
  attempt,    \* table attempts, by <<task, number>>
  worker,     \* table workers
  command,    \* table commands, by idempotency key
  lastWorker, \* settings.last_worker, the round-robin cursor
  check,      \* the manager's list of validations, with each one's snapshot
  proc,       \* runner processes, by <<task, number, launch>>
  launched,   \* the processes each worker process remembers launching
  artifact,   \* the result file of an attempt as it is on disk now
  faults      \* validation faults and manager crashes so far

vars == <<now, task, attempt, worker, command, lastWorker, check, proc,
          launched, artifact, faults>>

----------------------------------------------------------------------------
\* Rows and processes

Terminal == {"Succeeded", "Failed", "Cancelled"}
Numbers  == 1..MaxRows
Attempts == Tasks \X Numbers
Procs    == Tasks \X Numbers \X (1..MaxLaunch)

\* desired_action, with the reason recorded beside a Cancel
Intents == {"Run", "user_cancelled", "deadline_exceeded"}

Kinds == {"none", "not_started", "cancelled", "permanent", "transient",
          "validation", "unknown"}

TaskRow ==
  [status : {"Absent", "Pending", "Scheduled", "Running"} \cup Terminal,
   intent : Intents, current : Nat, submitted : Nat, deadline : Nat,
   nextRun : Nat, tokensUsed : Nat, usageUnknown : BOOLEAN]

AttemptRow ==
  [state : {"None", "Queued", "Launching", "Running", "Unknown"} \cup Terminal,
   worker : Workers \cup {0}, runner : 0..MaxLaunch, reserved : BOOLEAN,
   settled : BOOLEAN, sequence : Nat, kind : Kinds, finished : Nat,
   known : Nat, usageKnown : BOOLEAN]   \* usageKnown: tokens IS NOT NULL

ProcRow ==
  [pc : {"absent", "started", "claimed", "cleared", "working",
         "requesting", "concluding", "exited"},
   sequence : Nat, outcome : Kinds \ {"not_started"}, tokens : Nat, usageKnown : BOOLEAN,
   steps : Nat, warmed : Nat,                  \* dialogue turns, warm-up commands
   spent : Nat, blind : BOOLEAN]               \* read at the claim

NoTask == [status |-> "Absent", intent |-> "Run", current |-> 0,
           submitted |-> 0, deadline |-> 0, nextRun |-> 0,
           tokensUsed |-> 0, usageUnknown |-> FALSE]

NoAttempt == [state |-> "None", worker |-> 0, runner |-> 0,
              reserved |-> FALSE, settled |-> FALSE, sequence |-> 0,
              kind |-> "none", finished |-> 0, known |-> 0,
              usageKnown |-> FALSE]

Idle(pc) == [pc |-> pc, sequence |-> 0, outcome |-> "none", tokens |-> 0,
             usageKnown |-> TRUE, steps |-> 0, warmed |-> 0, spent |-> 0,
             blind |-> FALSE]

NoCheck == [stage |-> "none", number |-> 0, intent |-> "Run"]

Init ==
  /\ now = 0
  /\ task = [t \in Tasks |-> NoTask]
  /\ attempt = [a \in Attempts |-> NoAttempt]
  /\ worker = [w \in Workers |-> [registered |-> FALSE, slots |-> 0,
                                  offers |-> {}, lastSeen |-> 0]]
  /\ command = [k \in Keys |-> [kind |-> "none", task |-> 0]]
  /\ lastWorker = 0
  /\ check = [t \in Tasks |-> NoCheck]
  /\ proc = [p \in Procs |-> Idle("absent")]
  /\ launched = [w \in Workers |-> {}]
  /\ artifact = [a \in Attempts |-> "none"]
  /\ faults = 0

Present(t)  == task[t].status # "Absent"
Open(t)     == Present(t) /\ task[t].status \notin Terminal
Current(t)  == <<t, task[t].current>>
HasCurrent(t) == task[t].current # 0
Of(p)       == <<p[1], p[2]>>
Alive(p)    == proc[p].pc \notin {"absent", "exited"}
\* a runner past its claim: it holds the attempt lock and may have effects
Executing(p) == proc[p].pc \notin {"absent", "started", "exited"}
Reserved    == {a \in Attempts : attempt[a].reserved}

\* executions(): the attempts of a task that are not a confirmed non-start
Executions(t) ==
  Cardinality({n \in Numbers : /\ attempt[<<t, n>>].state # "None"
                               /\ attempt[<<t, n>>].kind # "not_started"})

----------------------------------------------------------------------------
\* Commands of callers (Store.submit, Store.cancel)

\* `existing is None`: a key already used returns its first receipt, or a
\* Conflict for another payload; either way the store is unchanged.
Free(k) == command[k].kind = "none"

\* submit: a new key inserts one Pending task and one command.
Submit(k, t) ==
  /\ Free(k)
  /\ ~Present(t)
  /\ now + SpecOf[t].deadline <= MaxTime            \* bound of the model
  /\ task' = [task EXCEPT ![t] =
                [NoTask EXCEPT !.status = "Pending", !.submitted = now,
                               !.deadline = now + SpecOf[t].deadline,
                               !.nextRun = now]]
  /\ command' = [command EXCEPT ![k] = [kind |-> "submit", task |-> t]]
  /\ UNCHANGED <<now, attempt, worker, lastWorker, check, proc, launched,
                 artifact, faults>>

\* Seeded fault: cancel forgets that a terminal task must be left alone.
FaultyCancelled(row) == [row EXCEPT !.intent = "user_cancelled",
                                    !.status = IF @ \in {"Scheduled", "Running"}
                                               THEN @ ELSE "Cancelled"]

\* the task row after cancel: intent always, the end too when nothing runs
CancelledRow(row) ==
  IF row.status \in Terminal THEN row
  ELSE [row EXCEPT !.intent = "user_cancelled",
                   !.status = IF @ = "Pending" THEN "Cancelled" ELSE @]

Cancel(k, t) ==
  /\ Free(k)
  /\ Present(t)
  /\ task' = [task EXCEPT ![t] = CancelledRow(@)]
  /\ command' = [command EXCEPT ![k] = [kind |-> "cancel", task |-> t]]
  /\ UNCHANGED <<now, attempt, worker, lastWorker, check, proc, launched,
                 artifact, faults>>

----------------------------------------------------------------------------
\* Settlement (Manager.settle): pure functions of the rows it reads

Outcome(intent) == IF intent = "deadline_exceeded" THEN "Failed" ELSE "Cancelled"

Requeued(row, at) ==
  [row EXCEPT !.status = "Pending", !.current = 0, !.nextRun = at]

\* Seeded fault: retry.on is not consulted.
FaultyRetryable(t, kind, row) ==
  /\ SpecOf[t].replaySafe
  /\ Executions(t) < SpecOf[t].maxAttempts
  /\ now + Delay(t, Executions(t)) < row.deadline
  /\ \/ SpecOf[t].maxTokens = 0
     \/ ~row.usageUnknown /\ row.tokensUsed < SpecOf[t].maxTokens

\* The usage in row already includes the attempt being settled.
Retryable(t, kind, row) ==
  /\ SpecOf[t].replaySafe /\ kind \in SpecOf[t].on
  /\ Executions(t) < SpecOf[t].maxAttempts
  /\ now + Delay(t, Executions(t)) < row.deadline
  /\ \/ SpecOf[t].maxTokens = 0                     \* null: no token budget
     \/ ~row.usageUnknown /\ row.tokensUsed < SpecOf[t].maxTokens

\* Seeded fault: an attempt of unknown usage counts as one that used nothing.
FaultyCharged(row, att) == [row EXCEPT !.tokensUsed = @ + att.known]

Charged(row, att) ==
  [row EXCEPT !.tokensUsed = @ + att.known,
              !.usageUnknown = @ \/ ~att.usageKnown]

\* The task row after settling its attempt att: kind is "none" for a result
\* that passed validation, else why the attempt gives no result.
Settled(t, row, att, kind) ==
  LET paid == Charged(row, att) IN
  CASE row.intent # "Run"    -> [paid EXCEPT !.status = Outcome(row.intent)]
    [] row.intent = "Run" /\ kind = "not_started" -> Requeued(paid, now)
    [] row.intent = "Run" /\ kind = "none" -> [paid EXCEPT !.status = "Succeeded"]
    [] row.intent = "Run" /\ kind \notin {"none", "not_started"} ->
         IF Retryable(t, kind, paid)
         THEN Requeued(paid, now + Delay(t, Executions(t)))
         ELSE [paid EXCEPT !.status = "Failed"]

\* Seeded fault: a settled attempt keeps its slot.
FaultySettledAttempt(att) == [att EXCEPT !.settled = TRUE]

SettledAttempt(att) == [att EXCEPT !.reserved = FALSE, !.settled = TRUE]

----------------------------------------------------------------------------
\* The sweep: tick's loop over the tasks that are not terminal

\* success_before_deadline
SucceededInTime(t) ==
  /\ HasCurrent(t)
  /\ attempt[Current(t)].state = "Succeeded"
  /\ attempt[Current(t)].finished <= task[t].deadline

\* Seeded fault: a success reported late still shields its task.
FaultySweptIntent(t) ==
  IF /\ now >= task[t].deadline /\ task[t].intent = "Run"
     /\ ~(HasCurrent(t) /\ attempt[Current(t)].state = "Succeeded")
  THEN "deadline_exceeded" ELSE task[t].intent

SweptIntent(t) ==
  IF now >= task[t].deadline /\ task[t].intent = "Run" /\ ~SucceededInTime(t)
  THEN "deadline_exceeded" ELSE task[t].intent

WorkerLost(w) == ~worker[w].registered \/ now - worker[w].lastSeen > WorkerTTL

\* an attempt that ends before any runner claimed it: nothing ran, 0 tokens
Unstarted(att, kind) ==
  [att EXCEPT !.state = "Cancelled", !.sequence = @ + 1, !.finished = now,
              !.kind = kind, !.usageKnown = TRUE]

RunnerAlive(t) == attempt[Current(t)].runner # 0 /\
                  Alive(<<t, task[t].current, attempt[Current(t)].runner>>)

\* Seeded fault: the missing runner is taken as proof that the work failed.
FaultyLost(att) ==
  [att EXCEPT !.state = "Failed", !.sequence = @ + 1, !.kind = "transient",
              !.finished = now, !.usageKnown = TRUE]

\* Seeded fault: the row's sequence is not moved past the runner's.
FaultyOverruled(att) == [att EXCEPT !.state = "Unknown", !.kind = "unknown",
                                    !.usageKnown = FALSE]

\* a runner that is gone proves nothing about the effects of its work
Lost(att) == [att EXCEPT !.state = "Unknown", !.sequence = @ + 1,
                         !.kind = "unknown", !.usageKnown = FALSE]

\* Seeded fault: a claimed attempt is ended as if nothing had run.
FaultyUnclaimed(att) == att.state \in {"Queued", "Launching"}

\* The claim needs state Queued, so in this transaction nothing has run yet.
Unclaimed(att) == att.state = "Queued"

\* The current attempt of t after the sweep has looked at its state, with
\* unseen the tasks whose live runner's identity could not be read.
Inspected(t, unseen) ==
  LET att == attempt[Current(t)] IN
  IF Unclaimed(att) /\ SweptIntent(t) # "Run"
    THEN Unstarted(att, "cancelled")
  ELSE IF Unclaimed(att) /\ WorkerLost(att.worker)
    THEN Unstarted(att, "not_started")
  ELSE IF /\ att.state \in {"Launching", "Running"}
          /\ ~RunnerAlive(t) \/ t \in unseen
    THEN Lost(att)
  ELSE att

\* Seeded fault: an attempt that ended before its claim is never settled.
FaultySettlesNow(att) == att.state = "Failed" /\ ~att.settled

\* A Succeeded attempt is settled later, once its artifact is validated.
SettlesNow(att) == att.state \in {"Failed", "Cancelled"} /\ ~att.settled
Validates(att)  == att.state = "Succeeded" /\ ~att.settled

Swept(t) == Open(t) /\ task[t].status # "Pending" /\ HasCurrent(t)

SweptAttempts(unseen) ==
  [a \in Attempts |->
     IF Swept(a[1]) /\ a = Current(a[1])
     THEN LET att == Inspected(a[1], unseen)
          IN  IF SettlesNow(att) THEN SettledAttempt(att) ELSE att
     ELSE attempt[a]]

SweptTask(t, unseen) ==
  LET row == [task[t] EXCEPT !.intent = SweptIntent(t)] IN
  IF ~Open(t) THEN task[t]
  ELSE IF row.status = "Pending"
    THEN IF row.intent = "Run" THEN row ELSE [row EXCEPT !.status = Outcome(row.intent)]
  ELSE IF ~HasCurrent(t) THEN row
  ELSE LET att == Inspected(t, unseen) IN
       IF SettlesNow(att) THEN Settled(t, row, att, att.kind)
       ELSE IF att.state = "Running" THEN [row EXCEPT !.status = "Running"]
       ELSE row

----------------------------------------------------------------------------
\* Admission: Manager.schedule, on the swept rows T and A

Ready(T) == {t \in Tasks : /\ T[t].status = "Pending" /\ T[t].intent = "Run"
                           /\ T[t].nextRun <= now}

\* ORDER BY submitted_at, id
Precedes(u, t) == \/ task[u].submitted < task[t].submitted
                  \/ task[u].submitted = task[t].submitted /\ u < t

\* the tasks that schedule has already placed when it comes to t
Earlier(place, t) == {u \in Tasks : place[u] # 0 /\ Precedes(u, t)}

ReservedIn(A) == {a \in Attempts : A[a].reserved}

\* Seeded fault: `used` is not advanced while tasks are placed.
FaultyRoom(A, place, t) == Cardinality(ReservedIn(A)) < MaxActive

\* used < max_active
Room(A, place, t) ==
  Cardinality(ReservedIn(A)) + Cardinality(Earlier(place, t)) < MaxActive

Feasible(A, place, t) ==
  {w \in Workers :
     /\ ~WorkerLost(w)
     /\ Cardinality({a \in ReservedIn(A) : A[a].worker = w})
          + Cardinality({u \in Earlier(place, t) : place[u] = w}) < worker[w].slots
     /\ SpecOf[t].needs \subseteq worker[w].offers}

Least(S) == CHOOSE x \in S : \A y \in S : x <= y

\* the last worker used before t was considered
Cursor(place, t) ==
  LET done == Earlier(place, t) IN
  IF done = {} THEN lastWorker
  ELSE place[CHOOSE u \in done : \A v \in done : v = u \/ Precedes(v, u)]

RoundRobin(S, cursor) ==
  IF \E w \in S : w > cursor THEN Least({w \in S : w > cursor}) ELSE Least(S)

NextNumber(t) == 1 + Cardinality({n \in Numbers : attempt[<<t, n>>].state # "None"})

Placeable(T, A, place, t) ==
  /\ t \in Ready(T)
  /\ Room(A, place, t)
  /\ Feasible(A, place, t) # {}
  /\ NextNumber(t) <= MaxRows                       \* bound of the model

\* place[t] is the worker that schedule gives to t, 0 when it gives none.
IsSchedule(T, A, place) ==
  \A t \in Tasks :
    /\ place[t] # 0 <=> Placeable(T, A, place, t)
    /\ place[t] # 0 => place[t] = RoundRobin(Feasible(A, place, t), Cursor(place, t))

Queued(w) == [NoAttempt EXCEPT !.state = "Queued", !.worker = w, !.reserved = TRUE]

Placed(place) == {t \in Tasks : place[t] # 0}

\* schedule inserts an attempt for each placed task; it is Queued and reserved.
Admit(T, A, place) ==
  /\ IsSchedule(T, A, place)
  /\ task' = [t \in Tasks |->
       IF place[t] = 0 THEN T[t]
       ELSE [T[t] EXCEPT !.status = "Scheduled", !.current = NextNumber(t)]]
  /\ attempt' = [a \in Attempts |->
       IF place[a[1]] # 0 /\ a[2] = NextNumber(a[1]) THEN Queued(place[a[1]]) ELSE A[a]]
  /\ lastWorker' = IF Placed(place) = {} THEN lastWorker
       ELSE place[CHOOSE u \in Placed(place) :
                    \A v \in Placed(place) : v = u \/ Precedes(v, u)]

----------------------------------------------------------------------------
\* The Manager

\* the tasks whose runner lives but whose identity the manager may fail to read
Unreadable == IF IdentityMayFail THEN {t \in Tasks : Swept(t) /\ RunnerAlive(t)} ELSE {}

\* tick's write transaction: sweep, then admission, in one commit.  The tasks
\* whose attempt succeeded are remembered with the intent the sweep saw.
Tick ==
  /\ \A t \in Tasks : check[t].stage = "none"
  /\ \E unseen \in SUBSET Unreadable, place \in [Tasks -> Workers \cup {0}] :
       Admit([t \in Tasks |-> SweptTask(t, unseen)], SweptAttempts(unseen), place)
  /\ check' = [t \in Tasks |->
       IF Swept(t) /\ Validates(attempt[Current(t)])
       THEN [stage |-> "listed", number |-> task[t].current,
             intent |-> IF SweptIntent(t) = "Run" THEN "Run" ELSE "Cancel"]
       ELSE NoCheck]
  /\ UNCHANGED <<now, worker, command, proc, launched, artifact, faults>>

\* the attempt whose validation is under way; tick takes them one by one
Busy == \E t \in Tasks : check[t].stage \notin {"none", "listed"}

Checked(t) == <<t, check[t].number>>

\* prevalidate_result: the artifact is read, outside any transaction
Prevalidate(t) ==
  /\ check[t].stage = "listed" /\ ~Busy
  /\ check' = [check EXCEPT ![t].stage =
       IF artifact[Checked(t)] # "good" THEN "rejected"
       ELSE IF check[t].intent = "Run" THEN "valid" ELSE "confirmed"]
  /\ UNCHANGED <<now, task, attempt, worker, command, lastWorker, proc,
                 launched, artifact, faults>>

\* artifact_checksum: the file is read again and compared
Recheck(t) ==
  /\ check[t].stage = "valid"
  /\ check' = [check EXCEPT ![t].stage =
       IF artifact[Checked(t)] = "good" THEN "confirmed" ELSE "rejected"]
  /\ UNCHANGED <<now, task, attempt, worker, command, lastWorker, proc,
                 launched, artifact, faults>>

\* Is the verdict still about the current, unsettled success of an open task?
VerdictApplies(t) ==
  /\ Open(t) /\ task[t].current = check[t].number
  /\ Validates(attempt[Checked(t)])

\* Seeded fault: the verdict is applied to the intent it was taken under.
FaultyVerdictRow(t) == [task[t] EXCEPT !.intent =
                          IF check[t].intent = "Run" THEN "Run" ELSE @]

\* Intent is read again in the settling transaction.
VerdictRow(t) == task[t]

\* the settled attempt, with the rejection of its result when that is why it ends
Judged(att, intent, kind) ==
  [SettledAttempt(att) EXCEPT !.kind = IF intent = "Run" THEN kind ELSE @]

\* the settling transaction of _validate_and_settle
SettleValidated(t) ==
  /\ check[t].stage \in {"confirmed", "rejected"}
  /\ check' = [check EXCEPT ![t] = NoCheck]
  /\ IF /\ VerdictApplies(t)
        /\ (task[t].intent = "Run") => (check[t].intent = "Run")
     THEN LET kind == IF check[t].stage = "confirmed" THEN "none" ELSE "validation"
          IN /\ task' = [task EXCEPT ![t] =
                  Settled(t, VerdictRow(t), attempt[Checked(t)], kind)]
             /\ attempt' = [attempt EXCEPT ![Checked(t)] =
                  Judged(attempt[Checked(t)], task[t].intent, kind)]
     ELSE UNCHANGED <<task, attempt>>
  /\ UNCHANGED <<now, worker, command, lastWorker, proc, launched, artifact,
                 faults>>

\* An unexpected fault during one validation is reported; the attempt stays
\* unsettled and the next tick lists it again.
ValidationFault(t) ==
  /\ faults < MaxFaults
  /\ check[t].stage # "none"
  /\ check[t].stage = "listed" => ~Busy
  /\ check' = [check EXCEPT ![t] = NoCheck]
  /\ faults' = faults + 1
  /\ UNCHANGED <<now, task, attempt, worker, command, lastWorker, proc,
                 launched, artifact>>

\* The manager dies and is restarted: only its list is lost.  A crash inside a
\* transaction rolls it back, and one between ticks loses nothing.
ManagerCrash ==
  /\ faults < MaxFaults
  /\ \E t \in Tasks : check[t].stage # "none"
  /\ check' = [t \in Tasks |-> NoCheck]
  /\ faults' = faults + 1
  /\ UNCHANGED <<now, task, attempt, worker, command, lastWorker, proc,
                 launched, artifact>>

Resolved(att) == [att EXCEPT !.state = "Failed", !.kind = "permanent",
                             !.finished = now, !.sequence = @ + 1]

\* resolve: the operator confirms that the work of an Unknown attempt stopped.
\* The confirmation is taken as true: no runner of the attempt executes.
Resolve(a) ==
  /\ attempt[a].state = "Unknown"
  /\ \A k \in 1..MaxLaunch : ~Executing(<<a[1], a[2], k>>)
  /\ attempt' = [attempt EXCEPT ![a] = Resolved(attempt[a])]
  /\ UNCHANGED <<now, task, worker, command, lastWorker, check, proc, launched,
                 artifact, faults>>

----------------------------------------------------------------------------
\* Workers

\* A worker process starts: it registers and remembers no child.
Register(w) ==
  /\ \E form \in WorkerForms :
       worker' = [worker EXCEPT ![w] =
         [registered |-> TRUE, slots |-> form.slots, offers |-> form.offers,
          lastSeen |-> now]]
  /\ launched' = [launched EXCEPT ![w] = {}]
  /\ UNCHANGED <<now, task, attempt, command, lastWorker, check, proc, artifact,
                 faults>>

Launches(a) == {p \in Procs : Of(p) = a}
FreeLaunch(a) ==
  {p \in Launches(a) : /\ proc[p].pc = "absent"
                       /\ p[3] = 1 \/ a[2] \in Relaunched}  \* bound of the model
NextLaunch(p) == p \in FreeLaunch(Of(p)) /\ \A q \in FreeLaunch(Of(p)) : p[3] <= q[3]

\* The Queued attempts delivered to w for which it knows no living child.
Deliverable(w) ==
  {a \in Attempts : /\ attempt[a].state = "Queued" /\ attempt[a].worker = w
                    /\ \A p \in launched[w] \cap Launches(a) : ~Alive(p)
                    /\ FreeLaunch(a) # {}}          \* bound of the model

\* Worker.tick: heartbeat, read the queue, launch a runner for every attempt
\* not yet launched by this process, and for a relaunch whose backoff is over.
WorkerTick(w) ==
  /\ worker[w].registered
  /\ worker' = [worker EXCEPT ![w].lastSeen = now]
  /\ \E batch \in SUBSET Deliverable(w) :
       LET chosen == {p \in Procs : Of(p) \in batch /\ NextLaunch(p)}
       IN /\ {a \in Deliverable(w) : launched[w] \cap Launches(a) = {}} \subseteq batch
          /\ proc' = [p \in Procs |-> IF p \in chosen THEN Idle("started") ELSE proc[p]]
          /\ launched' = [launched EXCEPT ![w] =
               {p \in @ \cup chosen : attempt[Of(p)].state = "Queued"}]
  /\ UNCHANGED <<now, task, attempt, command, lastWorker, check, artifact, faults>>

----------------------------------------------------------------------------
\* Runners (run_attempt and Controller) and Store.observe

\* another process holds the flock "attempt:<id>"
LockHeld(p) == \E k \in 1..MaxLaunch : k # p[3] /\ Executing(<<p[1], p[2], k>>)

\* Seeded fault: the claim does not look at the state of the attempt.
FaultyClaimable(p) == task[p[1]].current = p[2] /\ Open(p[1])

\* The attempt is still Queued and is the current one of its task.
Claimable(p) ==
  /\ attempt[Of(p)].state = "Queued"
  /\ task[p[1]].current = p[2]

Permitted(p) == SpecOf[p[1]].needs \subseteq worker[attempt[Of(p)].worker].offers

Exit(p) == proc' = [proc EXCEPT ![p] = Idle("exited")]

\* the row of an attempt refused at its claim, and of one claimed by launch k
Refused(att) == [att EXCEPT !.state = "Failed", !.sequence = @ + 1, !.finished = now,
                            !.kind = "permanent", !.usageKnown = TRUE]
ClaimedBy(att, k) == [att EXCEPT !.state = "Launching", !.sequence = @ + 1, !.runner = k]

\* the Controller of the runner p: what it read in its claim
Claimant(p) == [Idle("claimed") EXCEPT !.sequence = attempt[Of(p)].sequence + 1,
                                       !.spent = task[p[1]].tokensUsed,
                                       !.blind = task[p[1]].usageUnknown]

\* The claim: one transaction before any effect.  `identified` is FALSE when
\* the runner cannot read its own identity.
Claim(p) ==
  /\ proc[p].pc = "started"
  /\ \E identified \in {TRUE} \cup {~IdentityMayFail} :
       IF LockHeld(p) \/ ~Claimable(p)
       THEN Exit(p) /\ UNCHANGED attempt
       ELSE IF ~Permitted(p) \/ ~identified
       THEN Exit(p) /\ attempt' = [attempt EXCEPT ![Of(p)] = Refused(attempt[Of(p)])]
       ELSE /\ attempt' = [attempt EXCEPT ![Of(p)] = ClaimedBy(attempt[Of(p)], p[3])]
            /\ proc' = [proc EXCEPT ![p] = Claimant(p)]
  /\ UNCHANGED <<now, task, worker, command, lastWorker, check, launched, artifact,
                 faults>>

Moves == [Launching |-> {"Running", "Cancelled", "Failed", "Unknown"},
          Running   |-> {"Running", "Succeeded", "Failed", "Cancelled", "Unknown"},
          Unknown   |-> {"Unknown"}]

\* Seeded fault: a report is accepted whatever its sequence number.
FaultyAccepted(p, state) ==
  /\ attempt[Of(p)].state \in DOMAIN Moves
  /\ state \in Moves[attempt[Of(p)].state]
  /\ task[p[1]].current = p[2] /\ Open(p[1])

\* observe applies a report only to the current, nonterminal attempt of an open
\* task, with a newer sequence number, along an allowed transition.
Accepted(p, state) ==
  /\ proc[p].sequence + 1 > attempt[Of(p)].sequence
  /\ attempt[Of(p)].state \in DOMAIN Moves
  /\ state \in Moves[attempt[Of(p)].state]
  /\ task[p[1]].current = p[2] /\ Open(p[1])

Larger(x, y) == IF x > y THEN x ELSE y

\* The row after an accepted report.  known_tokens never falls; a total below
\* it is stored as unknown.  The first Running report carries no total.
Observed(p, state, kind, total) ==
  LET row == attempt[Of(p)] IN
  [row EXCEPT !.state = state, !.sequence = proc[p].sequence + 1,
              !.kind = IF kind = "none" THEN @ ELSE kind,
              !.finished = IF state \in Terminal THEN now ELSE @,
              !.known = Larger(row.known, proc[p].tokens),
              !.usageKnown = IF total THEN proc[p].usageKnown /\ proc[p].tokens >= row.known
                             ELSE @]

\* the Controller after a report that was accepted
Reported(c, next) == [c EXCEPT !.pc = next, !.sequence = @ + 1]

\* A report whose rejection stops the runner (Controller.report).
Report(p, state, kind, total, next) ==
  IF Accepted(p, state)
  THEN /\ attempt' = [attempt EXCEPT ![Of(p)] = Observed(p, state, kind, total)]
       /\ proc' = [proc EXCEPT ![p] = IF next = "exited" THEN Idle("exited")
                                      ELSE Reported(proc[p], next)]
  ELSE Exit(p) /\ UNCHANGED attempt

\* Controller.checkpoint, on the task as it is now
InBudgetOfTime(t) == task[t].intent = "Run" /\ now < task[t].deadline

Conclude(p, kind) ==
  proc' = [proc EXCEPT ![p].pc = "concluding", ![p].outcome = kind]

RunnerOnly == UNCHANGED <<now, task, worker, command, lastWorker, check, launched,
                          faults>>

\* checkpoint raises: the run ends as cancelled, or as out of time
CheckpointStop(p) ==
  /\ proc[p].pc \in {"claimed", "working"}
  /\ ~InBudgetOfTime(p[1])
  /\ Conclude(p, IF task[p[1]].intent # "Run" THEN "cancelled" ELSE "permanent")
  /\ RunnerOnly /\ UNCHANGED <<attempt, artifact>>

\* the first checkpoint passes
Proceed(p) ==
  /\ proc[p].pc = "claimed" /\ InBudgetOfTime(p[1])
  /\ proc' = [proc EXCEPT ![p].pc = "cleared"]
  /\ RunnerOnly /\ UNCHANGED <<attempt, artifact>>

\* Running is reported; the task may have been cancelled since the checkpoint
Announce(p) ==
  /\ proc[p].pc = "cleared"
  /\ Report(p, "Running", "none", FALSE, "working")
  /\ RunnerOnly /\ UNCHANGED artifact

\* a warm-up command is in flight: it precedes, and is, no turn of the dialogue
WarmingUp(p) == proc[p].pc = "requesting" /\ proc[p].steps = 0

\* A report refused during a warm-up command does not end the runner: the
\* session's lifecycle takes the Conflict for a failed command, and the run
\* goes on to a final report, with the next sequence number.
RefusedInWarmup(p) ==
  /\ WarmingUp(p) /\ ~Accepted(p, "Running")
  /\ proc' = [proc EXCEPT ![p] = [Reported(@, "concluding") EXCEPT !.outcome = "permanent"]]
  /\ UNCHANGED attempt

Heartbeat(p) ==
  /\ proc[p].pc \in {"working", "requesting"}
  /\ proc[p].sequence < MaxSequence[p[2]]           \* bound of the model
  /\ \/ RefusedInWarmup(p)
     \/ /\ WarmingUp(p) => Accepted(p, "Running")
        /\ Report(p, "Running", "none", TRUE, proc[p].pc)
  /\ RunnerOnly /\ UNCHANGED artifact

\* Seeded fault: what earlier attempts of the task used is forgotten.
FaultyAffordable(p) ==
  \/ SpecOf[p[1]].maxTokens = 0
  \/ /\ proc[p].usageKnown /\ ~proc[p].blind
     /\ proc[p].tokens < SpecOf[p[1]].maxTokens

\* request: remaining is None, or positive with all usage known
Affordable(p) ==
  \/ SpecOf[p[1]].maxTokens = 0
  \/ /\ proc[p].usageKnown /\ ~proc[p].blind
     /\ proc[p].spent + proc[p].tokens < SpecOf[p[1]].maxTokens

\* Before the dialogue, a command of the warm-up is sent in the same way.  The
\* session may have been warmed, in part or in full, by an earlier run.
StartWarmup(p) ==
  /\ proc[p].pc = "working" /\ InBudgetOfTime(p[1])
  /\ SpecOf[p[1]].maxSteps > 0 /\ proc[p].steps = 0
  /\ proc[p].warmed < WarmupCommands
  /\ IF Affordable(p)
     THEN proc' = [proc EXCEPT ![p].pc = "requesting", ![p].warmed = @ + 1]
     ELSE Conclude(p, "permanent")
  /\ RunnerOnly /\ UNCHANGED <<attempt, artifact>>

\* a provider call begins, or is blocked by the token budget
StartRequest(p) ==
  /\ proc[p].pc = "working" /\ InBudgetOfTime(p[1])
  /\ proc[p].steps < SpecOf[p[1]].maxSteps
  /\ IF Affordable(p)
     THEN proc' = [proc EXCEPT ![p].pc = "requesting", ![p].steps = @ + 1]
     ELSE Conclude(p, "permanent")
  /\ RunnerOnly /\ UNCHANGED <<attempt, artifact>>

\* the provider answers, with a usage figure or without one
Answer(p) ==
  /\ proc[p].pc = "requesting"
  /\ \/ \E n \in AnswerTokens :
          proc' = [proc EXCEPT ![p].pc = "working", ![p].tokens = @ + n]
     \/ proc' = [proc EXCEPT ![p].pc = "working", ![p].usageKnown = FALSE]
  /\ RunnerOnly /\ UNCHANGED <<attempt, artifact>>

Interrupted(c, kind) == [c EXCEPT !.pc = "concluding", !.outcome = kind,
                                  !.usageKnown = @ /\ kind = "transient"]

\* the call fails: only a transient rejection leaves the usage known; an
\* elapsed request time or an interruption leaves the outcome unknown
RequestFails(p) ==
  /\ proc[p].pc = "requesting"
  /\ \E kind \in {"transient", "permanent", "unknown"} :
       proc' = [proc EXCEPT ![p] = Interrupted(proc[p], kind)]
  /\ RunnerOnly /\ UNCHANGED <<attempt, artifact>>

\* the work itself fails: demo failure, invalid reply, step budget, missing file
WorkFails(p) ==
  /\ proc[p].pc = "working" /\ InBudgetOfTime(p[1])
  /\ \E kind \in {"transient", "permanent", "validation", "unknown"} : Conclude(p, kind)
  /\ RunnerOnly /\ UNCHANGED <<attempt, artifact>>

\* the last checkpoint passes and the result file is in place
Publish(p) ==
  /\ proc[p].pc = "working" /\ InBudgetOfTime(p[1])
  /\ \E quality \in {"good", "bad"} : artifact' = [artifact EXCEPT ![Of(p)] = quality]
  /\ Conclude(p, "none")
  /\ RunnerOnly /\ UNCHANGED attempt

FinalState(kind) ==
  CASE kind = "none" -> "Succeeded" [] kind = "unknown" -> "Unknown"
    [] kind = "cancelled" -> "Cancelled"
    [] kind \notin {"none", "unknown", "cancelled"} -> "Failed"

\* the final report, after which the process exits
Finish(p) ==
  /\ proc[p].pc = "concluding"
  /\ Report(p, FinalState(proc[p].outcome), proc[p].outcome, TRUE, "exited")
  /\ RunnerOnly /\ UNCHANGED artifact

\* an unexpected exception, a kill or a reboot
RunnerCrash(p) ==
  /\ Alive(p) /\ Exit(p)
  /\ RunnerOnly /\ UNCHANGED <<attempt, artifact>>

----------------------------------------------------------------------------
\* The environment

ClockTick ==
  /\ now < MaxTime
  /\ now' = now + 1
  /\ UNCHANGED <<task, attempt, worker, command, lastWorker, check, proc, launched,
                 artifact, faults>>

\* a published file is replaced or removed behind the store's back
ArtifactDamaged(a) ==
  /\ artifact[a] = "good"
  /\ artifact' = [artifact EXCEPT ![a] = "bad"]
  /\ UNCHANGED <<now, task, attempt, worker, command, lastWorker, check, proc,
                 launched, faults>>

Validate(t) == Prevalidate(t) \/ Recheck(t) \/ SettleValidated(t)

\* the steps a living runner takes by itself
RunnerStep(p) ==
  \/ Claim(p) \/ CheckpointStop(p) \/ Proceed(p) \/ Announce(p) \/ StartWarmup(p)
  \/ StartRequest(p) \/ Answer(p) \/ RequestFails(p) \/ WorkFails(p) \/ Publish(p) \/ Finish(p)

Next ==
  \/ \E k \in Keys, t \in Tasks : Submit(k, t) \/ Cancel(k, t)
  \/ Tick
  \/ \E t \in Tasks : Validate(t) \/ ValidationFault(t)
  \/ ManagerCrash
  \/ \E a \in Attempts : Resolve(a) \/ ArtifactDamaged(a)
  \/ \E w \in Workers : Register(w) \/ WorkerTick(w)
  \/ \E p \in Procs : RunnerStep(p) \/ Heartbeat(p) \/ RunnerCrash(p)
  \/ ClockTick

Spec == Init /\ [][Next]_vars

\* Fairness the code justifies: the manager loop keeps ticking and validating,
\* time passes, and a living runner goes on (every call it makes has a timeout).
\* Callers, workers, the operator, crashes and faults owe nothing.
Fairness ==
  /\ WF_vars(Tick) /\ WF_vars(ClockTick)
  /\ \A t \in Tasks : WF_vars(Validate(t))
  /\ \A p \in Procs : WF_vars(RunnerStep(p))

FairSpec == Spec /\ Fairness
=============================================================================
