----------------------------- MODULE StoreProofs -----------------------------
(***************************************************************************)
(* What the store promises over its life.  Opening: for any number of      *)
(* processes that create, open and migrate one database file, each of      *)
(* which may fail or die between two commits, no accepted command is lost. *)
(* Retention: for any tasks, keys, retention times and number of processes *)
(* that call retain, no row and no file is left that nothing refers to,    *)
(* and a key comes free only when its time has passed and its task is      *)
(* gone.                                                                   *)
(***************************************************************************)
EXTENDS Retention, StoreOpening, TLAPS

Statuses == {"Absent", "Live", "Deleted"} \cup Ended
Phases == {"none", "dependents", "task", "artifact"}
Kinds == {"none", "plain", "result"}

TaskRow(row) == row \in [status : Statuses, finished : Nat, role : Roles]
IntentRow(row) == row \in [phase : Phases, named : SUBSET Numbers, created : Nat]
CommandRow(row) == row \in [task : Tasks \cup {0}, accepted : Nat, used : BOOLEAN]

Types ==
  /\ now \in 0..MaxTime
  /\ task = [t \in Tasks |-> task[t]] /\ attempts = [t \in Tasks |-> attempts[t]]
  /\ events = [t \in Tasks |-> events[t]] /\ file = [t \in Tasks |-> file[t]]
  /\ intent = [t \in Tasks |-> intent[t]]
  /\ command \in [Keys -> [task : Tasks \cup {0}, accepted : Nat, used : BOOLEAN]]
  /\ retainer \in [Retainers -> [step : {"idle", "phases", "tombstones"}, at : Nat]]

\* How far the deletion of a task is, and what there still is of it.
Stage(row, kept, logged, onDisk, mark) ==
  /\ TaskRow(row) /\ kept \in [Numbers -> Kinds] /\ logged \in BOOLEAN
  /\ onDisk \in SUBSET Numbers /\ IntentRow(mark)
  \* a task that has not ended has no intent, one without a row no dependents
  /\ row.status \in {"Absent", "Live"} => mark.phase = "none"
  /\ row.status \in {"Absent", "Deleted"} => kept = NoAttempts /\ ~logged
  \* the row goes with the second phase, and never the row of a workflow's task
  /\ mark.phase \in {"dependents", "task"} => row.status \in Ended
  /\ mark.phase = "artifact" => row.status = "Deleted"
  /\ mark.phase # "none" => row.role = "none"
  \* the attempts go with the first phase, and none is made of an ended task
  /\ mark.phase = "task" => kept = NoAttempts
  \* the intent has the names before the rows go, and only an intent has them
  /\ mark.phase = "dependents" => \A n \in Numbers : kept[n] = "result" => n \in mark.named
  /\ mark.phase = "none" => mark.named = {}
  /\ row.role = "child" => \A n \in Numbers : kept[n] = "result" => n \in onDisk

Staged == \A t \in Tasks : Stage(task[t], attempts[t], events[t], file[t], intent[t])

\* No call of retain is ahead of the clock.
CallsInTime == \A r \in Retainers : retainer[r].at <= now

Inv == Types /\ Staged /\ CallsInTime

\* The initial state satisfies the invariant.
LEMMA InvInit == Init => Inv
<1> SUFFICES ASSUME Init PROVE Inv
  OBVIOUS
<1>1. Types
  BY RetentionAssumption DEF Init, Types, Unused, Idle
<1>2. Staged
  <2> SUFFICES ASSUME NEW t \in Tasks PROVE Stage(task[t], attempts[t], events[t], file[t], intent[t])
    BY DEF Staged
  <2>1. /\ task[t].status = "Absent" /\ TaskRow(task[t])
        /\ attempts[t] = NoAttempts /\ ~events[t] /\ file[t] = {} /\ intent[t] = NoIntent
    BY DEF Init, TaskRow, Statuses, Roles
  <2>2. NoAttempts \in [Numbers -> Kinds] /\ \A n \in Numbers : NoAttempts[n] = "none"
    BY DEF NoAttempts, Kinds
  <2>3. IntentRow(NoIntent) /\ NoIntent.phase = "none" /\ NoIntent.named = {}
    BY DEF NoIntent, IntentRow, Phases
  <2>4. events[t] \in BOOLEAN /\ file[t] \in SUBSET Numbers
    BY DEF Init
  <2> QED BY <2>1, <2>2, <2>3, <2>4 DEF Stage, Ended
<1>3. CallsInTime
  BY DEF Init, CallsInTime, Idle
<1> QED BY <1>1, <1>2, <1>3 DEF Inv

\* The state's part of the property
Intact == TypeOK /\ \A t \in Tasks : task[t].role = "child" => Reported(t) \subseteq file[t]

\* follows from the invariant.
LEMMA InvIntact == Inv => Intact
<1> SUFFICES ASSUME Inv PROVE Intact
  OBVIOUS
<1>1. TypeOK
  <2>1. /\ task \in [Tasks -> [status : {"Absent", "Live", "Deleted"} \cup Ended, finished : Nat, role : Roles]]
        /\ intent \in [Tasks -> [phase : {"none", "dependents", "task", "artifact"},
                                 named : SUBSET Numbers, created : Nat]]
    BY DEF Inv, Types, Staged, Stage, TaskRow, IntentRow, Statuses, Phases
  <2>2. attempts \in [Tasks -> [Numbers -> {"none", "plain", "result"}]]
    BY DEF Inv, Types, Staged, Stage, Kinds
  <2>3. events \in [Tasks -> BOOLEAN] /\ file \in [Tasks -> SUBSET Numbers]
    BY DEF Inv, Types, Staged, Stage
  <2>4. \A t \in Tasks : attempts[t] # NoAttempts \/ events[t] => Row(t)
    BY DEF Inv, Staged, Stage, Row
  <2> QED BY <2>1, <2>2, <2>3, <2>4 DEF Inv, Types, TypeOK
<1>2. \A t \in Tasks : task[t].role = "child" => Reported(t) \subseteq file[t]
  BY DEF Inv, Staged, Stage, Reported
<1> QED BY <1>1, <1>2 DEF Intact

\* A step leaves the rows of all tasks but t as they are.
Only(t) ==
  /\ \A u \in Tasks \ {t} : /\ task'[u] = task[u] /\ attempts'[u] = attempts[u] /\ intent'[u] = intent[u]
                            /\ events'[u] = events[u] /\ file'[u] = file[u]
  /\ task' = [u \in Tasks |-> task'[u]] /\ attempts' = [u \in Tasks |-> attempts'[u]]
  /\ events' = [u \in Tasks |-> events'[u]] /\ file' = [u \in Tasks |-> file'[u]]
  /\ intent' = [u \in Tasks |-> intent'[u]]

\* Such a step keeps the rows staged, if it does so for t.
LEMMA OneTask ==
  ASSUME Inv, NEW t \in Tasks, Only(t),
         Stage(task'[t], attempts'[t], events'[t], file'[t], intent'[t])
  PROVE  Staged'
<1>1. \A u \in Tasks \ {t} : Stage(task[u], attempts[u], events[u], file[u], intent[u])
  BY DEF Inv, Staged
<1> QED BY <1>1 DEF Staged, Only

\* What the invariant says of one task.
LEMMA AtTask ==
  ASSUME Inv, NEW t \in Tasks
  PROVE  Stage(task[t], attempts[t], events[t], file[t], intent[t])
BY DEF Inv, Staged

\* The clock and the calls of retain move apart from the rows.
LEMMA CallMoves ==
  ASSUME Inv, NEW r \in Retainers, NEW step \in {"idle", "phases", "tombstones"}, Goto(r, step),
         UNCHANGED now
  PROVE  /\ retainer' \in [Retainers -> [step : {"idle", "phases", "tombstones"}, at : Nat]]
         /\ CallsInTime'
BY RetentionAssumption DEF Inv, Types, CallsInTime, Goto, Idle

\* A key is used with a command for a task, and the event of it is written.
LEMMA ReceiveTypes ==
  ASSUME Inv, NEW k \in Keys, NEW t \in Tasks, Receive(k, t)
  PROVE  /\ command' \in [Keys -> [task : Tasks \cup {0}, accepted : Nat, used : BOOLEAN]]
         /\ events' = [events EXCEPT ![t] = TRUE]
<1>1. now \in Nat
  BY RetentionAssumption DEF Inv, Types
<1> QED BY <1>1 DEF Inv, Types, Receive

\* Callers, the manager and the clock keep the invariant.
LEMMA SurroundingsKeepInv ==
  ASSUME Inv,
         \/ \E k \in Keys, t \in Tasks : Submit(k, t) \/ LateCancel(k, t)
         \/ \E t \in Tasks : \/ Finish(t)
                              \/ \E n \in Numbers : Attempt(t, n) \/ Publish(t, n) \/ Report(t, n)
         \/ ExpireArtifacts \/ ClockTick
  PROVE  Inv'
<1>1. ASSUME NEW k \in Keys, NEW t \in Tasks, Submit(k, t) PROVE Inv'
  <2> DEFINE row == [task[t] EXCEPT !.status = "Live"]
  <2>1. Stage(row, attempts[t], TRUE, file[t], intent[t])
    <3>1. task[t].status = "Absent" /\ Stage(task[t], attempts[t], events[t], file[t], intent[t])
      BY <1>1, AtTask DEF Submit
    <3> QED BY <3>1 DEF Stage, TaskRow, Statuses, Ended
  <2>2. task' = [task EXCEPT ![t] = row] /\ UNCHANGED <<now, attempts, file, intent, retainer>>
        /\ Receive(k, t)
    BY <1>1 DEF Submit, Inv, Types
  <2> HIDE DEF row
  <2>3. Only(t) /\ Stage(task'[t], attempts'[t], events'[t], file'[t], intent'[t])
    <3>1. events' = [events EXCEPT ![t] = TRUE]
      BY <2>2, ReceiveTypes
    <3>2. Only(t) /\ events'[t] = TRUE
      BY <2>2, <3>1 DEF Only, Inv, Types
    <3>3. Stage(task'[t], attempts'[t], events'[t], file'[t], intent'[t])
      <4>1. task'[t] = row /\ attempts'[t] = attempts[t] /\ file'[t] = file[t] /\ intent'[t] = intent[t]
        BY <2>2 DEF Inv, Types
      <4> QED BY <2>1, <3>2, <4>1, Zenon
    <3> QED BY <3>2, <3>3
  <2> QED BY <2>2, <2>3, OneTask, ReceiveTypes DEF Inv, Types, CallsInTime, Only
<1>2. ASSUME NEW k \in Keys, NEW t \in Tasks, LateCancel(k, t) PROVE Inv'
  <2>1. Stage(task[t], attempts[t], TRUE, file[t], intent[t])
    <3>1. task[t].status \in Ended /\ Stage(task[t], attempts[t], events[t], file[t], intent[t])
      BY <1>2, AtTask DEF LateCancel, Cancellable
    <3> QED BY <3>1 DEF Stage, TaskRow, Ended
  <2>2. UNCHANGED <<now, task, attempts, file, intent, retainer>> /\ Receive(k, t)
    BY <1>2 DEF LateCancel
  <2>3. Only(t) /\ Stage(task'[t], attempts'[t], events'[t], file'[t], intent'[t])
    <3>1. events' = [events EXCEPT ![t] = TRUE]
      BY <2>2, ReceiveTypes
    <3>2. Only(t) /\ events'[t] = TRUE
      BY <2>2, <3>1 DEF Only, Inv, Types
    <3>3. Stage(task'[t], attempts'[t], events'[t], file'[t], intent'[t])
      <4>1. task'[t] = task[t] /\ attempts'[t] = attempts[t] /\ file'[t] = file[t] /\ intent'[t] = intent[t]
        BY <2>2 DEF Inv, Types
      <4> QED BY <2>1, <3>2, <4>1, Zenon
    <3> QED BY <3>2, <3>3
  <2> QED BY <2>2, <2>3, OneTask, ReceiveTypes DEF Inv, Types, CallsInTime, Only
<1>3. ASSUME NEW t \in Tasks, Finish(t) PROVE Inv'
  <2>1. PICK status \in Ended : task' = [task EXCEPT ![t].status = status, ![t].finished = now]
    BY <1>3 DEF Finish
  <2> DEFINE row == [task[t] EXCEPT !.status = status, !.finished = now]
  <2>2. Stage(row, attempts[t], events[t], file[t], intent[t])
    <3>1. task[t].status = "Live" /\ Stage(task[t], attempts[t], events[t], file[t], intent[t])
          /\ now \in Nat
      <4>1. now \in Nat
        BY RetentionAssumption DEF Inv, Types
      <4> QED BY <1>3, <4>1, AtTask DEF Finish
    <3>2. TaskRow(row) /\ row.status = status /\ row.role = task[t].role
      BY <3>1 DEF Stage, TaskRow, Statuses
    <3> HIDE DEF row
    <3> QED BY <3>1, <3>2 DEF Stage, Ended
  <2>3. /\ task' = [task EXCEPT ![t] = row]
        /\ UNCHANGED <<now, attempts, events, file, intent, command, retainer>>
    BY <1>3, <2>1 DEF Finish, Inv, Types
  <2> HIDE DEF row
  <2>4. Only(t) /\ Stage(task'[t], attempts'[t], events'[t], file'[t], intent'[t])
    BY <2>2, <2>3 DEF Only, Inv, Types
  <2> QED BY <2>3, <2>4, OneTask DEF Inv, Types, CallsInTime, Only
\* an attempt is made, or reports its file: the task is Live
<1>6. ASSUME NEW t \in Tasks, NEW n \in Numbers, NEW kind \in {"plain", "result"},
             task[t].status = "Live", kind = "result" => n \in file[t],
             attempts' = [attempts EXCEPT ![t][n] = kind],
             UNCHANGED <<now, task, events, file, intent, command, retainer>>
      PROVE  Inv'
  <2> DEFINE kept == [attempts[t] EXCEPT ![n] = kind]
  <2>1. Stage(task[t], attempts[t], events[t], file[t], intent[t])
    BY AtTask
  <2>2. /\ kept \in [Numbers -> Kinds] /\ attempts' = [attempts EXCEPT ![t] = kept]
        /\ \A m \in Numbers : kept[m] = "result" => attempts[t][m] = "result" \/ m \in file[t]
    BY <1>6, <2>1 DEF Stage, Kinds
  <2> HIDE DEF kept
  <2>3. Stage(task[t], kept, events[t], file[t], intent[t])
    BY <1>6, <2>1, <2>2 DEF Stage, Ended
  <2>4. Only(t) /\ Stage(task'[t], attempts'[t], events'[t], file'[t], intent'[t])
    BY <1>6, <2>2, <2>3 DEF Only, Inv, Types
  <2> QED BY <1>6, <2>4, OneTask DEF Inv, Types, CallsInTime, Only
<1>7. ASSUME NEW t \in Tasks, NEW n \in Numbers, Attempt(t, n) \/ Publish(t, n) \/ Report(t, n) PROVE Inv'
  <2>1. CASE Attempt(t, n) \/ Report(t, n)
    BY <1>6, <2>1 DEF Attempt, Report
  <2>2. CASE Publish(t, n)
    <3>1. Stage(task[t], attempts[t], events[t], file[t] \cup {n}, intent[t])
      BY AtTask DEF Stage
    <3>2. Only(t) /\ Stage(task'[t], attempts'[t], events'[t], file'[t], intent'[t])
      BY <2>2, <3>1 DEF Publish, Only, Inv, Types
    <3> QED BY <2>2, <3>2, OneTask DEF Publish, Inv, Types, CallsInTime, Only
  <2> QED BY <1>7, <2>1, <2>2
<1>4. CASE ExpireArtifacts
  <2>1. file' = [t \in Tasks |-> file[t] \ Expired(t)]
        /\ UNCHANGED <<now, task, attempts, events, intent, command, retainer>>
    BY <1>4 DEF ExpireArtifacts
  <2>2. Staged'
    <3> SUFFICES ASSUME NEW t \in Tasks
                 PROVE  Stage(task[t], attempts[t], events[t], file[t] \ Expired(t), intent[t])
      BY <2>1 DEF Staged
    <3>1. task[t].role = "child" => Expired(t) = {}
      BY DEF Expired
    <3> QED BY <3>1, AtTask DEF Stage
  <2> QED BY <2>1, <2>2 DEF Inv, Types, CallsInTime
<1>5. CASE ClockTick
  <2>1. now' \in 0..MaxTime /\ now' >= now
    BY <1>5, RetentionAssumption DEF ClockTick, Inv, Types
  <2>2. CallsInTime'
    BY <1>5, <2>1, RetentionAssumption DEF ClockTick, rows, CallsInTime, Inv, Types
  <2> QED BY <1>5, <2>1, <2>2 DEF ClockTick, rows, Inv, Types, Staged
<1> QED BY <1>1, <1>2, <1>3, <1>4, <1>5, <1>7

\* Each commit of retain keeps the invariant, and so does its death at any point.
LEMMA RetainKeepsInv ==
  ASSUME Inv, NEW r \in Retainers,
         Retain(r) \/ Crash(r) \/ \E t \in Tasks : CrashAfterUnlink(r, t)
  PROVE  Inv'
<1>1. CASE Mark(r)
  <2>1. /\ intent' = [t \in Tasks |-> IF Old(t, now) /\ intent[t].phase = "none"
                                      THEN Marked(t, now) ELSE intent[t]]
        /\ UNCHANGED <<now, task, attempts, events, file, command>>
    BY <1>1 DEF Mark
  <2>2. now \in Nat
    BY RetentionAssumption DEF Inv, Types
  <2>3. Staged'
    <3> SUFFICES ASSUME NEW t \in Tasks
                 PROVE  Stage(task[t], attempts[t], events[t], file[t], intent'[t])
      BY <2>1 DEF Staged
    <3>1. Stage(task[t], attempts[t], events[t], file[t], intent[t])
      BY AtTask
    <3>2. CASE Old(t, now) /\ intent[t].phase = "none"
      <4>1. intent'[t] = [phase |-> "dependents", created |-> now, named |-> Reported(t)]
        BY <2>1, <3>2 DEF Marked
      <4>2. Reported(t) \in SUBSET Numbers /\ \A n \in Numbers : attempts[t][n] = "result" => n \in Reported(t)
        BY DEF Reported
      <4>3. intent'[t].phase = "dependents" /\ IntentRow(intent'[t]) /\ intent'[t].named = Reported(t)
        BY <2>2, <4>1, <4>2 DEF IntentRow, Phases
      <4> QED BY <3>1, <3>2, <4>2, <4>3 DEF Stage, Old, Ended
    <3> QED BY <2>1, <3>1, <3>2
  <2>4. /\ retainer' \in [Retainers -> [step : {"idle", "phases", "tombstones"}, at : Nat]]
        /\ CallsInTime'
    BY <1>1, <2>2 DEF Mark, Inv, Types, CallsInTime
  <2> QED BY <2>1, <2>3, <2>4 DEF Inv, Types
<1>2. ASSUME NEW t \in Tasks, DropDependents(r, t) PROVE Inv'
  <2> DEFINE mark == [intent[t] EXCEPT !.phase = "task"]
  <2>1. Stage(task[t], NoAttempts, FALSE, file[t], mark)
    <3>1. intent[t].phase = "dependents" /\ Stage(task[t], attempts[t], events[t], file[t], intent[t])
      BY <1>2, AtTask DEF DropDependents
    <3>2. IntentRow(mark) /\ mark.phase = "task" /\ mark.named = intent[t].named
      BY <3>1 DEF Stage, IntentRow, Phases
    <3> HIDE DEF mark
    <3> QED BY <3>1, <3>2 DEF Stage, Ended, Kinds, NoAttempts
  <2>2. /\ attempts' = [attempts EXCEPT ![t] = NoAttempts] /\ events' = [events EXCEPT ![t] = FALSE]
        /\ intent' = [intent EXCEPT ![t] = mark] /\ UNCHANGED <<now, task, file, command, retainer>>
    BY <1>2 DEF DropDependents, DeleteDependents, Inv, Types
  <2> HIDE DEF mark
  <2>3. Only(t) /\ Stage(task'[t], attempts'[t], events'[t], file'[t], intent'[t])
    BY <2>1, <2>2 DEF Only, Inv, Types
  <2> QED BY <2>2, <2>3, OneTask DEF Inv, Types, CallsInTime, Only
<1>3. ASSUME NEW t \in Tasks, DropTask(r, t) PROVE Inv'
  <2> DEFINE row == [task[t] EXCEPT !.status = "Deleted"]
             mark == [intent[t] EXCEPT !.phase = "artifact"]
  <2>1. Stage(row, NoAttempts, FALSE, file[t], mark)
    <3>1. intent[t].phase = "task" /\ Stage(task[t], attempts[t], events[t], file[t], intent[t])
      BY <1>3, AtTask DEF DropTask, Stage
    <3>2. /\ IntentRow(mark) /\ mark.phase = "artifact" /\ mark.named = intent[t].named
          /\ TaskRow(row) /\ row.status = "Deleted" /\ row.role = task[t].role
      BY <3>1 DEF Stage, IntentRow, Phases, TaskRow, Statuses
    <3> HIDE DEF mark, row
    <3> QED BY <3>1, <3>2 DEF Stage, Ended, Kinds, NoAttempts
  <2>2. /\ attempts' = [attempts EXCEPT ![t] = NoAttempts] /\ events' = [events EXCEPT ![t] = FALSE]
        /\ attempts'[t] = NoAttempts /\ ~events'[t]
        /\ UNCHANGED <<now, file, command>>
    BY <1>3 DEF DropTask, Cleared, DeleteDependents, Inv, Types
  <2>3. /\ task' = [task EXCEPT ![t] = row] /\ intent' = [intent EXCEPT ![t] = mark]
        /\ UNCHANGED retainer
    BY <1>3, <2>2 DEF DropTask, Inv, Types
  <2> HIDE DEF row, mark
  <2>4. Only(t) /\ Stage(task'[t], attempts'[t], events'[t], file'[t], intent'[t])
    BY <2>1, <2>2, <2>3 DEF Only, Inv, Types
  <2> QED BY <2>2, <2>3, <2>4, OneTask DEF Inv, Types, CallsInTime, Only
<1>4. ASSUME NEW t \in Tasks, intent[t].phase = "artifact",
             file' = [file EXCEPT ![t] = @ \ intent[t].named],
             intent' = [intent EXCEPT ![t] = NoIntent] \/ intent' = intent,
             UNCHANGED <<now, task, attempts, events, command>>
      PROVE  Staged' /\ Only(t)
  <2>1. Stage(task[t], attempts[t], events[t], file[t], intent[t])
    BY AtTask
  <2>2. IntentRow(NoIntent) /\ NoIntent.phase = "none" /\ NoIntent.named = {}
    BY DEF NoIntent, IntentRow, Phases
  <2>3. Only(t) /\ file'[t] = file[t] \ intent[t].named /\ intent'[t] \in {intent[t], NoIntent}
    BY <1>4 DEF Only, Inv, Types
  <2>4. Stage(task'[t], attempts'[t], events'[t], file'[t], intent'[t])
    BY <1>4, <2>1, <2>2, <2>3 DEF Stage, Ended
  <2> QED BY <2>3, <2>4, OneTask
<1>5. ASSUME NEW t \in Tasks, DropArtifacts(r, t) PROVE Inv'
  <2>1. Staged' /\ Only(t)
    BY <1>4, <1>5 DEF DropArtifacts
  <2> QED BY <1>5, <2>1 DEF DropArtifacts, Inv, Types, CallsInTime, Only
<1>6. ASSUME NEW t \in Tasks, CrashAfterUnlink(r, t) PROVE Inv'
  <2>1. Staged' /\ Only(t)
    BY <1>4, <1>6 DEF CrashAfterUnlink
  <2> QED BY <1>6, <2>1, CallMoves DEF CrashAfterUnlink, Inv, Types, Only
<1>7. CASE NoneLeft(r) \/ Crash(r)
  <2>1. UNCHANGED <<now, rows>> /\ (Goto(r, "tombstones") \/ Goto(r, "idle"))
    BY <1>7 DEF NoneLeft, Crash
  <2> QED BY <2>1, CallMoves DEF rows, Inv, Types, Staged
<1>8. CASE DropTombstones(r)
  <2>1. /\ command' = [k \in Keys |-> IF Forgotten(k, retainer[r].at) THEN Unused ELSE command[k]]
        /\ Goto(r, "idle") /\ UNCHANGED <<now, task, attempts, events, file, intent>>
    BY <1>8 DEF DropTombstones
  <2>2. command' \in [Keys -> [task : Tasks \cup {0}, accepted : Nat, used : BOOLEAN]]
    BY <2>1 DEF Inv, Types, Unused
  <2> QED BY <2>1, <2>2, CallMoves DEF Inv, Types, Staged
<1> QED BY <1>1, <1>2, <1>3, <1>5, <1>6, <1>7, <1>8 DEF Retain, Drop

\* Every step keeps the invariant.
LEMMA InvStep == Inv /\ [Next]_vars => Inv'
<1> SUFFICES ASSUME Inv, [Next]_vars PROVE Inv'
  OBVIOUS
<1>1. CASE UNCHANGED vars
  BY <1>1 DEF vars, Inv, Types, Staged, CallsInTime
<1> QED BY <1>1, SurroundingsKeepInv, RetainKeepsInv DEF Next

\* The invariant holds in every reachable state.
LEMMA InvHolds == Spec => []Inv
BY InvInit, InvStep, PTL DEF Spec

\* No step leaves a file on disk and takes its name away.
LEMMA NamesStay ==
  ASSUME Inv, [Next]_vars, NEW t \in Tasks
  PROVE  Named(t) \cap file[t] \cap file'[t] \subseteq Named(t)'
<1>1. Stage(task[t], attempts[t], events[t], file[t], intent[t])
  BY AtTask
<1>2. CASE UNCHANGED <<attempts, intent>>
  BY <1>2 DEF Named, Reported
<1>3. ASSUME NEW u \in Tasks, NEW n \in Numbers, Attempt(u, n) \/ Report(u, n)
      PROVE  Named(t) \subseteq Named(t)'
  <2>1. attempts[u][n] # "result"
    <3>1. CASE Attempt(u, n)
      <4>1. n \notin Rows(u)
        BY <3>1 DEF Attempt, Numbers
      <4> QED BY <4>1 DEF Rows
    <3>2. CASE Report(u, n)
      BY <3>2 DEF Report
    <3> QED BY <1>3, <3>1, <3>2
  <2>2. intent' = intent /\ \E kind : attempts' = [attempts EXCEPT ![u][n] = kind]
    BY <1>3 DEF Attempt, Report
  <2>3. \A m \in Numbers : attempts[t][m] = "result" => attempts'[t][m] = "result"
    BY <1>1, <2>1, <2>2 DEF Inv, Types, Stage
  <2> QED BY <2>2, <2>3 DEF Named, Reported
<1>4. ASSUME NEW r \in Retainers, Mark(r) PROVE Named(t) \subseteq Named(t)'
  <2>1. /\ intent' = [u \in Tasks |-> IF Old(u, now) /\ intent[u].phase = "none"
                                      THEN Marked(u, now) ELSE intent[u]]
        /\ attempts' = attempts
    BY <1>4 DEF Mark
  <2>2. intent[t].phase = "none" => intent[t].named = {}
    BY <1>1 DEF Stage
  <2> QED BY <2>1, <2>2 DEF Named, Reported
<1>5. ASSUME NEW r \in Retainers, NEW u \in Tasks, DropDependents(r, u) \/ DropTask(r, u)
      PROVE  Named(t) \subseteq Named(t)'
  <2>1. /\ attempts' = [attempts EXCEPT ![u] = NoAttempts]
        /\ intent[u].phase \in {"dependents", "task"}
        /\ \/ \E phase : intent' = [intent EXCEPT ![u].phase = phase]
           \/ intent' = intent
    BY <1>5 DEF DropDependents, DropTask, Cleared, DeleteDependents
  <2>5. \A v \in Tasks : intent'[v].named = intent[v].named
    <3>1. \A v \in Tasks : IntentRow(intent[v])
      BY AtTask DEF Stage
    <3> QED BY <2>1, <3>1 DEF IntentRow, Inv, Types
  <2>2. \A m \in Numbers : attempts[u][m] = "result" => m \in intent[u].named
    BY <2>1, AtTask DEF Stage, NoAttempts
  <2>3. CASE u = t
    BY <2>2, <2>3, <2>5 DEF Named, Reported
  <2>4. CASE u # t
    <3>1. attempts'[t] = attempts[t]
      BY <2>1, <2>4 DEF Inv, Types
    <3> QED BY <2>5, <3>1 DEF Named, Reported
  <2> QED BY <2>3, <2>4
\* the files go before the intent does
<1>6. ASSUME NEW r \in Retainers, NEW u \in Tasks, DropArtifacts(r, u)
      PROVE  Named(t) \cap file'[t] \subseteq Named(t)'
  <2>1. /\ file' = [file EXCEPT ![u] = @ \ intent[u].named]
        /\ intent' = [intent EXCEPT ![u] = NoIntent] /\ attempts' = attempts
    BY <1>6 DEF DropArtifacts
  <2>2. CASE u = t
    BY <2>1, <2>2 DEF Named, Reported, Inv, Types
  <2>3. CASE u # t
    BY <2>1, <2>3 DEF Named, Reported, Inv, Types
  <2> QED BY <2>2, <2>3
<1> QED BY <1>2, <1>3, <1>4, <1>5, <1>6
        DEF Next, vars, rows, Submit, LateCancel, Publish, Finish, ExpireArtifacts, ClockTick, Retain, Drop,
            NoneLeft, DropTombstones, Crash, CrashAfterUnlink

\* Wherever calls of retain are interrupted and however many run, no dependent
\* row outlives its task, a workflow's child keeps its result while its attempt
\* names it, and a file that was reported is not lost sight of while it is on
\* disk (retain, expire_artifacts).
THEOREM NothingLostSightOf == Spec => NothingOrphaned
<1> DEFINE Kept == \A t \in Tasks : Named(t) \cap file[t] \cap file'[t] \subseteq Named(t)'
<1>1. Inv /\ [Next]_vars => [Kept]_vars
  BY NamesStay DEF Kept
<1>2. Spec => []Intact /\ [][Kept]_vars
  <2> HIDE DEF Kept
  <2> QED BY <1>1, InvHolds, InvIntact, PTL DEF Spec
<1> QED BY <1>2 DEF NothingOrphaned, Intact, Kept

\* A key is forgotten only by retain's last transaction, which holds the horizon
\* against the time its call began and looks the task up again (retain).
THEOREM KeyOutlivesTask == Spec => KeyRemembered
<1> DEFINE Kept == \A k \in Keys : command[k].used /\ command'[k] # command[k] =>
                     command[k].accepted + Horizon < now /\ ~Row(command[k].task)
<1>1. Inv /\ [Next]_vars => [Kept]_vars
  <2> SUFFICES ASSUME Inv, [Next]_vars, NEW k \in Keys, command[k].used, command'[k] # command[k]
               PROVE  command[k].accepted + Horizon < now /\ ~Row(command[k].task)
    BY DEF Kept
  <2>1. ASSUME NEW j \in Keys, NEW t \in Tasks, Receive(j, t) PROVE command'[k] = command[k]
    BY <2>1 DEF Receive, Inv, Types
  <2>2. ASSUME NEW r \in Retainers, DropTombstones(r)
        PROVE  command[k].accepted + Horizon < now /\ ~Row(command[k].task)
    <3>1. Forgotten(k, retainer[r].at)
      BY <2>2 DEF DropTombstones
    <3>2. retainer[r].at <= now /\ retainer[r].at \in Nat /\ now \in Nat /\ command[k].accepted \in Nat
      BY RetentionAssumption DEF Inv, Types, CallsInTime
    <3> QED BY <3>1, <3>2, RetentionAssumption DEF Forgotten
  <2>3. \E r \in Retainers : DropTombstones(r)
    BY <2>1 DEF Next, vars, Submit, LateCancel, Attempt, Publish, Report, Finish, ExpireArtifacts, ClockTick, rows,
                Retain, Mark, Drop, DropDependents, DropTask, DropArtifacts, NoneLeft, Crash, CrashAfterUnlink
  <2> QED BY <2>2, <2>3
<1>2. Spec => [][Kept]_vars
  BY <1>1, InvHolds, PTL DEF Spec
<1> QED BY <1>2, PTL DEF KeyRemembered, Kept

----------------------------------------------------------------------------
\* Opening: the database file that the rows above are kept in.

Busy == {"outdated", "intended"}   \* in _migrate

\* One process writes a new file, and the file is there as long as it does.
OneWriter == \A o, q \in Openers : Initializing(o) /\ Initializing(q) => o = q
Written == \A o \in Openers : Initializing(o) => database.exists /\ database.version # 1

\* Nobody can remove the file that a process is about to migrate.
Stays == \A o \in Openers : pc[o] \in Busy =>
  database.exists /\ \A q \in Openers : ~Initializing(q)

Opened == CommandsKept /\ OneWriter /\ Written /\ Stays

\* A step of one process that leaves the file where it is, and at the version it
\* had unless it has to be migrated no longer, keeps the openers apart.
LEMMA StepApart ==
  ASSUME Opened, NEW o \in Openers, NEW step \in Steps,
         pc' = [pc EXCEPT ![o] = step],
         database'.exists = database.exists,
         database'.version # 1 \/ database'.version = database.version,
         Initializing(o) \/ step \notin {"created", "tables", "schema", "seeding"},
         step \in Busy => pc[o] \in Busy
  PROVE  pc' \in [Openers -> Steps] /\ OneWriter' /\ Written' /\ Stays'
<1>1. pc \in [Openers -> Steps]
  BY DEF Opened, CommandsKept, OpeningTypeOK
<1>2. \A q \in Openers : pc'[q] = IF q = o THEN step ELSE pc[q]
  BY <1>1
<1>3. \A q \in Openers : Initializing(q)' => Initializing(q)
  BY <1>2 DEF Initializing
<1>4. \A q \in Openers : pc'[q] \in Busy => pc[q] \in Busy
  BY <1>2
<1>5. pc' \in [Openers -> Steps]
  BY <1>1
<1>6. OneWriter'
  BY <1>3 DEF Opened, OneWriter
<1>7. Written'
  BY <1>3 DEF Opened, Written
<1>8. Stays'
  BY <1>3, <1>4 DEF Opened, Stays
<1> QED BY <1>5, <1>6, <1>7, <1>8

\* The first states satisfy the invariant.
LEMMA OpenedInit == OpeningInit => Opened
<1> SUFFICES ASSUME OpeningInit PROVE Opened
  OBVIOUS
<1>1. database \in Files /\ (~database.exists => database = NoFile)
  <2>1. NoFile \in Files
    BY DEF Files, NoFile, CurrentSchema
  <2>2. Previous \in Files /\ Previous.exists
    BY DEF Files, Previous, CurrentSchema
  <2> QED BY <2>1, <2>2 DEF OpeningInit
<1>2. accepted = database.commands /\ accepted \subseteq OldCommands \cup NewCommands
  BY <1>1 DEF OpeningInit, Files
<1>3. \A o \in Openers : pc[o] = "closed"
  BY DEF OpeningInit
<1>4. pc \in [Openers -> Steps] /\ applied \in Nat /\ crashes \in 0..MaxCrashes
  BY OpeningAssumption DEF OpeningInit, Steps
<1>5. CommandsKept
  BY <1>1, <1>2, <1>4 DEF CommandsKept, OpeningTypeOK
<1> QED BY <1>3, <1>5 DEF Opened, OneWriter, Written, Stays, Initializing, Busy

\* Writing a new file keeps it: one process creates it, and if it fails, the file
\* goes with what was accepted in it.
LEMMA OpenedInitialize ==
  ASSUME Opened, NEW o \in Openers,
         \/ Create(o) \/ WriteTables(o) \/ WriteVersion(o)
         \/ WriteSettings(o) \/ Seed(o) \/ InitFails(o)
  PROVE  Opened'
<1>1. /\ database \in Files /\ pc \in [Openers -> Steps]
      /\ accepted \subseteq database.commands /\ accepted \subseteq OldCommands \cup NewCommands
      /\ applied \in Nat /\ crashes \in 0..MaxCrashes
      /\ (~database.exists => database = NoFile)
  BY DEF Opened, CommandsKept, OpeningTypeOK
<1>2. Initializing(o) => database.exists
  BY DEF Opened, Written
<1>3. CASE Create(o) /\ database.exists
  <2>1. database' = database /\ pc' = [pc EXCEPT ![o] = "refused"]
        /\ UNCHANGED <<accepted, applied, crashes>> /\ "refused" \in Steps
    BY <1>3 DEF Create, Proceed, Steps
  <2>2. pc' \in [Openers -> Steps] /\ OneWriter' /\ Written' /\ Stays'
    BY <2>1, StepApart DEF Busy
  <2> QED BY <1>1, <2>1, <2>2 DEF Opened, CommandsKept, OpeningTypeOK
<1>4. CASE Create(o) /\ ~database.exists
  <2>1. database' = [database EXCEPT !.exists = TRUE] /\ pc' = [pc EXCEPT ![o] = "created"]
        /\ UNCHANGED <<accepted, applied, crashes>>
    BY <1>4 DEF Create, Proceed
  <2>2. database' \in Files /\ database'.exists /\ database'.commands = database.commands
        /\ database'.version = 0
    <3>1. database' \in Files
      BY <1>1, <2>1 DEF Files
    <3>2. database'.exists /\ database'.commands = database.commands /\ database'.version = database.version
      BY <1>1, <2>1 DEF Files
    <3> QED BY <1>1, <1>4, <3>1, <3>2 DEF NoFile
  <2>3. \A q \in Openers : ~Initializing(q) /\ pc[q] \notin Busy
    BY <1>4 DEF Opened, Written, Stays
  <2>4. \A q \in Openers : pc'[q] = IF q = o THEN "created" ELSE pc[q]
    BY <1>1, <2>1
  <2>5. pc' \in [Openers -> Steps]
    BY <1>1, <2>1 DEF Steps
  <2>6. \A q \in Openers : (Initializing(q)' => q = o) /\ pc'[q] \notin Busy
    BY <2>3, <2>4 DEF Initializing, Busy
  <2>7. OneWriter' /\ Written' /\ Stays'
    BY <2>2, <2>6 DEF OneWriter, Written, Stays
  <2> QED BY <1>1, <2>1, <2>2, <2>5, <2>7 DEF Opened, CommandsKept, OpeningTypeOK
<1>5. ASSUME NEW step \in Steps, pc' = [pc EXCEPT ![o] = step], Initializing(o),
             step \notin Busy, UNCHANGED <<accepted, applied, crashes>>, database' \in Files,
             database'.exists, database'.commands = database.commands,
             database'.version # 1 \/ database'.version = database.version
      PROVE  Opened'
  <2>1. pc' \in [Openers -> Steps] /\ OneWriter' /\ Written' /\ Stays'
    BY <1>1, <1>2, <1>5, StepApart DEF Files
  <2> QED BY <1>1, <1>5, <2>1 DEF Opened, CommandsKept, OpeningTypeOK
<1>6. CASE WriteTables(o)
  <2>1. database' = [database EXCEPT !.tables = TRUE] /\ pc' = [pc EXCEPT ![o] = "tables"]
        /\ UNCHANGED <<accepted, applied, crashes>> /\ Initializing(o)
    BY <1>6 DEF WriteTables, Proceed, Initializing
  <2>2. database' \in Files /\ database'.exists /\ database'.commands = database.commands
        /\ database'.version = database.version
    BY <1>1, <1>2, <2>1 DEF Files
  <2>3. "tables" \in Steps /\ "tables" \notin Busy
    BY DEF Steps, Busy
  <2> QED BY <1>5, <2>1, <2>2, <2>3
<1>7. CASE WriteVersion(o)
  <2>1. database' = [database EXCEPT !.intent = "complete", !.version = CurrentSchema]
        /\ pc' = [pc EXCEPT ![o] = "schema"]
        /\ UNCHANGED <<accepted, applied, crashes>> /\ Initializing(o)
    BY <1>7 DEF WriteVersion, Proceed, Initializing
  <2>2. database' \in Files /\ database'.exists /\ database'.commands = database.commands
        /\ database'.version # 1
    <3>1. CurrentSchema \in 0..CurrentSchema /\ CurrentSchema # 1
      BY DEF CurrentSchema
    <3>2. database' \in Files
      BY <1>1, <2>1, <3>1 DEF Files
    <3> QED BY <1>1, <1>2, <2>1, <3>1, <3>2 DEF Files
  <2>3. "schema" \in Steps /\ "schema" \notin Busy
    BY DEF Steps, Busy
  <2> QED BY <1>5, <2>1, <2>2, <2>3
<1>8. CASE WriteSettings(o)
  <2>1. database' = [database EXCEPT !.settings = TRUE] /\ pc' = [pc EXCEPT ![o] = "seeding"]
        /\ UNCHANGED <<accepted, applied, crashes>> /\ Initializing(o)
    BY <1>8 DEF WriteSettings, Proceed, Initializing
  <2>2. database' \in Files /\ database'.exists /\ database'.commands = database.commands
        /\ database'.version = database.version
    BY <1>1, <1>2, <2>1 DEF Files
  <2>3. "seeding" \in Steps /\ "seeding" \notin Busy
    BY DEF Steps, Busy
  <2> QED BY <1>5, <2>1, <2>2, <2>3
<1>9. CASE Seed(o)
  <2>1. database' = database /\ pc' = [pc EXCEPT ![o] = "closed"]
        /\ UNCHANGED <<accepted, applied, crashes>> /\ Initializing(o)
    BY <1>9 DEF Seed, Proceed, Initializing
  <2>2. "closed" \in Steps /\ "closed" \notin Busy
    BY DEF Steps, Busy
  <2> QED BY <1>1, <1>2, <1>5, <2>1, <2>2
<1>10. CASE InitFails(o)
  <2>1. /\ Initializing(o) /\ database' = NoFile /\ accepted' = {}
        /\ pc' = [q \in Openers |-> IF q = o \/ pc[q] = "open" THEN "closed" ELSE pc[q]]
        /\ UNCHANGED <<applied, crashes>>
    BY <1>10 DEF InitFails, Removed
  <2>2. database' \in Files
    BY <2>1 DEF Files, NoFile, CurrentSchema
  <2>3. pc' \in [Openers -> Steps]
    BY <1>1, <2>1 DEF Steps
  <2>4. \A q \in Openers : ~Initializing(q)' /\ pc'[q] \notin Busy
    <3>1. \A q \in Openers : pc[q] \notin Busy /\ (Initializing(q) => q = o)
      BY <2>1 DEF Opened, Stays, OneWriter
    <3> QED BY <2>1, <3>1 DEF Initializing, Busy
  <2>5. OneWriter' /\ Written' /\ Stays'
    BY <2>4 DEF OneWriter, Written, Stays
  <2> QED BY <1>1, <2>1, <2>2, <2>3, <2>5 DEF Opened, CommandsKept, OpeningTypeOK
<1> QED BY <1>3, <1>4, <1>6, <1>7, <1>8, <1>9, <1>10

\* So does a process that uses the file: the migration copies every command, and
\* a version 1 file is not one that is being written.
LEMMA OpenedUse ==
  ASSUME Opened, NEW o \in Openers,
         OpenerStep(o) \/ MigrationFails(o) \/ Kill(o)
  PROVE  Opened'
<1>1. /\ database \in Files /\ pc \in [Openers -> Steps]
      /\ accepted \subseteq database.commands /\ accepted \subseteq OldCommands \cup NewCommands
      /\ applied \in Nat /\ crashes \in 0..MaxCrashes
      /\ (~database.exists => database = NoFile)
  BY DEF Opened, CommandsKept, OpeningTypeOK
<1>2. ASSUME NEW step \in {"closed", "refused", "open", "intended"}, pc' = [pc EXCEPT ![o] = step],
             step = "intended" => pc[o] \in Busy, database' \in Files,
             database'.exists = database.exists, ~database'.exists => database' = database,
             database'.version # 1 \/ database'.version = database.version,
             accepted' \subseteq database'.commands, accepted' \subseteq OldCommands \cup NewCommands,
             applied' \in Nat, crashes' \in 0..MaxCrashes
      PROVE  Opened'
  <2>1. step \in Steps /\ step \notin {"created", "tables", "schema", "seeding"}
        /\ (step \in Busy => pc[o] \in Busy)
    BY <1>2 DEF Steps, Busy
  <2>2. pc' \in [Openers -> Steps] /\ OneWriter' /\ Written' /\ Stays'
    BY <1>2, <2>1, StepApart
  <2> QED BY <1>1, <1>2, <2>2 DEF Opened, CommandsKept, OpeningTypeOK
<1>3. CASE Connect(o) /\ Verdict # "outdated"
  <2>1. database' = database /\ UNCHANGED <<accepted, applied, crashes>>
        /\ pc' = [pc EXCEPT ![o] = Verdict] /\ Verdict \in {"open", "refused"}
    BY <1>3 DEF Connect, Proceed, Verdict
  <2> QED BY <1>1, <1>2, <2>1
<1>4. CASE Connect(o) /\ Verdict = "outdated"
  <2>1. database' = database /\ UNCHANGED <<accepted, applied, crashes>>
        /\ pc' = [pc EXCEPT ![o] = "outdated"] /\ database.exists /\ database.version = 1
    BY <1>4 DEF Connect, Proceed, Verdict
  <2>2. \A q \in Openers : ~Initializing(q)
    BY <2>1 DEF Opened, Written
  <2>3. \A q \in Openers : pc'[q] = IF q = o THEN "outdated" ELSE pc[q]
    BY <1>1, <2>1
  <2>4. pc' \in [Openers -> Steps]
    BY <1>1, <2>1 DEF Steps
  <2>5. \A q \in Openers : ~Initializing(q)'
    BY <2>2, <2>3 DEF Initializing
  <2>6. OneWriter' /\ Written' /\ Stays'
    BY <2>1, <2>5 DEF OneWriter, Written, Stays
  <2> QED BY <1>1, <2>1, <2>4, <2>6 DEF Opened, CommandsKept, OpeningTypeOK
<1>5. CASE CommitIntent(o)
  <2>1. database' = [database EXCEPT !.intent = "started"] /\ pc' = [pc EXCEPT ![o] = "intended"]
        /\ UNCHANGED <<accepted, applied, crashes>> /\ pc[o] \in Busy
    BY <1>5 DEF CommitIntent, Proceed, Busy
  <2>2. database.exists
    BY <2>1 DEF Opened, Stays
  <2>3. database' \in Files /\ database'.exists /\ database'.commands = database.commands
        /\ database'.version = database.version
    BY <1>1, <2>1, <2>2 DEF Files
  <2> QED BY <1>1, <1>2, <2>1, <2>2, <2>3
<1>6. CASE Migrate(o)
  <2>1. /\ database' = [database EXCEPT !.version = CurrentSchema, !.intent = "complete",
                                       !.commands = database.commands]
        /\ pc' = [pc EXCEPT ![o] = "open"] /\ applied' = applied + 1
        /\ UNCHANGED <<accepted, crashes>> /\ pc[o] \in Busy
    BY <1>6 DEF Migrate, Proceed, Rebuilt, Busy
  <2>2. database.exists
    BY <2>1 DEF Opened, Stays
  <2>3. database' \in Files /\ database'.exists /\ database'.commands = database.commands
        /\ database'.version # 1
    <3>1. CurrentSchema \in 0..CurrentSchema /\ CurrentSchema # 1
      BY DEF CurrentSchema
    <3>2. database' \in Files
      BY <1>1, <2>1, <3>1 DEF Files
    <3> QED BY <1>1, <2>1, <2>2, <3>1, <3>2 DEF Files
  <2>4. applied' \in Nat
    BY <1>1, <2>1
  <2> QED BY <1>1, <1>2, <2>1, <2>2, <2>3, <2>4
<1>7. CASE Transact(o) /\ database.version = CurrentSchema /\ database.settings
  <2>1. PICK c \in NewCommands \cup OldCommands :
          /\ database' = [database EXCEPT !.commands = @ \cup {c}]
          /\ accepted' = accepted \cup {c}
    BY <1>7 DEF Transact
  <2>2. pc' = [pc EXCEPT ![o] = "closed"] /\ UNCHANGED <<applied, crashes>>
    BY <1>7 DEF Transact, Proceed
  <2>3. database.exists
    BY <1>1, <1>7 DEF NoFile
  <2>4. database' \in Files /\ database'.exists /\ database'.version = database.version
        /\ database'.commands = database.commands \cup {c}
    BY <1>1, <2>1, <2>3 DEF Files
  <2> QED BY <1>1, <1>2, <2>1, <2>2, <2>3, <2>4
<1>8. CASE Transact(o) /\ ~(database.version = CurrentSchema /\ database.settings)
  <2>1. pc' = [pc EXCEPT ![o] = "closed"] /\ UNCHANGED <<database, accepted, applied, crashes>>
    BY <1>8 DEF Transact, Proceed
  <2> QED BY <1>1, <1>2, <2>1
<1>9. CASE Retry(o) \/ MigrationFails(o)
  <2>1. (\/ pc' = [pc EXCEPT ![o] = "closed"] \/ pc' = [pc EXCEPT ![o] = "refused"])
        /\ UNCHANGED <<database, accepted, applied, crashes>>
    BY <1>9 DEF Retry, MigrationFails, Proceed
  <2> QED BY <1>1, <1>2, <2>1
<1>10. CASE Kill(o)
  <2>1. pc' = [pc EXCEPT ![o] = "closed"] /\ UNCHANGED <<database, accepted, applied>>
        /\ crashes < MaxCrashes /\ crashes' = crashes + 1
    BY <1>10 DEF Kill, Proceed
  <2>2. crashes' \in 0..MaxCrashes
    BY <1>1, <2>1, OpeningAssumption
  <2> QED BY <1>1, <1>2, <2>1, <2>2
<1> QED BY <1>3, <1>4, <1>5, <1>6, <1>7, <1>8, <1>9, <1>10 DEF OpenerStep

\* Every step keeps the invariant.
LEMMA OpenedStep == Opened /\ [OpeningNext]_openingVars => Opened'
<1> SUFFICES ASSUME Opened, [OpeningNext]_openingVars PROVE Opened'
  OBVIOUS
<1>1. CASE UNCHANGED openingVars
  BY <1>1 DEF openingVars, Opened, CommandsKept, OpeningTypeOK, OneWriter, Written, Stays,
              Initializing
<1>2. CASE OpeningNext
  BY <1>2, OpenedInitialize, OpenedUse DEF OpeningNext
<1> QED BY <1>1, <1>2

\* For any number of openers, commands and kills: whoever creates, opens and
\* migrates the store at the same time, and wherever it is cut, every command whose
\* transaction was committed in the file is still in it (initialize, _migrate).
THEOREM AcceptedCommandsKept == OpeningSpec => []CommandsKept
<1>1. Opened => CommandsKept
  BY DEF Opened
<1> QED BY <1>1, OpenedInit, OpenedStep, PTL DEF OpeningSpec
=============================================================================
