------------------------------ MODULE TaskProofs ------------------------------
(***************************************************************************)
(* The task core, for every number of tasks, workers, rows, launches and   *)
(* keys:                                                                   *)
(*   - type correctness, by what each step does to the rows it writes;     *)
(*   - who holds capacity: slots match the current attempts of Scheduled   *)
(*     and Running tasks, what executes holds one, no task is executed     *)
(*     twice at a time, and max_active bounds them all;                    *)
(*   - what may become of a row: an attempt is claimed once, an Unknown    *)
(*     one waits for the operator, a terminal task is frozen, and a        *)
(*     success is one that was reported in time and never rejected;        *)
(*   - how often and when a task is retried, and that the core implements  *)
(*     what TaskContract promises its callers;                             *)
(*   - what is charged to a task: the sum of what its attempts used.       *)
(***************************************************************************)
EXTENDS TaskProperties, TaskRefinement, SumLemmas, FiniteSetTheorems, TLAPS

----------------------------------------------------------------------------
\* Type correctness

\* What TypeOK says of one row of the table tasks, and of one of attempts.
TaskTyped(row) == row \in TaskRow /\ row.current \in Numbers \cup {0}

AttemptTyped(att) ==
  att \in AttemptRow /\ (att.kind = "not_started" => att.state = "Cancelled")

\* A task's current attempt, when it has one, is a row of its type.
LEMMA CurrentTyped ==
  ASSUME TypeOK, NEW t \in Tasks, HasCurrent(t)
  PROVE  Current(t) \in Attempts /\ AttemptTyped(attempt[Current(t)])
  BY DEF TypeOK, HasCurrent, Current, Attempts, AttemptTyped

\* executions() counts rows of the task.
LEMMA ExecutionsRange ==
  ASSUME NEW t \in Tasks
  PROVE  Executions(t) \in 0..MaxRows
<1> DEFINE E == {n \in Numbers : /\ attempt[<<t, n>>].state # "None"
                                 /\ attempt[<<t, n>>].kind # "not_started"}
<1>1. MaxRows \in Nat
  BY ConstantsAssumption
<1>2. IsFiniteSet(Numbers) /\ Cardinality(Numbers) = MaxRows
  BY <1>1, FS_Interval DEF Numbers
<1>3. IsFiniteSet(E) /\ Cardinality(E) <= MaxRows
  BY <1>2, FS_Subset
<1> QED
  BY <1>1, <1>3, FS_CardinalityType DEF Executions

\* An attempt that is not a confirmed non-start counts as an execution.
LEMMA ExecutionsCount ==
  ASSUME NEW t \in Tasks, NEW n \in Numbers,
         attempt[<<t, n>>].state # "None", attempt[<<t, n>>].kind # "not_started"
  PROVE  Executions(t) \in 1..MaxRows
<1> DEFINE E == {m \in Numbers : /\ attempt[<<t, m>>].state # "None"
                                 /\ attempt[<<t, m>>].kind # "not_started"}
<1>1. n \in E
  OBVIOUS
<1>2. IsFiniteSet(E)
  <2>1. IsFiniteSet(Numbers)
    BY FS_Interval, ConstantsAssumption DEF Numbers
  <2> QED
    BY <2>1, FS_Subset
<1>3. Cardinality(E) # 0
  BY <1>1, <1>2, FS_EmptySet
<1> QED
  BY <1>3, ExecutionsRange, ConstantsAssumption DEF Executions

\* The delay before a retry is a natural number once something was executed.
LEMMA DelayTyped ==
  ASSUME NEW t \in Tasks, Executions(t) \in 1..MaxRows
  PROVE  Delay(t, Executions(t)) \in Nat
  BY DelayAssumption

\* settle's accounting touches the usage of the task only.
LEMMA ChargedTyped ==
  ASSUME NEW row, TaskTyped(row), NEW att, AttemptTyped(att)
  PROVE  TaskTyped(Charged(row, att)) /\ Charged(row, att).current = row.current
<1>1. row.tokensUsed + att.known \in Nat
  BY DEF TaskTyped, AttemptTyped, TaskRow, AttemptRow
<1>2. (row.usageUnknown \/ ~att.usageKnown) \in BOOLEAN
  OBVIOUS
<1> DEFINE unknown == row.usageUnknown \/ ~att.usageKnown
<1>3. Charged(row, att) = [row EXCEPT !.tokensUsed = @ + att.known,
                                      !.usageUnknown = unknown]
  BY DEF Charged
<1> HIDE DEF unknown
<1>4. unknown \in BOOLEAN
  BY <1>2 DEF unknown
<1> QED
  BY <1>1, <1>3, <1>4 DEF TaskTyped, TaskRow

\* settle leaves a task row of its type.
LEMMA SettledTyped ==
  ASSUME TypeOK, NEW t \in Tasks, NEW row, TaskTyped(row), NEW att, AttemptTyped(att),
         NEW kind \in Kinds,
         kind \in {"transient", "validation"} => Executions(t) \in 1..MaxRows
  PROVE  TaskTyped(Settled(t, row, att, kind))
<1> DEFINE paid == Charged(row, att)
<1>1. TaskTyped(paid)
  BY ChargedTyped
<1>2. ASSUME NEW at \in Nat PROVE TaskTyped(Requeued(paid, at))
  BY <1>1, <1>2 DEF TaskTyped, TaskRow, Requeued
<1>3. ASSUME NEW s \in Terminal PROVE TaskTyped([paid EXCEPT !.status = s])
  BY <1>1, <1>3 DEF TaskTyped, TaskRow
<1>4. now \in Nat
  BY DEF TypeOK
<1>5. Retryable(t, kind, paid) => now + Delay(t, Executions(t)) \in Nat
  <2>1. SpecOf[t].on \subseteq {"transient", "validation"}
    BY ConstantsAssumption DEF SpecForm
  <2> QED
    BY <2>1, <1>4, DelayTyped DEF Retryable
<1>6. Outcome(row.intent) \in Terminal
  BY DEF Outcome, Terminal
<1> HIDE DEF paid
<1>7. CASE row.intent # "Run"
  <2>1. Settled(t, row, att, kind) = [paid EXCEPT !.status = Outcome(row.intent)]
    BY <1>7 DEF Settled, paid
  <2> QED
    BY <2>1, <1>3, <1>6
<1>8. CASE row.intent = "Run" /\ kind = "not_started"
  <2>1. Settled(t, row, att, kind) = Requeued(paid, now)
    BY <1>8 DEF Settled, paid
  <2> QED
    BY <2>1, <1>2, <1>4
<1>9. CASE row.intent = "Run" /\ kind = "none"
  <2>1. Settled(t, row, att, kind) = [paid EXCEPT !.status = "Succeeded"]
    BY <1>9 DEF Settled, paid
  <2> QED
    BY <2>1, <1>3 DEF Terminal
<1>10. CASE row.intent = "Run" /\ kind \notin {"none", "not_started"}
  <2>1. Settled(t, row, att, kind) =
          IF Retryable(t, kind, paid)
          THEN Requeued(paid, now + Delay(t, Executions(t)))
          ELSE [paid EXCEPT !.status = "Failed"]
    BY <1>10 DEF Settled, paid
  <2> QED
    BY <2>1, <1>2, <1>3, <1>5 DEF Terminal
<1> QED
  BY <1>7, <1>8, <1>9, <1>10

\* The early ends of the sweep leave an attempt row of its type.
LEMMA UnstartedTyped ==
  ASSUME TypeOK, NEW att, AttemptTyped(att), NEW kind \in {"cancelled", "not_started"}
  PROVE  AttemptTyped(Unstarted(att, kind))
<1>1. att.sequence + 1 \in Nat
  BY DEF AttemptTyped, AttemptRow
<1>2. now \in Nat
  BY DEF TypeOK
<1>3. Unstarted(att, kind) \in AttemptRow
  BY <1>1, <1>2 DEF AttemptTyped, AttemptRow, Unstarted, Kinds, Terminal
<1>4. Unstarted(att, kind).state = "Cancelled"
  BY DEF AttemptTyped, AttemptRow, Unstarted
<1> QED
  BY <1>3, <1>4 DEF AttemptTyped

LEMMA LostTyped ==
  ASSUME NEW att, AttemptTyped(att)
  PROVE  AttemptTyped(Lost(att))
<1>1. att.sequence + 1 \in Nat
  BY DEF AttemptTyped, AttemptRow
<1>2. Lost(att) \in AttemptRow
  BY <1>1 DEF AttemptTyped, AttemptRow, Lost, Kinds
<1>3. Lost(att).kind = "unknown"
  BY DEF AttemptTyped, AttemptRow, Lost
<1> QED
  BY <1>2, <1>3 DEF AttemptTyped

LEMMA SettledAttemptTyped ==
  ASSUME NEW att, AttemptTyped(att)
  PROVE  AttemptTyped(SettledAttempt(att))
  BY DEF AttemptTyped, AttemptRow, SettledAttempt

\* What the sweep can make of the current attempt of a task.
LEMMA InspectedCases ==
  ASSUME NEW t \in Tasks, NEW unseen
  PROVE  LET att == attempt[Current(t)]
             seen == Inspected(t, unseen)
         IN \/ seen = att
            \/ /\ att.state = "Queued"
               /\ \E kind \in {"cancelled", "not_started"} : seen = Unstarted(att, kind)
            \/ /\ att.state \in {"Launching", "Running"} /\ seen = Lost(att)
  BY DEF Inspected, Unclaimed

LEMMA InspectedTyped ==
  ASSUME TypeOK, NEW t \in Tasks, HasCurrent(t), NEW unseen
  PROVE  AttemptTyped(Inspected(t, unseen))
  BY CurrentTyped, InspectedCases, UnstartedTyped, LostTyped

\* An attempt the sweep settles as a failure that may be retried was executed.
LEMMA InspectedExecuted ==
  ASSUME TypeOK, NEW t \in Tasks, HasCurrent(t), NEW unseen,
         SettlesNow(Inspected(t, unseen)),
         Inspected(t, unseen).kind \in {"transient", "validation"}
  PROVE  Executions(t) \in 1..MaxRows
<1> DEFINE att == attempt[Current(t)]
           seen == Inspected(t, unseen)
<1>1. seen = att
  <2>1. AttemptTyped(att)
    BY CurrentTyped
  <2>2. ASSUME NEW kind \in {"cancelled", "not_started"}, seen = Unstarted(att, kind)
        PROVE  FALSE
    <3>1. Unstarted(att, kind).kind = kind
      BY <2>1 DEF Unstarted, AttemptTyped, AttemptRow
    <3> QED
      BY <2>2, <3>1
  <2>3. seen # Lost(att)
    <3>1. Lost(att).state = "Unknown"
      BY <2>1 DEF Lost, AttemptTyped, AttemptRow
    <3> QED
      BY <3>1 DEF SettlesNow
  <2> QED
    BY <2>2, <2>3, InspectedCases
<1>2. task[t].current \in Numbers /\ Current(t) = <<t, task[t].current>>
  BY DEF TypeOK, HasCurrent, Current
<1>3. att.state # "None" /\ att.kind # "not_started"
  BY <1>1 DEF SettlesNow
<1> QED
  BY <1>2, <1>3, ExecutionsCount

\* The sweep leaves every task row and every attempt row of its type.
LEMMA SweptTaskTyped ==
  ASSUME TypeOK, NEW t \in Tasks, NEW unseen
  PROVE  TaskTyped(SweptTask(t, unseen))
<1> DEFINE row == [task[t] EXCEPT !.intent = SweptIntent(t)]
           seen == Inspected(t, unseen)
<1>1. TaskTyped(task[t])
  BY DEF TypeOK, TaskTyped
<1>2. SweptIntent(t) \in Intents
  BY <1>1 DEF SweptIntent, Intents, TaskTyped, TaskRow
<1>3. TaskTyped(row) /\ row.intent = SweptIntent(t)
  BY <1>1, <1>2 DEF TaskTyped, TaskRow
<1>4. ASSUME NEW s \in {"Running"} \cup Terminal
      PROVE  TaskTyped([row EXCEPT !.status = s])
  BY <1>3 DEF TaskTyped, TaskRow
<1>5. Outcome(row.intent) \in Terminal
  BY DEF Outcome, Terminal
<1>6. CASE ~Open(t)
  BY <1>6, <1>1 DEF SweptTask
<1>7. CASE Open(t) /\ row.status = "Pending"
  <2>1. SweptTask(t, unseen) \in {row, [row EXCEPT !.status = Outcome(row.intent)]}
    BY <1>7 DEF SweptTask
  <2> QED
    BY <2>1, <1>3, <1>4, <1>5
<1>8. CASE Open(t) /\ row.status # "Pending" /\ ~HasCurrent(t)
  <2>1. SweptTask(t, unseen) = row
    BY <1>8 DEF SweptTask
  <2> QED
    BY <2>1, <1>3
<1>9. CASE Open(t) /\ row.status # "Pending" /\ HasCurrent(t)
  <2>1. \/ SettlesNow(seen) /\ SweptTask(t, unseen) = Settled(t, row, seen, seen.kind)
        \/ SweptTask(t, unseen) \in {row, [row EXCEPT !.status = "Running"]}
    BY <1>9 DEF SweptTask
  <2>2. SettlesNow(seen) => TaskTyped(Settled(t, row, seen, seen.kind))
    <3>1. AttemptTyped(seen)
      BY <1>9, InspectedTyped
    <3>2. seen.kind \in Kinds
      BY <3>1 DEF AttemptTyped, AttemptRow
    <3> HIDE DEF row
    <3> QED
      BY <1>3, <1>9, <3>1, <3>2, SettledTyped, InspectedExecuted
  <2> QED
    BY <2>1, <2>2, <1>3, <1>4
<1> QED
  BY <1>6, <1>7, <1>8, <1>9

LEMMA SweptAttemptTyped ==
  ASSUME TypeOK, NEW a \in Attempts, NEW unseen
  PROVE  AttemptTyped(SweptAttempts(unseen)[a])
<1>1. AttemptTyped(attempt[a])
  BY DEF TypeOK, AttemptTyped
<1>2. a[1] \in Tasks
  BY DEF Attempts
<1>3. Swept(a[1]) => HasCurrent(a[1])
  BY DEF Swept
<1> QED
  BY <1>1, <1>2, <1>3, InspectedTyped, SettledAttemptTyped DEF SweptAttempts

\* TypeOK is kept by a step that keeps each table it touches typed.
TaskTable(T) == T \in [Tasks -> TaskRow] /\ \A t \in Tasks : TaskTyped(T[t])

AttemptTable(A) == A \in [Attempts -> AttemptRow] /\ \A a \in Attempts : AttemptTyped(A[a])

Typed == /\ TaskTable(task) /\ AttemptTable(attempt)
         /\ now \in Nat
         /\ worker \in [Workers -> WorkerRow]
         /\ command \in [Keys -> [kind : {"none", "submit", "cancel"}, task : Tasks \cup {0}]]
         /\ lastWorker \in Workers \cup {0}
         /\ check \in [Tasks -> CheckRow]
         /\ proc \in [Procs -> ProcRow]
         /\ launched \in [Workers -> SUBSET Procs]
         /\ artifact \in [Attempts -> {"none", "good", "bad"}]
         /\ faults \in Nat

LEMMA TypedTables == (TypeOK <=> Typed) /\ (TypeOK <=> Typed)'
<1>1. TypeOK <=> Typed
  BY DEF TypeOK, Typed, TaskTable, AttemptTable, TaskTyped, AttemptTyped
<1>2. (TypeOK <=> Typed)'
  BY DEF TypeOK, Typed, TaskTable, AttemptTable, TaskTyped, AttemptTyped
<1> QED
  BY <1>1, <1>2

LEMMA InitTyped == Init => TypeOK
<1> SUFFICES ASSUME Init PROVE TypeOK
  OBVIOUS
<1>1. TaskTyped(NoTask) /\ AttemptTyped(NoAttempt)
  BY ConstantsAssumption
     DEF TaskTyped, AttemptTyped, NoTask, NoAttempt, TaskRow, AttemptRow, Intents, Kinds
<1>2. TaskTable(task) /\ AttemptTable(attempt)
  BY <1>1 DEF Init, TaskTable, AttemptTable, TaskTyped, AttemptTyped
<1>3. Idle("absent") \in ProcRow
  BY DEF Idle, ProcRow, Kinds
<1>4. NoCheck \in CheckRow
  BY DEF NoCheck, CheckRow
<1> QED
  BY <1>2, <1>3, <1>4, TypedTables DEF Typed, Init, WorkerRow

LEMMA SubmitTyped ==
  ASSUME TypeOK, NEW k \in Keys, NEW t \in Tasks, Submit(k, t)
  PROVE  TypeOK'
<1>1. now + SpecOf[t].deadline \in Nat
  BY ConstantsAssumption DEF TypeOK, SpecForm
<1> DEFINE row == [NoTask EXCEPT !.status = "Pending", !.submitted = now,
                                 !.deadline = now + SpecOf[t].deadline,
                                 !.nextRun = now]
<1>2. TaskTyped(row)
  BY <1>1 DEF TypeOK, NoTask, TaskTyped, TaskRow, Intents
<1>3. task' = [task EXCEPT ![t] = row]
  BY DEF Submit
<1> HIDE DEF row
<1>4. TaskTable(task)'
  BY <1>2, <1>3, TypedTables DEF Typed, TaskTable, TaskTyped
<1> QED
  BY <1>4, TypedTables DEF Typed, Submit, AttemptTable, AttemptTyped

LEMMA CancelTyped ==
  ASSUME TypeOK, NEW k \in Keys, NEW t \in Tasks, Cancel(k, t)
  PROVE  TypeOK'
<1>1. TaskTyped(CancelledRow(task[t]))
  <2>1. TaskTyped(task[t])
    BY DEF TypeOK, TaskTyped
  <2>2. ASSUME NEW row \in TaskRow
        PROVE  CancelledRow(row) \in TaskRow /\ CancelledRow(row).current = row.current
    <3>1. /\ "user_cancelled" \in Intents /\ "Cancelled" \in Terminal
      BY DEF Intents, Terminal
    <3>2. [row EXCEPT !.intent = "user_cancelled", !.status = "Cancelled"] \in TaskRow
      BY <3>1 DEF TaskRow
    <3>3. [row EXCEPT !.intent = "user_cancelled", !.status = @] \in TaskRow
      BY <3>1 DEF TaskRow
    <3>4. CancelledRow(row) \in {row, [row EXCEPT !.intent = "user_cancelled", !.status = "Cancelled"],
                                 [row EXCEPT !.intent = "user_cancelled", !.status = @]}
      BY DEF CancelledRow
    <3> QED
      BY <3>2, <3>3, <3>4 DEF TaskRow
  <2> QED
    BY <2>1, <2>2 DEF TaskTyped
<1>2. TaskTable(task)'
  BY <1>1, TypedTables DEF Typed, Cancel, TaskTable, TaskTyped
<1> QED
  BY <1>2, TypedTables DEF Typed, Cancel, AttemptTable, AttemptTyped

\* The order of schedule's query is total, so a set of tasks has a last one.
LEMMA LastTask ==
  ASSUME TypeOK, NEW S \in SUBSET Tasks, S # {}
  PROVE  \E u \in S : \A v \in S : v = u \/ Precedes(v, u)
<1> DEFINE Before(u) == {v \in S : Precedes(v, u)}
           rank(u) == Cardinality(S) - Cardinality(Before(u))
           Ranks == {rank(u) : u \in S}
<1>1. IsFiniteSet(S)
  BY ConstantsAssumption, FS_Subset
<1>2. ASSUME NEW u \in S
      PROVE  /\ IsFiniteSet(Before(u))
             /\ Cardinality(Before(u)) \in Nat
             /\ Cardinality(Before(u)) <= Cardinality(S)
  BY <1>1, FS_Subset, FS_CardinalityType
<1>3. \A u \in S : rank(u) \in Nat
  <2>1. Cardinality(S) \in Nat
    BY <1>1, FS_CardinalityType
  <2> HIDE DEF Before
  <2> QED
    BY <2>1, <1>2
<1>4. PICK u \in S : \A v \in S : ~(rank(v) < rank(u))
  <2> HIDE DEF rank
  <2>1. Ranks \subseteq Nat /\ Ranks # {}
    BY <1>3
  <2>2. PICK m \in Ranks : \A k \in Ranks : ~(<<k, m>> \in OpToRel(<, Nat))
    BY <2>1, NatLessThanWellFounded, WFMin
  <2> QED
    BY <2>1, <2>2, <1>3 DEF OpToRel
<1>5. ASSUME NEW v \in S, v # u, ~Precedes(v, u)
      PROVE  FALSE
  <2>1. /\ u \in Nat /\ v \in Nat
        /\ \A w \in S : task[w].submitted \in Nat /\ w \in Nat
    BY ConstantsAssumption DEF TypeOK, TaskRow
  <2>2. Precedes(u, v) /\ ~Precedes(u, u)
    BY <2>1, <1>5 DEF Precedes
  <2>3. Before(u) \cup {u} \subseteq Before(v)
    <3>1. \A w \in S : Precedes(w, u) => Precedes(w, v)
      BY <2>1, <2>2 DEF Precedes
    <3> QED
      BY <3>1, <2>2
  <2>4. u \notin Before(u)
    BY <2>2
  <2> HIDE DEF Before
  <2>5. Cardinality(Before(u) \cup {u}) = Cardinality(Before(u)) + 1
    BY <2>4, <1>2, FS_AddElement
  <2>6. Cardinality(Before(u) \cup {u}) <= Cardinality(Before(v))
    BY <2>3, <1>2, FS_Subset
  <2>7. Cardinality(S) \in Nat
    BY <1>1, FS_CardinalityType
  <2> QED
    BY <2>5, <2>6, <2>7, <1>2, <1>4
<1> QED
  BY <1>5

\* The number schedule gives to the next attempt of a task it can place.
LEMMA NextNumberTyped ==
  ASSUME NEW t \in Tasks, NextNumber(t) <= MaxRows
  PROVE  NextNumber(t) \in Numbers
<1> DEFINE R == {n \in Numbers : attempt[<<t, n>>].state # "None"}
<1>1. IsFiniteSet(Numbers)
  BY FS_Interval, ConstantsAssumption DEF Numbers
<1>2. Cardinality(R) \in Nat
  BY <1>1, FS_Subset, FS_CardinalityType
<1> QED
  BY <1>2, ConstantsAssumption DEF NextNumber, Numbers

LEMMA QueuedTyped ==
  ASSUME NEW w \in Workers
  PROVE  AttemptTyped(Queued(w))
<1>1. AttemptTyped(NoAttempt) /\ NoAttempt.kind = "none"
  BY ConstantsAssumption DEF AttemptTyped, NoAttempt, AttemptRow, Kinds
<1>2. Queued(w) \in AttemptRow
  BY <1>1 DEF Queued, AttemptTyped, AttemptRow
<1>3. Queued(w).kind = "none"
  BY <1>1 DEF Queued, AttemptTyped, AttemptRow
<1> QED
  BY <1>2, <1>3 DEF AttemptTyped

LEMMA TickTyped ==
  ASSUME TypeOK, Tick
  PROVE  TypeOK'
<1>1. PICK unseen \in SUBSET Unreadable, place \in [Tasks -> Workers \cup {0}] :
        Admit([t \in Tasks |-> SweptTask(t, unseen)], SweptAttempts(unseen), place)
  BY DEF Tick
<1>2. TaskTable(task)'
  <2>1. ASSUME NEW t \in Tasks PROVE TaskTyped(task'[t])
    <3>1. TaskTyped(SweptTask(t, unseen))
      BY SweptTaskTyped
    <3>2. CASE place[t] = 0
      BY <3>1, <3>2, <1>1 DEF Admit
    <3>3. CASE place[t] # 0
      <4>1. NextNumber(t) <= MaxRows
        BY <3>3, <1>1 DEF Admit, IsSchedule, Placeable
      <4>2. NextNumber(t) \in Numbers /\ NextNumber(t) \in Nat
        BY <4>1, NextNumberTyped, ConstantsAssumption DEF Numbers
      <4>3. task'[t] = [SweptTask(t, unseen) EXCEPT !.status = "Scheduled",
                                                   !.current = NextNumber(t)]
        BY <1>1, <3>3 DEF Admit
      <4> QED
        BY <3>1, <4>2, <4>3 DEF TaskTyped, TaskRow
    <3> QED
      BY <3>2, <3>3
  <2>2. task' = [t \in Tasks |-> task'[t]]
    BY <1>1 DEF Admit
  <2> QED
    BY <2>1, <2>2 DEF TaskTable, TaskTyped
<1>3. AttemptTable(attempt)'
  <2>1. ASSUME NEW a \in Attempts PROVE AttemptTyped(attempt'[a])
    <3>1. ASSUME NEW w \in Workers PROVE AttemptTyped(Queued(w))
      BY QueuedTyped
    <3>2. a[1] \in Tasks
      BY DEF Attempts
    <3> QED
      BY <3>1, <3>2, <1>1, SweptAttemptTyped DEF Admit
  <2>2. attempt' = [a \in Attempts |-> attempt'[a]]
    BY <1>1 DEF Admit
  <2> QED
    BY <2>1, <2>2 DEF AttemptTable, AttemptTyped
<1>4. lastWorker' \in Workers \cup {0}
  <2>1. Placed(place) \in SUBSET Tasks
    BY DEF Placed
  <2>2. CASE Placed(place) # {}
    BY <2>1, <2>2, <1>1, LastTask DEF Admit
  <2> QED
    BY <2>2, <1>1 DEF TypeOK, Admit
<1>5. check' \in [Tasks -> CheckRow]
  <2>1. ASSUME NEW t \in Tasks, Swept(t)
        PROVE  [stage |-> "listed", number |-> task[t].current,
                intent |-> IF SweptIntent(t) = "Run" THEN "Run" ELSE "Cancel"] \in CheckRow
    <3>1. task[t].current \in Numbers
      BY <2>1 DEF TypeOK, Swept, HasCurrent
    <3> QED
      BY <3>1 DEF CheckRow
  <2>2. NoCheck \in CheckRow
    BY DEF NoCheck, CheckRow
  <2> QED
    BY <2>1, <2>2 DEF Tick
<1> QED
  BY <1>2, <1>3, <1>4, <1>5, TypedTables DEF Typed, Tick

\* A validation under way is about a row of its task.
LEMMA CheckedTyped ==
  ASSUME TypeOK, NEW t \in Tasks, check[t].stage # "none"
  PROVE  /\ check[t] \in [stage : {"listed", "valid", "confirmed", "rejected"},
                         number : Numbers, intent : {"Run", "Cancel"}]
         /\ Checked(t) \in Attempts /\ AttemptTyped(attempt[Checked(t)])
  BY DEF TypeOK, CheckRow, NoCheck, Checked, Attempts, AttemptTyped

LEMMA CheckStepTyped ==
  ASSUME TypeOK, NEW t \in Tasks, check[t].stage # "none",
         NEW stage \in {"listed", "valid", "confirmed", "rejected"}
  PROVE  [check EXCEPT ![t].stage = stage] \in [Tasks -> CheckRow]
  BY CheckedTyped DEF TypeOK, CheckRow

LEMMA ValidationTyped ==
  ASSUME TypeOK, NEW t \in Tasks, Prevalidate(t) \/ Recheck(t) \/ ValidationFault(t)
  PROVE  TypeOK'
<1>1. NoCheck \in CheckRow
  BY DEF CheckRow
<1>2. check' \in [Tasks -> CheckRow]
  <2>1. CASE Prevalidate(t)
    BY <2>1, CheckStepTyped DEF Prevalidate
  <2>2. CASE Recheck(t)
    BY <2>2, CheckStepTyped DEF Recheck
  <2>3. CASE ValidationFault(t)
    BY <2>3, <1>1 DEF ValidationFault, TypeOK
  <2> QED
    BY <2>1, <2>2, <2>3
<1>3. faults' \in Nat
  BY DEF TypeOK, Prevalidate, Recheck, ValidationFault
<1> QED
  BY <1>2, <1>3, TypedTables
     DEF Typed, Prevalidate, Recheck, ValidationFault, TaskTable, AttemptTable, TaskTyped, AttemptTyped

LEMMA ManagerCrashTyped ==
  ASSUME TypeOK, ManagerCrash
  PROVE  TypeOK'
  BY TypedTables
     DEF Typed, ManagerCrash, TaskTable, AttemptTable, TaskTyped, AttemptTyped, CheckRow

LEMMA SettleValidatedTyped ==
  ASSUME TypeOK, NEW t \in Tasks, SettleValidated(t)
  PROVE  TypeOK'
<1> DEFINE att == attempt[Checked(t)]
           kind == IF check[t].stage = "confirmed" THEN "none" ELSE "validation"
           new == Judged(att, task[t].intent, kind)
<1>1. Checked(t) \in Attempts /\ AttemptTyped(att)
  BY CheckedTyped DEF SettleValidated
<1>2. CASE UNCHANGED <<task, attempt>>
  BY <1>2, TypedTables
     DEF Typed, SettleValidated, TaskTable, AttemptTable, TaskTyped, AttemptTyped, CheckRow
<1>3. CASE /\ VerdictApplies(t)
           /\ task' = [task EXCEPT ![t] = Settled(t, VerdictRow(t), att, kind)]
           /\ attempt' = [attempt EXCEPT ![Checked(t)] = new]
  <2>1. att.state = "Succeeded" /\ att.kind # "not_started"
    BY <1>1, <1>3 DEF VerdictApplies, Validates, AttemptTyped
  <2>2. Executions(t) \in 1..MaxRows
    BY <1>1, <2>1, ExecutionsCount DEF Checked, Attempts
  <2>3. TaskTyped(Settled(t, VerdictRow(t), att, kind))
    <3>1. TaskTyped(VerdictRow(t))
      BY DEF VerdictRow, TypeOK, TaskTyped
    <3>2. kind \in Kinds
      BY DEF Kinds
    <3> HIDE DEF kind
    <3> QED
      BY <3>1, <3>2, <1>1, <2>2, SettledTyped
  <2>4. AttemptTyped(new)
    <3>1. AttemptTyped(SettledAttempt(att)) /\ SettledAttempt(att).kind = att.kind
      BY <1>1, SettledAttemptTyped DEF SettledAttempt, AttemptTyped, AttemptRow
    <3>2. kind \in {"none", "validation"}
      OBVIOUS
    <3> HIDE DEF kind
    <3>3. new \in AttemptRow
      BY <3>1, <3>2 DEF AttemptTyped, AttemptRow, Kinds, Judged
    <3>4. new.kind # "not_started"
      BY <3>1, <3>2, <2>1 DEF AttemptTyped, AttemptRow, Judged
    <3> QED
      BY <3>3, <3>4 DEF AttemptTyped
  <2>5. TaskTable(task)'
    BY <1>3, <2>3, TypedTables DEF Typed, TaskTable, TaskTyped
  <2>6. AttemptTable(attempt)'
    BY <1>1, <1>3, <2>4, TypedTables DEF Typed, AttemptTable, AttemptTyped
  <2> QED
    BY <2>5, <2>6, TypedTables DEF Typed, SettleValidated, CheckRow
<1> QED
  BY <1>2, <1>3 DEF SettleValidated

LEMMA ResolveTyped ==
  ASSUME TypeOK, NEW a \in Attempts, Resolve(a)
  PROVE  TypeOK'
<1> DEFINE new == Resolved(attempt[a])
<1>1. AttemptTyped(attempt[a])
  BY DEF TypeOK, AttemptTyped
<1>2. attempt[a].sequence + 1 \in Nat /\ now \in Nat
  BY <1>1 DEF TypeOK, AttemptTyped, AttemptRow
<1>3. new \in AttemptRow
  BY <1>1, <1>2 DEF AttemptTyped, AttemptRow, Kinds, Terminal, Resolved
<1>4. new.kind = "permanent"
  BY <1>1 DEF AttemptTyped, AttemptRow, Resolved
<1>5. attempt' = [attempt EXCEPT ![a] = new]
  BY DEF Resolve
<1> HIDE DEF new
<1>6. AttemptTable(attempt)'
  BY <1>3, <1>4, <1>5, TypedTables DEF Typed, AttemptTable, AttemptTyped
<1> QED
  BY <1>6, TypedTables DEF Typed, Resolve, TaskTable, TaskTyped

LEMMA WorkerTyped ==
  ASSUME TypeOK, NEW w \in Workers, Register(w) \/ WorkerTick(w)
  PROVE  TypeOK'
<1>1. CASE Register(w)
  <2>1. worker' \in [Workers -> WorkerRow]
    <3>1. PICK form \in WorkerForms :
            worker' = [worker EXCEPT ![w] =
              [registered |-> TRUE, slots |-> form.slots, offers |-> form.offers,
               lastSeen |-> now]]
      BY <1>1 DEF Register
    <3>2. form.slots \in Nat /\ form.offers \in SUBSET Runtimes
      BY ConstantsAssumption
    <3> QED
      BY <3>1, <3>2 DEF TypeOK, WorkerRow
  <2>2. launched' \in [Workers -> SUBSET Procs]
    BY <1>1 DEF Register, TypeOK
  <2> QED
    BY <1>1, <2>1, <2>2, TypedTables
       DEF Typed, Register, TaskTable, AttemptTable, TaskTyped, AttemptTyped
<1>2. CASE WorkerTick(w)
  <2>1. worker' \in [Workers -> WorkerRow]
    <3> DEFINE row == [worker[w] EXCEPT !.lastSeen = now]
    <3>1. row \in WorkerRow
      BY DEF TypeOK, WorkerRow
    <3>2. worker' = [worker EXCEPT ![w] = row]
      BY <1>2 DEF WorkerTick
    <3> QED
      BY <3>1, <3>2 DEF TypeOK
  <2>2. Idle("started") \in ProcRow
    BY DEF Idle, ProcRow, Kinds
  <2>3. PICK batch \in SUBSET Deliverable(w) :
          LET chosen == {p \in Procs : Of(p) \in batch /\ NextLaunch(p)}
          IN /\ proc' = [p \in Procs |-> IF p \in chosen THEN Idle("started") ELSE proc[p]]
             /\ launched' = [launched EXCEPT ![w] =
                  {p \in @ \cup chosen : attempt[Of(p)].state = "Queued"}]
    BY <1>2 DEF WorkerTick
  <2>4. proc' \in [Procs -> ProcRow] /\ launched' \in [Workers -> SUBSET Procs]
    BY <2>2, <2>3 DEF TypeOK
  <2> QED
    BY <1>2, <2>1, <2>4, TypedTables
       DEF Typed, WorkerTick, TaskTable, AttemptTable, TaskTyped, AttemptTyped
<1> QED
  BY <1>1, <1>2

\* The attempt of a runner is a row of its table.
LEMMA ProcTyped ==
  ASSUME TypeOK, NEW p \in Procs
  PROVE  /\ p[1] \in Tasks /\ p[2] \in Numbers /\ p[3] \in 1..MaxLaunch
         /\ Of(p) \in Attempts /\ AttemptTyped(attempt[Of(p)])
         /\ proc[p] \in ProcRow
         /\ Idle("exited") \in ProcRow
<1>1. /\ p[1] \in Tasks /\ p[2] \in Numbers /\ p[3] \in 1..MaxLaunch
      /\ Of(p) \in Attempts
  BY DEF Procs, Of, Attempts
<1>2. Idle("exited") \in ProcRow
  BY DEF Idle, ProcRow, Kinds
<1> QED
  BY <1>1, <1>2 DEF TypeOK, AttemptTyped

\* A runner's step changes its own process, its attempt and its file only.
LEMMA RunnerStepTyped ==
  ASSUME TypeOK, NEW p \in Procs,
         proc' \in [Procs -> ProcRow],
         NEW att, AttemptTyped(att), attempt' \in {attempt, [attempt EXCEPT ![Of(p)] = att]},
         artifact' \in [Attempts -> {"none", "good", "bad"}],
         RunnerOnly
  PROVE  TypeOK'
<1>1. AttemptTable(attempt)'
  BY ProcTyped, TypedTables DEF Typed, AttemptTable, AttemptTyped
<1> QED
  BY <1>1, TypedTables DEF Typed, RunnerOnly, TaskTable, TaskTyped

LEMMA ClaimTyped ==
  ASSUME TypeOK, NEW p \in Procs, Claim(p)
  PROVE  TypeOK'
<1> DEFINE att == attempt[Of(p)]
<1>1. AttemptTyped(att) /\ att \in AttemptRow /\ att.sequence + 1 \in Nat /\ now \in Nat
  BY ProcTyped DEF AttemptTyped, AttemptRow, TypeOK
<1>2. RunnerOnly /\ artifact' = artifact
  BY DEF Claim, RunnerOnly
<1>3. artifact' \in [Attempts -> {"none", "good", "bad"}]
  BY <1>2 DEF TypeOK
<1>4. CASE Exit(p) /\ UNCHANGED attempt
  <2>1. proc' \in [Procs -> ProcRow]
    BY <1>4, ProcTyped DEF Exit, TypeOK
  <2> QED
    BY <2>1, <1>1, <1>2, <1>3, <1>4, RunnerStepTyped
<1>5. CASE Exit(p) /\ attempt' = [attempt EXCEPT ![Of(p)] = Refused(att)]
  <2>1. proc' \in [Procs -> ProcRow]
    BY <1>5, ProcTyped DEF Exit, TypeOK
  <2>2. Refused(att) \in AttemptRow
    BY <1>1 DEF Refused, AttemptRow, Kinds, Terminal
  <2>3. Refused(att).kind = "permanent"
    BY <1>1 DEF Refused, AttemptRow
  <2> QED
    BY <2>1, <2>2, <2>3, <1>2, <1>3, <1>5, RunnerStepTyped DEF AttemptTyped
<1>6. CASE /\ att.state = "Queued"
           /\ attempt' = [attempt EXCEPT ![Of(p)] = ClaimedBy(att, p[3])]
           /\ proc' = [proc EXCEPT ![p] = Claimant(p)]
  <2>1. p[3] \in 0..MaxLaunch
    BY ProcTyped
  <2>2. ClaimedBy(att, p[3]) \in AttemptRow
    BY <1>1, <2>1 DEF ClaimedBy, AttemptRow
  <2>3. ClaimedBy(att, p[3]).kind # "not_started"
    BY <1>1, <1>6 DEF ClaimedBy, AttemptRow, AttemptTyped
  <2>4. Claimant(p) \in ProcRow
    <3>1. Idle("claimed") \in ProcRow
      BY DEF Idle, ProcRow, Kinds
    <3>2. task[p[1]].tokensUsed \in Nat /\ task[p[1]].usageUnknown \in BOOLEAN
      BY ProcTyped DEF TypeOK, TaskRow
    <3> QED
      BY <3>1, <3>2, <1>1 DEF Claimant, ProcRow
  <2>5. proc' \in [Procs -> ProcRow]
    BY <1>6, <2>4 DEF TypeOK
  <2> QED
    BY <2>2, <2>3, <2>5, <1>2, <1>3, <1>6, RunnerStepTyped DEF AttemptTyped
<1> QED
  BY <1>4, <1>5, <1>6 DEF Claim, Claimable

LEMMA ReportTyped ==
  ASSUME TypeOK, NEW p \in Procs,
         NEW state \in {"Running", "Unknown"} \cup Terminal,
         NEW kind \in Kinds \ {"not_started"}, NEW total \in BOOLEAN,
         NEW next \in {"working", "requesting", "exited"},
         Report(p, state, kind, total, next), RunnerOnly, UNCHANGED artifact
  PROVE  TypeOK'
<1> DEFINE att == attempt[Of(p)]
           new == Observed(p, state, kind, total)
<1>1. AttemptTyped(att) /\ proc[p] \in ProcRow
  BY ProcTyped
<1>2. artifact' \in [Attempts -> {"none", "good", "bad"}]
  BY DEF TypeOK
<1>3. proc' \in [Procs -> ProcRow]
  <2>1. [proc EXCEPT ![p] = Idle("exited")] \in [Procs -> ProcRow]
    BY ProcTyped DEF TypeOK
  <2>2. next # "exited" =>
          [proc EXCEPT ![p] = Reported(proc[p], next)] \in [Procs -> ProcRow]
    <3>1. next # "exited" => Reported(proc[p], next) \in ProcRow
      <4>1. proc[p].sequence + 1 \in Nat
        BY <1>1 DEF ProcRow
      <4> QED
        BY <1>1, <4>1 DEF Reported, ProcRow
    <3> QED
      BY <3>1 DEF TypeOK
  <2> QED
    BY <2>1, <2>2 DEF Report, Exit
<1>4. CASE UNCHANGED attempt
  BY <1>1, <1>2, <1>3, <1>4, RunnerStepTyped
<1>5. CASE Accepted(p, state) /\ attempt' = [attempt EXCEPT ![Of(p)] = new]
  <2>1. att.state \in {"Launching", "Running", "Unknown"}
    BY <1>5 DEF Accepted, Moves
  <2>2. att.kind # "not_started"
    BY <1>1, <2>1 DEF AttemptTyped
  <2> DEFINE seq == proc[p].sequence + 1
             why == IF kind = "none" THEN att.kind ELSE kind
             end == IF state \in Terminal THEN now ELSE att.finished
             paid == Larger(att.known, proc[p].tokens)
             sure == IF total THEN proc[p].usageKnown /\ proc[p].tokens >= att.known
                     ELSE att.usageKnown
  <2>3. /\ seq \in Nat /\ why \in Kinds \ {"not_started"} /\ end \in Nat /\ paid \in Nat
    BY <1>1, <2>2 DEF AttemptTyped, AttemptRow, ProcRow, Larger, TypeOK
  <2>4. sure \in BOOLEAN
    BY <1>1 DEF AttemptTyped, AttemptRow
  <2>5. new = [att EXCEPT !.state = state, !.sequence = seq, !.kind = why,
                          !.finished = end, !.known = paid, !.usageKnown = sure]
    BY DEF Observed
  <2> HIDE DEF seq, why, end, paid, sure
  <2>6. new \in AttemptRow
    <3> DEFINE half == [att EXCEPT !.kind = why, !.finished = end, !.known = paid]
    <3>1. half \in AttemptRow
      BY <1>1, <2>3 DEF AttemptTyped, AttemptRow
    <3>2. new = [half EXCEPT !.state = state, !.sequence = seq, !.usageKnown = sure]
      BY <1>1, <2>5 DEF AttemptTyped, AttemptRow
    <3> HIDE DEF half
    <3> QED BY <1>1, <2>3, <2>4, <3>1, <3>2 DEF AttemptRow
  <2>7. new.kind = why
    BY <1>1, <2>5 DEF AttemptTyped, AttemptRow
  <2> HIDE DEF new
  <2>8. AttemptTyped(new)
    BY <2>3, <2>6, <2>7 DEF AttemptTyped
  <2> QED
    BY <1>2, <1>3, <1>5, <2>8, RunnerStepTyped
<1> QED
  BY <1>4, <1>5 DEF Report

\* The steps of a runner that touch its own state, and perhaps its file.
LEMMA LocalStepTyped ==
  ASSUME TypeOK, NEW p \in Procs,
         \/ CheckpointStop(p) \/ Proceed(p) \/ StartWarmup(p) \/ StartRequest(p) \/ Answer(p)
         \/ RequestFails(p) \/ WorkFails(p) \/ Publish(p) \/ RunnerCrash(p)
  PROVE  TypeOK'
<1> DEFINE c == proc[p]
<1>1. c \in ProcRow
  BY ProcTyped
<1>2. RunnerOnly /\ UNCHANGED attempt
  BY DEF CheckpointStop, Proceed, StartWarmup, StartRequest, Answer, RequestFails,
         WorkFails, Publish,
         RunnerCrash
<1>3. ASSUME NEW kind \in Kinds \ {"not_started"}, Conclude(p, kind)
      PROVE  proc' \in [Procs -> ProcRow]
  <2>1. [c EXCEPT !.pc = "concluding", !.outcome = kind] \in ProcRow
    BY <1>1 DEF ProcRow
  <2>2. proc' = [proc EXCEPT ![p] = [c EXCEPT !.pc = "concluding", !.outcome = kind]]
    BY <1>3 DEF Conclude
  <2> QED
    BY <2>1, <2>2 DEF TypeOK
<1>4. proc' \in [Procs -> ProcRow]
  <2>1. CASE CheckpointStop(p)
    BY <2>1, <1>3 DEF CheckpointStop, Kinds
  <2>2. CASE Proceed(p)
    <3>1. [c EXCEPT !.pc = "cleared"] \in ProcRow
      BY <1>1 DEF ProcRow
    <3>2. proc' = [proc EXCEPT ![p] = [c EXCEPT !.pc = "cleared"]]
      BY <2>2 DEF Proceed
    <3> QED
      BY <3>1, <3>2 DEF TypeOK
  <2>3. CASE StartRequest(p)
    <3>1. [c EXCEPT !.pc = "requesting", !.steps = @ + 1] \in ProcRow
      <4>1. c.steps + 1 \in Nat
        BY <1>1 DEF ProcRow
      <4> QED
        BY <1>1, <4>1 DEF ProcRow
    <3>2. \/ Conclude(p, "permanent")
          \/ proc' = [proc EXCEPT ![p] = [c EXCEPT !.pc = "requesting", !.steps = @ + 1]]
      BY <2>3 DEF StartRequest
    <3> QED
      BY <3>1, <3>2, <1>3 DEF TypeOK, Kinds
  <2>9. CASE StartWarmup(p)
    <3>1. [c EXCEPT !.pc = "requesting", !.warmed = @ + 1] \in ProcRow
      <4>1. c.warmed + 1 \in Nat
        BY <1>1 DEF ProcRow
      <4> QED
        BY <1>1, <4>1 DEF ProcRow
    <3>2. \/ Conclude(p, "permanent")
          \/ proc' = [proc EXCEPT ![p] = [c EXCEPT !.pc = "requesting", !.warmed = @ + 1]]
      BY <2>9 DEF StartWarmup
    <3> QED
      BY <3>1, <3>2, <1>3 DEF TypeOK, Kinds
  <2>4. CASE Answer(p)
    <3>1. ASSUME NEW n \in AnswerTokens
          PROVE  [c EXCEPT !.pc = "working", !.tokens = @ + n] \in ProcRow
      <4>1. c.tokens + n \in Nat
        BY <1>1, ConstantsAssumption DEF ProcRow
      <4> QED
        BY <1>1, <4>1 DEF ProcRow
    <3>2. [c EXCEPT !.pc = "working", !.usageKnown = FALSE] \in ProcRow
      BY <1>1 DEF ProcRow
    <3>3. \/ \E n \in AnswerTokens :
               proc' = [proc EXCEPT ![p] = [c EXCEPT !.pc = "working", !.tokens = @ + n]]
          \/ proc' = [proc EXCEPT ![p] = [c EXCEPT !.pc = "working", !.usageKnown = FALSE]]
      BY <2>4 DEF Answer
    <3> QED
      BY <3>1, <3>2, <3>3 DEF TypeOK
  <2>5. CASE RequestFails(p)
    <3>1. PICK kind \in {"transient", "permanent", "unknown"} :
            proc' = [proc EXCEPT ![p] = Interrupted(c, kind)]
      BY <2>5 DEF RequestFails
    <3> DEFINE known == c.usageKnown /\ kind = "transient"
    <3>2. known \in BOOLEAN
      BY <1>1 DEF ProcRow
    <3>3. Interrupted(c, kind) = [c EXCEPT !.pc = "concluding", !.outcome = kind,
                                           !.usageKnown = known]
      BY DEF Interrupted
    <3> HIDE DEF known
    <3>4. Interrupted(c, kind) \in ProcRow
      BY <1>1, <3>2, <3>3 DEF ProcRow, Kinds
    <3> QED
      BY <3>1, <3>4 DEF TypeOK
  <2>6. CASE WorkFails(p)
    BY <2>6, <1>3 DEF WorkFails, Kinds
  <2>7. CASE Publish(p)
    BY <2>7, <1>3 DEF Publish, Kinds
  <2>8. CASE RunnerCrash(p)
    BY <2>8, ProcTyped DEF RunnerCrash, Exit, TypeOK
  <2> QED
    BY <2>1, <2>2, <2>3, <2>4, <2>5, <2>6, <2>7, <2>8, <2>9
<1>5. artifact' \in [Attempts -> {"none", "good", "bad"}]
  BY DEF TypeOK, CheckpointStop, Proceed, StartWarmup, StartRequest, Answer, RequestFails,
         WorkFails, Publish, RunnerCrash
<1> QED
  BY <1>2, <1>4, <1>5, ProcTyped, RunnerStepTyped

\* A refusal in a warm-up only moves the runner on to its final report.
LEMMA RefusalCases ==
  ASSUME TypeOK, NEW p \in Procs, RefusedInWarmup(p)
  PROVE  /\ attempt' = attempt /\ Executing(p) /\ proc[p].pc = "requesting"
         /\ \E c \in ProcRow : /\ proc' = [proc EXCEPT ![p] = c]
                               /\ c.pc = "concluding" /\ c.outcome = "permanent"
                               /\ c.sequence = proc[p].sequence + 1
                               /\ c.spent = proc[p].spent /\ c.blind = proc[p].blind
<1> DEFINE c == [Reported(proc[p], "concluding") EXCEPT !.outcome = "permanent"]
<1>1. proc[p] \in ProcRow /\ proc[p].sequence + 1 \in Nat
  BY ProcTyped DEF ProcRow
<1>2. Reported(proc[p], "concluding") \in ProcRow
  BY <1>1 DEF Reported, ProcRow
<1>3. c \in ProcRow /\ c.pc = "concluding" /\ c.outcome = "permanent"
  BY <1>1, <1>2 DEF Reported, ProcRow, Kinds
<1>4. c.sequence = proc[p].sequence + 1 /\ c.spent = proc[p].spent
  BY <1>1 DEF Reported, ProcRow
<1>5. c.blind = proc[p].blind
  BY <1>1 DEF Reported, ProcRow
<1>6. proc' = [proc EXCEPT ![p] = c] /\ attempt' = attempt /\ proc[p].pc = "requesting"
  BY <1>1 DEF RefusedInWarmup, WarmingUp, TypeOK
<1> HIDE DEF c
<1> QED
  BY <1>3, <1>4, <1>5, <1>6 DEF Executing

LEMMA ReportStepTyped ==
  ASSUME TypeOK, NEW p \in Procs, Announce(p) \/ Heartbeat(p) \/ Finish(p)
  PROVE  TypeOK'
<1>1. CASE Announce(p)
  BY <1>1, ReportTyped DEF Announce, Kinds
<1>2. CASE Heartbeat(p)
  <2>1. CASE RefusedInWarmup(p)
    <3>1. proc' \in [Procs -> ProcRow] /\ attempt' = attempt
      BY <2>1, RefusalCases DEF TypeOK
    <3> QED
      BY <1>2, <3>1, ProcTyped, RunnerStepTyped DEF Heartbeat, TypeOK
  <2>2. CASE ~RefusedInWarmup(p)
    BY <1>2, <2>2, ReportTyped DEF Heartbeat, Kinds
  <2> QED
    BY <2>1, <2>2
<1>3. CASE Finish(p)
  <2>1. proc[p].outcome \in Kinds \ {"not_started"}
    BY ProcTyped DEF ProcRow
  <2>2. FinalState(proc[p].outcome) \in {"Running", "Unknown"} \cup Terminal
    BY DEF FinalState, Terminal
  <2> QED
    BY <1>3, <2>1, <2>2, ReportTyped DEF Finish
<1> QED
  BY <1>1, <1>2, <1>3

LEMMA EnvironmentTyped ==
  ASSUME TypeOK, ClockTick \/ \E a \in Attempts : ArtifactDamaged(a)
  PROVE  TypeOK'
  BY TypedTables
     DEF Typed, ClockTick, ArtifactDamaged, TaskTable, AttemptTable, TaskTyped, AttemptTyped

LEMMA NextTyped == TypeOK /\ [Next]_vars => TypeOK'
<1> SUFFICES ASSUME TypeOK, [Next]_vars PROVE TypeOK'
  OBVIOUS
<1>1. CASE UNCHANGED vars
  BY <1>1, TypedTables DEF Typed, vars, TaskTable, AttemptTable, TaskTyped, AttemptTyped
<1>2. CASE Next
  BY <1>2, SubmitTyped, CancelTyped, TickTyped, ValidationTyped, SettleValidatedTyped,
     ManagerCrashTyped, ResolveTyped, WorkerTyped, ClaimTyped, LocalStepTyped,
     ReportStepTyped, EnvironmentTyped
     DEF Next, Validate, RunnerStep
<1> QED
  BY <1>1, <1>2

\* The rows of every table, every process and every file keep their types in
\* all behaviours: no transition of tick, settle, observe, submit, cancel,
\* resolve or run_attempt stores a value outside the domains of the schema.
THEOREM TypeCorrect == Spec => []TypeOK
<1>1. Init => TypeOK
  BY InitTyped
<1>2. TypeOK /\ [Next]_vars => TypeOK'
  BY NextTyped
<1> QED
  BY <1>1, <1>2, PTL DEF Spec

----------------------------------------------------------------------------
\* Slots and tasks

\* settle takes its task out of Scheduled and Running.
LEMMA SettledReleases ==
  ASSUME NEW t \in Tasks, NEW row, TaskTyped(row), NEW att, AttemptTyped(att), NEW kind
  PROVE  /\ Settled(t, row, att, kind).status \in Terminal \cup {"Pending"}
         /\ Settled(t, row, att, kind).current \in {row.current, 0}
<1> DEFINE paid == Charged(row, att)
<1>1. TaskTyped(paid) /\ paid.current = row.current
  BY ChargedTyped
<1>2. ASSUME NEW s \in Terminal
      PROVE  /\ [paid EXCEPT !.status = s].status = s
             /\ [paid EXCEPT !.status = s].current = row.current
  BY <1>1 DEF TaskTyped, TaskRow
<1>3. ASSUME NEW at
      PROVE  Requeued(paid, at).status = "Pending" /\ Requeued(paid, at).current = 0
  BY <1>1 DEF TaskTyped, TaskRow, Requeued
<1>4. Outcome(row.intent) \in Terminal
  BY DEF Outcome, Terminal
<1>5. \/ \E s \in Terminal : Settled(t, row, att, kind) = [paid EXCEPT !.status = s]
      \/ \E at : Settled(t, row, att, kind) = Requeued(paid, at)
  <2>1. CASE row.intent # "Run"
    <3>1. Settled(t, row, att, kind) = [paid EXCEPT !.status = Outcome(row.intent)]
      BY <2>1 DEF Settled
    <3> QED
      BY <3>1, <1>4
  <2>2. CASE row.intent = "Run" /\ kind = "not_started"
    <3>1. Settled(t, row, att, kind) = Requeued(paid, now)
      BY <2>2 DEF Settled
    <3> QED
      BY <3>1
  <2>3. CASE row.intent = "Run" /\ kind = "none"
    <3>1. Settled(t, row, att, kind) = [paid EXCEPT !.status = "Succeeded"]
      BY <2>3 DEF Settled
    <3> QED
      BY <3>1 DEF Terminal
  <2>4. CASE row.intent = "Run" /\ kind \notin {"none", "not_started"}
    <3>1. Settled(t, row, att, kind) =
            IF Retryable(t, kind, paid)
            THEN Requeued(paid, now + Delay(t, Executions(t)))
            ELSE [paid EXCEPT !.status = "Failed"]
      BY <2>4 DEF Settled
    <3> QED
      BY <3>1 DEF Terminal
  <2> QED
    BY <2>1, <2>2, <2>3, <2>4
<1> QED
  BY <1>2, <1>3, <1>5

\* An attempt row keeps its slot through the sweep unless it is settled there.
LEMMA InspectedKeepsSlot ==
  ASSUME TypeOK, NEW t \in Tasks, HasCurrent(t), NEW unseen
  PROVE  Inspected(t, unseen).reserved = attempt[Current(t)].reserved
<1> DEFINE att == attempt[Current(t)]
<1>1. att \in AttemptRow
  BY CurrentTyped DEF AttemptTyped
<1>2. \A kind : Unstarted(att, kind).reserved = att.reserved
  BY <1>1 DEF Unstarted, AttemptRow
<1>3. Lost(att).reserved = att.reserved
  BY <1>1 DEF Lost, AttemptRow
<1> QED
  BY <1>2, <1>3, InspectedCases

\* After the sweep, and before admission, slots match the swept task rows.
LEMMA SweptSlots ==
  ASSUME TypeOK, SlotsMatchTasks, NEW t \in Tasks, NEW n \in Numbers, NEW unseen
  PROVE  SweptAttempts(unseen)[<<t, n>>].reserved <=>
           /\ SweptTask(t, unseen).current = n
           /\ SweptTask(t, unseen).status \in {"Scheduled", "Running"}
<1> DEFINE a == <<t, n>>
           row == [task[t] EXCEPT !.intent = SweptIntent(t)]
           seen == Inspected(t, unseen)
           held == task[t].status \in {"Scheduled", "Running"}
<1>1. /\ a \in Attempts /\ a[1] = t /\ a[2] = n /\ n # 0
      /\ attempt[a].reserved <=> task[t].current = n /\ held
  BY ConstantsAssumption DEF SlotsMatchTasks, Attempts, Numbers
<1>2. TaskTyped(task[t]) /\ SweptIntent(t) \in Intents
  BY DEF TypeOK, TaskTyped, SweptIntent, TaskRow, Intents
<1>3. /\ TaskTyped(row) /\ row.status = task[t].status /\ row.current = task[t].current
      /\ \A s : /\ [row EXCEPT !.status = s].status = s
                /\ [row EXCEPT !.status = s].current = task[t].current
  BY <1>2 DEF TaskTyped, TaskRow
<1> HIDE DEF row
<1>4. CASE ~Swept(t)
  <2>1. SweptAttempts(unseen)[a] = attempt[a]
    BY <1>1, <1>4 DEF SweptAttempts
  <2>2. Outcome(row.intent) \notin {"Scheduled", "Running"}
    BY DEF Outcome
  <2>3. \/ SweptTask(t, unseen) \in {task[t], row}
        \/ /\ task[t].status = "Pending"
           /\ SweptTask(t, unseen) = [row EXCEPT !.status = Outcome(row.intent)]
    BY <1>3, <1>4 DEF SweptTask, Swept, row
  <2> QED
    BY <2>1, <2>2, <2>3, <1>1, <1>3
<1>5. CASE Swept(t)
  <2>1. held /\ HasCurrent(t) /\ row.status # "Pending" /\ Open(t)
    BY <1>2, <1>3, <1>5 DEF Swept, Open, Present, TaskTyped, TaskRow, Terminal
  <2>2. SweptTask(t, unseen) =
          IF SettlesNow(seen) THEN Settled(t, row, seen, seen.kind)
          ELSE IF seen.state = "Running" THEN [row EXCEPT !.status = "Running"]
          ELSE row
    BY <2>1 DEF SweptTask, row
  <2>3. SweptAttempts(unseen)[a] =
          IF a = Current(t) THEN IF SettlesNow(seen) THEN SettledAttempt(seen) ELSE seen
          ELSE attempt[a]
    BY <1>1, <1>5 DEF SweptAttempts
  <2>4. a = Current(t) <=> task[t].current = n
    BY DEF Current
  <2>5. AttemptTyped(seen)
    BY <2>1, InspectedTyped
  <2>6. CASE SettlesNow(seen)
    <3>1. /\ SweptTask(t, unseen).status \notin {"Scheduled", "Running"}
      BY <2>2, <2>5, <2>6, <1>3, SettledReleases DEF Terminal
    <3>2. SettledAttempt(seen).reserved = FALSE
      BY <2>5 DEF SettledAttempt, AttemptTyped, AttemptRow
    <3> QED
      BY <3>1, <3>2, <2>3, <2>4, <2>6, <1>1
  <2>7. CASE ~SettlesNow(seen)
    <3>1. /\ SweptTask(t, unseen).current = task[t].current
          /\ SweptTask(t, unseen).status \in {"Scheduled", "Running"}
      BY <2>1, <2>2, <2>7, <1>3
    <3>2. seen.reserved = attempt[Current(t)].reserved
      BY <2>1, InspectedKeepsSlot
    <3> QED
      BY <3>1, <3>2, <2>1, <2>3, <2>4, <2>7, <1>1
  <2> QED
    BY <2>6, <2>7
<1> QED
  BY <1>4, <1>5

\* A step that keeps reserved in every attempt row and, of a task, changes at
\* most an intent or a status that holds no slot keeps the match.
LEMMA SlotsKept ==
  ASSUME TypeOK, SlotsMatchTasks,
         \A a \in Attempts : attempt'[a].reserved = attempt[a].reserved,
         \A t \in Tasks : /\ task'[t].current = task[t].current
                         /\ \/ task'[t].status = task[t].status
                            \/ {task'[t].status, task[t].status} \cap {"Scheduled", "Running"} = {}
  PROVE  SlotsMatchTasks'
<1>1. \A a \in Attempts : a[1] \in Tasks
  BY DEF Attempts
<1> QED
  BY <1>1 DEF SlotsMatchTasks

LEMMA SubmitSlots ==
  ASSUME TypeOK, SlotsMatchTasks, NEW k \in Keys, NEW t \in Tasks, Submit(k, t)
  PROVE  SlotsMatchTasks'
<1> DEFINE row == [NoTask EXCEPT !.status = "Pending", !.submitted = now,
                                 !.deadline = now + SpecOf[t].deadline,
                                 !.nextRun = now]
<1>1. task' = [task EXCEPT ![t] = row] /\ attempt' = attempt
  BY DEF Submit
<1>2. row.status = "Pending"
  BY DEF NoTask
<1>3. task[t].status = "Absent"
  BY DEF Submit, Present
<1> HIDE DEF row
<1>4. ASSUME NEW a \in Attempts
      PROVE  attempt'[a].reserved <=> /\ task'[a[1]].current = a[2]
                                      /\ task'[a[1]].status \in {"Scheduled", "Running"}
  <2>1. a[1] \in Tasks
    BY DEF Attempts
  <2>2. CASE a[1] = t
    BY <2>1, <2>2, <1>1, <1>2, <1>3 DEF SlotsMatchTasks, TypeOK
  <2>3. CASE a[1] # t
    BY <2>1, <2>3, <1>1 DEF SlotsMatchTasks, TypeOK
  <2> QED
    BY <2>2, <2>3
<1> QED
  BY <1>4 DEF SlotsMatchTasks

LEMMA CancelSlots ==
  ASSUME TypeOK, SlotsMatchTasks, NEW k \in Keys, NEW t \in Tasks, Cancel(k, t)
  PROVE  SlotsMatchTasks'
<1>1. task' = [task EXCEPT ![t] = CancelledRow(task[t])] /\ attempt' = attempt
  BY DEF Cancel
<1>2. task[t] \in TaskRow
  BY DEF TypeOK
<1>3. /\ CancelledRow(task[t]).current = task[t].current
      /\ \/ CancelledRow(task[t]).status = task[t].status
         \/ task[t].status = "Pending" /\ CancelledRow(task[t]).status = "Cancelled"
  BY <1>2 DEF CancelledRow, TaskRow
<1> QED
  BY <1>1, <1>3, SlotsKept DEF TypeOK

LEMMA TickSlots ==
  ASSUME TypeOK, SlotsMatchTasks, Tick
  PROVE  SlotsMatchTasks'
<1>1. PICK unseen \in SUBSET Unreadable, place \in [Tasks -> Workers \cup {0}] :
        Admit([t \in Tasks |-> SweptTask(t, unseen)], SweptAttempts(unseen), place)
  BY DEF Tick
<1> DEFINE T == [t \in Tasks |-> SweptTask(t, unseen)]
           A == SweptAttempts(unseen)
<1>2. ASSUME NEW t \in Tasks, NEW n \in Numbers
      PROVE  attempt'[<<t, n>>].reserved <=>
               task'[t].current = n /\ task'[t].status \in {"Scheduled", "Running"}
  <2>1. A[<<t, n>>].reserved <=> /\ SweptTask(t, unseen).current = n
                                 /\ SweptTask(t, unseen).status \in {"Scheduled", "Running"}
    BY SweptSlots
  <2>2. <<t, n>> \in Attempts
    BY DEF Attempts
  <2>3. CASE place[t] = 0
    <3>1. task'[t] = SweptTask(t, unseen) /\ attempt'[<<t, n>>] = A[<<t, n>>]
      BY <1>1, <2>2, <2>3 DEF Admit
    <3> QED
      BY <2>1, <3>1
  <2>4. CASE place[t] # 0
    <3>1. task'[t] = [SweptTask(t, unseen) EXCEPT !.status = "Scheduled",
                                                 !.current = NextNumber(t)]
      BY <1>1, <2>4 DEF Admit
    <3>2. task'[t].status = "Scheduled" /\ task'[t].current = NextNumber(t)
      <4>1. SweptTask(t, unseen) \in TaskRow
        BY SweptTaskTyped DEF TaskTyped
      <4> QED
        BY <3>1, <4>1 DEF TaskRow
    <3>3. SweptTask(t, unseen).status = "Pending"
      BY <1>1, <2>4 DEF Admit, IsSchedule, Placeable, Ready
    <3>4. ~A[<<t, n>>].reserved
      BY <2>1, <3>3
    <3>5. attempt'[<<t, n>>] = IF n = NextNumber(t) THEN Queued(place[t]) ELSE A[<<t, n>>]
      BY <1>1, <2>2, <2>4 DEF Admit
    <3>6. Queued(place[t]).reserved = TRUE
      BY DEF Queued, NoAttempt
    <3> QED
      BY <3>2, <3>4, <3>5, <3>6
  <2> QED
    BY <2>3, <2>4
<1> QED
  BY <1>2 DEF SlotsMatchTasks, Attempts

LEMMA SettleValidatedSlots ==
  ASSUME TypeOK, SlotsMatchTasks, NEW t \in Tasks, SettleValidated(t)
  PROVE  SlotsMatchTasks'
<1> DEFINE att == attempt[Checked(t)]
           kind == IF check[t].stage = "confirmed" THEN "none" ELSE "validation"
           row == Settled(t, VerdictRow(t), att, kind)
           new == Judged(att, task[t].intent, kind)
<1>1. Checked(t) \in Attempts /\ AttemptTyped(att) /\ Checked(t) = <<t, check[t].number>>
  BY CheckedTyped DEF SettleValidated, Checked
<1>2. CASE UNCHANGED <<task, attempt>>
  BY <1>2, SlotsKept
<1>3. CASE /\ VerdictApplies(t)
           /\ task' = [task EXCEPT ![t] = row]
           /\ attempt' = [attempt EXCEPT ![Checked(t)] = new]
  <2>1. row.status \notin {"Scheduled", "Running"}
    <3>1. TaskTyped(VerdictRow(t))
      BY DEF VerdictRow, TypeOK, TaskTyped
    <3> HIDE DEF kind
    <3> QED
      BY <3>1, <1>1, SettledReleases DEF Terminal
  <2>2. new.reserved = FALSE
    BY <1>1 DEF Judged, SettledAttempt, AttemptTyped, AttemptRow
  <2>3. task[t].current = check[t].number
    BY <1>3 DEF VerdictApplies
  <2> HIDE DEF row, new
  <2>4. ASSUME NEW a \in Attempts
        PROVE  attempt'[a].reserved <=> /\ task'[a[1]].current = a[2]
                                        /\ task'[a[1]].status \in {"Scheduled", "Running"}
    <3>1. a[1] \in Tasks /\ a = <<a[1], a[2]>>
      BY DEF Attempts
    <3>2. CASE a[1] = t
      <4>1. ~attempt'[a].reserved
        BY <3>1, <3>2, <2>2, <2>3, <1>1, <1>3 DEF SlotsMatchTasks, TypeOK
      <4> QED
        BY <4>1, <3>1, <3>2, <2>1, <1>3 DEF TypeOK
    <3>3. CASE a[1] # t
      BY <3>1, <3>3, <1>1, <1>3 DEF SlotsMatchTasks, TypeOK
    <3> QED
      BY <3>2, <3>3
  <2> QED
    BY <2>4 DEF SlotsMatchTasks
<1> QED
  BY <1>2, <1>3 DEF SettleValidated

\* What a report does to the attempt and to the runner.
LEMMA ReportCases ==
  ASSUME TypeOK, NEW p \in Procs, NEW state, NEW kind, NEW total, NEW next,
         Report(p, state, kind, total, next)
  PROVE  \/ attempt' = attempt /\ proc' = [proc EXCEPT ![p] = Idle("exited")]
         \/ /\ Accepted(p, state)
            /\ \E att : /\ attempt' = [attempt EXCEPT ![Of(p)] = att]
                       /\ att.state = state
                       /\ att.reserved = attempt[Of(p)].reserved
                       /\ att.runner = attempt[Of(p)].runner
            /\ \E c : proc' = [proc EXCEPT ![p] = c] /\ c.pc = next
<1> DEFINE new == Observed(p, state, kind, total)
           c == IF next = "exited" THEN Idle("exited") ELSE Reported(proc[p], next)
<1>1. attempt[Of(p)] \in AttemptRow /\ proc[p] \in ProcRow
  BY ProcTyped DEF AttemptTyped
<1>2. /\ new.state = state /\ new.reserved = attempt[Of(p)].reserved
      /\ new.runner = attempt[Of(p)].runner
  BY <1>1 DEF Observed, AttemptRow
<1>3. c.pc = next
  BY <1>1 DEF Idle, Reported, ProcRow
<1>4. \/ attempt' = attempt /\ proc' = [proc EXCEPT ![p] = Idle("exited")]
      \/ /\ Accepted(p, state)
         /\ attempt' = [attempt EXCEPT ![Of(p)] = new]
         /\ proc' = [proc EXCEPT ![p] = c]
  BY DEF Report, Exit
<1> HIDE DEF new, c
<1> QED
  BY <1>2, <1>3, <1>4

\* What a claim does to the attempt and to the runner.
LEMMA ClaimCases ==
  ASSUME TypeOK, NEW p \in Procs, Claim(p)
  PROVE  \/ attempt' = attempt /\ proc' = [proc EXCEPT ![p] = Idle("exited")]
         \/ /\ attempt[Of(p)].state = "Queued" /\ task[p[1]].current = p[2]
            /\ \E att, c : /\ attempt' = [attempt EXCEPT ![Of(p)] = att]
                          /\ att.reserved = attempt[Of(p)].reserved
                          /\ proc' = [proc EXCEPT ![p] = c]
                          /\ \/ att.state = "Failed" /\ c.pc = "exited"
                             \/ att.state = "Launching" /\ att.runner = p[3]
<1> DEFINE att == attempt[Of(p)]
<1>1. att \in AttemptRow
  BY ProcTyped DEF AttemptTyped
<1>2. /\ Refused(att).state = "Failed" /\ Refused(att).reserved = att.reserved
      /\ ClaimedBy(att, p[3]).state = "Launching" /\ ClaimedBy(att, p[3]).runner = p[3]
      /\ ClaimedBy(att, p[3]).reserved = att.reserved
  BY <1>1 DEF Refused, ClaimedBy, AttemptRow
<1>3. Idle("exited").pc = "exited"
  BY DEF Idle
<1>4. \/ attempt' = attempt /\ proc' = [proc EXCEPT ![p] = Idle("exited")]
      \/ /\ Claimable(p)
         /\ \/ /\ attempt' = [attempt EXCEPT ![Of(p)] = Refused(att)]
               /\ proc' = [proc EXCEPT ![p] = Idle("exited")]
            \/ /\ attempt' = [attempt EXCEPT ![Of(p)] = ClaimedBy(att, p[3])]
               /\ proc' = [proc EXCEPT ![p] = Claimant(p)]
  BY DEF Claim, Exit
<1> QED
  BY <1>2, <1>3, <1>4 DEF Claimable

\* Claims, reports and the operator's resolution leave every slot as it is.
LEMMA RowStepReserved ==
  ASSUME TypeOK,
         \/ \E p \in Procs : Claim(p) \/ Announce(p) \/ Heartbeat(p) \/ Finish(p)
         \/ \E a \in Attempts : Resolve(a)
  PROVE  \A a \in Attempts : attempt'[a].reserved = attempt[a].reserved
<1>1. ASSUME NEW p \in Procs, Claim(p)
      PROVE  \A a \in Attempts : attempt'[a].reserved = attempt[a].reserved
  BY <1>1, ClaimCases, ProcTyped DEF TypeOK
<1>2. ASSUME NEW p \in Procs, NEW state, NEW kind, NEW total, NEW next,
             Report(p, state, kind, total, next)
      PROVE  \A a \in Attempts : attempt'[a].reserved = attempt[a].reserved
  BY <1>2, ReportCases, ProcTyped DEF TypeOK
<1>3. ASSUME NEW a \in Attempts, Resolve(a)
      PROVE  \A b \in Attempts : attempt'[b].reserved = attempt[b].reserved
  <2>1. Resolved(attempt[a]).reserved = attempt[a].reserved
    BY DEF TypeOK, AttemptRow, Resolved
  <2> QED
    BY <1>3, <2>1 DEF Resolve, TypeOK
<1> QED
  BY <1>1, <1>2, <1>3 DEF Announce, Heartbeat, RefusedInWarmup, Finish

LEMMA RowStepSlots ==
  ASSUME TypeOK, SlotsMatchTasks,
         \/ \E p \in Procs : Claim(p) \/ Announce(p) \/ Heartbeat(p) \/ Finish(p)
         \/ \E a \in Attempts : Resolve(a)
  PROVE  SlotsMatchTasks'
<1>1. task' = task
  BY DEF Claim, Announce, Heartbeat, Finish, Resolve, RunnerOnly
<1> QED
  BY <1>1, RowStepReserved, SlotsKept

LEMMA NextSlots == TypeOK /\ SlotsMatchTasks /\ [Next]_vars => SlotsMatchTasks'
<1> SUFFICES ASSUME TypeOK, SlotsMatchTasks, [Next]_vars PROVE SlotsMatchTasks'
  OBVIOUS
<1>1. CASE UNCHANGED <<task, attempt>>
  BY <1>1, SlotsKept
<1>2. CASE \/ \E t \in Tasks : Prevalidate(t) \/ Recheck(t) \/ ValidationFault(t)
           \/ ManagerCrash \/ ClockTick
           \/ \E w \in Workers : Register(w) \/ WorkerTick(w)
           \/ \E a \in Attempts : ArtifactDamaged(a)
           \/ \E p \in Procs : \/ CheckpointStop(p) \/ Proceed(p) \/ StartWarmup(p)
                               \/ StartRequest(p)
                              \/ Answer(p) \/ RequestFails(p) \/ WorkFails(p)
                              \/ Publish(p) \/ RunnerCrash(p)
  <2>1. UNCHANGED <<task, attempt>>
    BY <1>2
       DEF Prevalidate, Recheck, ValidationFault, ManagerCrash, ClockTick, Register,
           WorkerTick, ArtifactDamaged, RunnerOnly, CheckpointStop, Proceed, StartWarmup,
           StartRequest, Answer, RequestFails, WorkFails, Publish, RunnerCrash
  <2> QED
    BY <2>1, <1>1
<1> QED
  BY <1>1, <1>2, SubmitSlots, CancelSlots, TickSlots, SettleValidatedSlots, RowStepSlots
     DEF Next, Validate, RunnerStep, vars

----------------------------------------------------------------------------
\* Executions and slots

Live == {"Queued", "Launching", "Running", "Unknown"}

LiveHeld(a) == attempt[a].state \in Live => attempt[a].reserved

Owner(p) == Executing(p) => /\ attempt[Of(p)].runner = p[3]
                            /\ attempt[Of(p)].state \in {"Launching", "Running", "Unknown"}
                            /\ task[p[1]].current = p[2]

\* ExecutionHoldsSlot, and its next-state form, by row and by process.
LEMMA ExecutionParts ==
  /\ ExecutionHoldsSlot <=> (\A a \in Attempts : LiveHeld(a)) /\ (\A p \in Procs : Owner(p))
  /\ ExecutionHoldsSlot' <=> (\A a \in Attempts : LiveHeld(a)') /\ (\A p \in Procs : Owner(p)')
<1>1. ExecutionHoldsSlot <=> (\A a \in Attempts : LiveHeld(a)) /\ (\A p \in Procs : Owner(p))
  BY DEF ExecutionHoldsSlot, LiveHeld, Live, Owner
<1>2. ExecutionHoldsSlot' <=> (\A a \in Attempts : LiveHeld(a)') /\ (\A p \in Procs : Owner(p)')
  BY DEF ExecutionHoldsSlot, LiveHeld, Live, Owner
<1> QED
  BY <1>1, <1>2

\* The task of a runner that executes is Scheduled or Running.
LEMMA ExecutionTask ==
  ASSUME TypeOK, SlotsMatchTasks, ExecutionHoldsSlot, NEW p \in Procs, Executing(p)
  PROVE  /\ Of(p) = Current(p[1]) /\ HasCurrent(p[1])
         /\ task[p[1]].status \in {"Scheduled", "Running"}
         /\ attempt[Of(p)].state \in {"Launching", "Running", "Unknown"}
         /\ attempt[Of(p)].reserved
<1>1. /\ Of(p) \in Attempts /\ Of(p)[1] = p[1] /\ Of(p)[2] = p[2] /\ p[2] # 0
  BY ProcTyped, ConstantsAssumption DEF Of, Numbers
<1>2. /\ task[p[1]].current = p[2] /\ attempt[Of(p)].reserved
      /\ attempt[Of(p)].state \in {"Launching", "Running", "Unknown"}
  BY <1>1 DEF ExecutionHoldsSlot
<1> QED
  BY <1>1, <1>2 DEF SlotsMatchTasks, Of, Current, HasCurrent

\* Steps that start no execution and touch neither tasks nor attempts.
LEMMA ExecutionKept ==
  ASSUME TypeOK, ExecutionHoldsSlot, UNCHANGED <<task, attempt>>,
         \A p \in Procs : Executing(p)' => Executing(p)
  PROVE  ExecutionHoldsSlot'
<1>1. \A a \in Attempts : LiveHeld(a)'
  BY ExecutionParts DEF LiveHeld
<1>2. \A p \in Procs : Owner(p)'
  BY ExecutionParts DEF Owner
<1> QED
  BY <1>1, <1>2, ExecutionParts

LEMMA CommandExecution ==
  ASSUME TypeOK, SlotsMatchTasks, ExecutionHoldsSlot,
         NEW k \in Keys, NEW t \in Tasks, Submit(k, t) \/ Cancel(k, t)
  PROVE  ExecutionHoldsSlot'
<1>1. UNCHANGED <<attempt, proc>>
  BY DEF Submit, Cancel
<1>2. ASSUME NEW p \in Procs, Executing(p)
      PROVE  task'[p[1]].current = task[p[1]].current
  <2>1. p[1] \in Tasks /\ task[p[1]].status \in {"Scheduled", "Running"}
    BY <1>2, ProcTyped, ExecutionTask
  <2>2. CASE Submit(k, t)
    BY <2>1, <2>2 DEF Submit, Present, TypeOK
  <2>3. CASE Cancel(k, t)
    <3>1. CancelledRow(task[t]).current = task[t].current
      BY DEF TypeOK, TaskRow, CancelledRow
    <3> QED
      BY <2>1, <2>3, <3>1 DEF Cancel, TypeOK
  <2> QED
    BY <2>2, <2>3
<1>3. \A a \in Attempts : LiveHeld(a)'
  BY <1>1, ExecutionParts DEF LiveHeld
<1>4. \A p \in Procs : Owner(p)'
  BY <1>1, <1>2, ExecutionParts DEF Owner, Executing
<1> QED
  BY <1>3, <1>4, ExecutionParts

\* The sweep never settles what executes, and leaves no live row without a slot.
LEMMA SweptLive ==
  ASSUME TypeOK, ExecutionHoldsSlot, NEW a \in Attempts, NEW unseen,
         SweptAttempts(unseen)[a].state \in Live
  PROVE  SweptAttempts(unseen)[a].reserved
<1> DEFINE t == a[1]
           att == attempt[a]
           seen == Inspected(t, unseen)
<1>1. att \in AttemptRow /\ t \in Tasks
  BY DEF TypeOK, Attempts
<1>2. att.state \in Live => att.reserved
  BY ExecutionParts DEF LiveHeld
<1>3. CASE ~(Swept(t) /\ a = Current(t))
  BY <1>2, <1>3 DEF SweptAttempts
<1>4. CASE Swept(t) /\ a = Current(t)
  <2>1. HasCurrent(t)
    BY <1>4 DEF Swept
  <2>2. SweptAttempts(unseen)[a] = IF SettlesNow(seen) THEN SettledAttempt(seen) ELSE seen
    BY <1>4 DEF SweptAttempts
  <2>3. AttemptTyped(seen) /\ seen.reserved = att.reserved
    BY <1>1, <1>4, <2>1, InspectedTyped, InspectedKeepsSlot
  <2>4. SettledAttempt(seen).state = seen.state
    BY <2>3 DEF SettledAttempt, AttemptTyped, AttemptRow
  <2>5. ~SettlesNow(seen)
    BY <2>2, <2>4 DEF SettlesNow, Live
  <2>6. seen.state \in Live
    BY <2>2, <2>5
  <2>7. att.state \in Live
    <3>1. seen = att \/ att.state \in {"Queued", "Launching", "Running"}
      BY <1>1, <1>4, InspectedCases
    <3> QED
      BY <2>6, <3>1 DEF Live
  <2> QED
    BY <1>2, <2>2, <2>3, <2>5, <2>7
<1> QED
  BY <1>3, <1>4

LEMMA SweptExecution ==
  ASSUME TypeOK, SlotsMatchTasks, ExecutionHoldsSlot, NEW p \in Procs, Executing(p), NEW unseen
  PROVE  /\ SweptTask(p[1], unseen).current = p[2]
         /\ SweptTask(p[1], unseen).status \in {"Scheduled", "Running"}
         /\ SweptAttempts(unseen)[Of(p)].runner = attempt[Of(p)].runner
         /\ SweptAttempts(unseen)[Of(p)].state \in {"Launching", "Running", "Unknown"}
<1> DEFINE t == p[1]
           att == attempt[Of(p)]
           seen == Inspected(t, unseen)
<1>1. /\ t \in Tasks /\ p[2] \in Numbers /\ Of(p) \in Attempts /\ att \in AttemptRow
      /\ Of(p) = <<t, p[2]>>
  BY ProcTyped DEF AttemptTyped, Of
<1>2. /\ Of(p) = Current(t) /\ HasCurrent(t) /\ task[t].status \in {"Scheduled", "Running"}
      /\ att.state \in {"Launching", "Running", "Unknown"} /\ att.reserved
  BY ExecutionTask
<1>3. Swept(t)
  BY <1>2 DEF Swept, Open, Present, Terminal
<1>4. seen = att \/ seen = Lost(att)
  BY <1>1, <1>2, InspectedCases
<1>5. /\ seen.runner = att.runner /\ seen.reserved = att.reserved
      /\ seen.state \in {"Launching", "Running", "Unknown"}
  <2>1. /\ Lost(att).runner = att.runner /\ Lost(att).reserved = att.reserved
        /\ Lost(att).state = "Unknown"
    BY <1>1 DEF Lost, AttemptRow
  <2> QED
    BY <1>2, <1>4, <2>1
<1>6. SweptAttempts(unseen)[Of(p)] = seen
  <2>1. ~SettlesNow(seen)
    BY <1>5 DEF SettlesNow
  <2>2. Of(p)[1] = t
    BY <1>1
  <2> QED
    BY <1>1, <1>2, <1>3, <2>1, <2>2 DEF SweptAttempts
<1>7. SweptAttempts(unseen)[<<t, p[2]>>].reserved
  BY <1>1, <1>2, <1>5, <1>6
<1> QED
  BY <1>1, <1>5, <1>6, <1>7, SweptSlots

LEMMA TickExecution ==
  ASSUME TypeOK, SlotsMatchTasks, ExecutionHoldsSlot, Tick
  PROVE  ExecutionHoldsSlot'
<1>1. PICK unseen \in SUBSET Unreadable, place \in [Tasks -> Workers \cup {0}] :
        Admit([t \in Tasks |-> SweptTask(t, unseen)], SweptAttempts(unseen), place)
  BY DEF Tick
<1> DEFINE A == SweptAttempts(unseen)
<1>2. ASSUME NEW a \in Attempts PROVE LiveHeld(a)'
  <2>1. a[1] \in Tasks
    BY DEF Attempts
  <2>2. attempt'[a] = IF place[a[1]] # 0 /\ a[2] = NextNumber(a[1])
                      THEN Queued(place[a[1]]) ELSE A[a]
    BY <1>1 DEF Admit
  <2>3. \A w : Queued(w).reserved
    BY DEF Queued, NoAttempt
  <2>4. A[a].state \in Live => A[a].reserved
    BY SweptLive
  <2> QED
    BY <2>2, <2>3, <2>4 DEF LiveHeld
<1>3. ASSUME NEW p \in Procs PROVE Owner(p)'
  <2> SUFFICES ASSUME Executing(p)
               PROVE  /\ attempt'[Of(p)].runner = p[3]
                      /\ attempt'[Of(p)].state \in {"Launching", "Running", "Unknown"}
                      /\ task'[p[1]].current = p[2]
    BY DEF Owner, Executing, Tick
  <2>1. p[1] \in Tasks /\ Of(p) \in Attempts /\ Of(p)[1] = p[1]
    BY ProcTyped DEF Of
  <2>2. place[p[1]] = 0
    BY <1>1, <2>1, SweptExecution DEF Admit, IsSchedule, Placeable, Ready
  <2>3. attempt'[Of(p)] = A[Of(p)] /\ task'[p[1]] = SweptTask(p[1], unseen)
    BY <1>1, <2>1, <2>2 DEF Admit
  <2>4. attempt[Of(p)].runner = p[3]
    BY DEF ExecutionHoldsSlot
  <2> QED
    BY <2>3, <2>4, SweptExecution
<1> QED
  BY <1>2, <1>3, ExecutionParts

LEMMA SettleValidatedExecution ==
  ASSUME TypeOK, SlotsMatchTasks, ExecutionHoldsSlot, NEW t \in Tasks, SettleValidated(t)
  PROVE  ExecutionHoldsSlot'
<1> DEFINE att == attempt[Checked(t)]
           kind == IF check[t].stage = "confirmed" THEN "none" ELSE "validation"
           row == Settled(t, VerdictRow(t), att, kind)
           new == Judged(att, task[t].intent, kind)
<1>1. /\ Checked(t) \in Attempts /\ att \in AttemptRow /\ Checked(t) = <<t, check[t].number>>
      /\ proc' = proc
  BY CheckedTyped DEF SettleValidated, Checked, AttemptTyped
<1>2. CASE UNCHANGED <<task, attempt>>
  BY <1>1, <1>2, ExecutionKept DEF Executing
<1>3. CASE /\ VerdictApplies(t)
           /\ task' = [task EXCEPT ![t] = row]
           /\ attempt' = [attempt EXCEPT ![Checked(t)] = new]
  <2>1. new.state = "Succeeded" /\ att.state = "Succeeded" /\ task[t].current = check[t].number
    BY <1>1, <1>3 DEF Judged, SettledAttempt, AttemptRow, VerdictApplies, Validates
  <2> HIDE DEF row, new
  <2>2. ASSUME NEW a \in Attempts PROVE LiveHeld(a)'
    BY <1>1, <1>3, <2>1, ExecutionParts DEF LiveHeld, Live, TypeOK
  <2>3. ASSUME NEW p \in Procs PROVE Owner(p)'
    <3> SUFFICES ASSUME Executing(p)
                 PROVE  /\ attempt'[Of(p)] = attempt[Of(p)]
                        /\ task'[p[1]] = task[p[1]]
      BY <1>1, ExecutionParts DEF Owner, Executing
    <3>1. p[1] \in Tasks /\ Of(p) \in Attempts
      BY ProcTyped
    <3>2. Of(p) = Current(p[1]) /\ attempt[Of(p)].state # "Succeeded"
      BY ExecutionTask
    <3>3. p[1] # t
      BY <1>1, <2>1, <3>2 DEF Current
    <3>4. Of(p) # Checked(t)
      BY <2>1, <3>2
    <3> QED
      BY <1>1, <1>3, <3>1, <3>3, <3>4 DEF TypeOK
  <2> QED
    BY <2>2, <2>3, ExecutionParts
<1> QED
  BY <1>2, <1>3 DEF SettleValidated

LEMMA ResolveExecution ==
  ASSUME TypeOK, ExecutionHoldsSlot, NEW a \in Attempts, Resolve(a)
  PROVE  ExecutionHoldsSlot'
<1> DEFINE new == Resolved(attempt[a])
<1>1. new.state = "Failed"
  BY DEF TypeOK, AttemptRow, Resolved
<1>2. attempt' = [attempt EXCEPT ![a] = new] /\ UNCHANGED <<task, proc>>
  BY DEF Resolve
<1> HIDE DEF new
<1>3. ASSUME NEW b \in Attempts PROVE LiveHeld(b)'
  BY <1>1, <1>2, ExecutionParts DEF LiveHeld, Live, TypeOK
<1>4. ASSUME NEW p \in Procs PROVE Owner(p)'
  <2>1. CASE Of(p) = a /\ Executing(p)
    <3>1. p = <<a[1], a[2], p[3]>> /\ p[3] \in 1..MaxLaunch
      BY <2>1 DEF Procs, Of
    <3> QED
      BY <2>1, <3>1 DEF Resolve
  <2>2. CASE Of(p) # a
    <3>1. attempt'[Of(p)] = attempt[Of(p)]
      BY <1>2, <2>2, ProcTyped DEF TypeOK
    <3> QED
      BY <1>2, <3>1, ExecutionParts DEF Owner, Executing
  <2>3. CASE ~Executing(p)
    BY <1>2, <2>3 DEF Owner, Executing
  <2> QED
    BY <2>1, <2>2, <2>3
<1> QED
  BY <1>3, <1>4, ExecutionParts

LEMMA ClaimExecution ==
  ASSUME TypeOK, SlotsMatchTasks, ExecutionHoldsSlot, NEW p \in Procs, Claim(p)
  PROVE  ExecutionHoldsSlot'
<1>1. Of(p) \in Attempts /\ task' = task
  BY ProcTyped DEF Claim
<1>2. CASE attempt' = attempt /\ proc' = [proc EXCEPT ![p] = Idle("exited")]
  <2>1. \A q \in Procs : Executing(q)' => Executing(q)
    BY <1>2 DEF Executing, Idle, TypeOK
  <2> QED
    BY <1>1, <1>2, <2>1, ExecutionKept
<1>3. ASSUME attempt[Of(p)].state = "Queued", task[p[1]].current = p[2],
             NEW att, NEW c,
             attempt' = [attempt EXCEPT ![Of(p)] = att],
             att.reserved = attempt[Of(p)].reserved,
             proc' = [proc EXCEPT ![p] = c],
             \/ att.state = "Failed" /\ c.pc = "exited"
             \/ att.state = "Launching" /\ att.runner = p[3]
      PROVE  ExecutionHoldsSlot'
  <2>1. attempt[Of(p)].reserved
    BY <1>1, <1>3, ExecutionParts DEF LiveHeld, Live
  <2>2. ASSUME NEW a \in Attempts PROVE LiveHeld(a)'
    BY <1>1, <1>3, <2>1, ExecutionParts DEF LiveHeld, TypeOK
  <2>3. ASSUME NEW q \in Procs PROVE Owner(q)'
    <3>1. CASE q = p
      BY <1>1, <1>3, <3>1 DEF Owner, Executing, TypeOK
    <3>2. CASE q # p
      <4> SUFFICES ASSUME Executing(q)
                   PROVE  attempt'[Of(q)] = attempt[Of(q)]
        BY <1>1, <1>3, <3>2, ExecutionParts DEF Owner, Executing, TypeOK
      <4>1. attempt[Of(q)].state # "Queued" /\ Of(q) \in Attempts
        BY ProcTyped, ExecutionParts DEF Owner
      <4> QED
        BY <1>1, <1>3, <4>1 DEF TypeOK
    <3> QED
      BY <3>1, <3>2
  <2> QED
    BY <2>2, <2>3, ExecutionParts
<1> QED
  BY <1>2, <1>3, ClaimCases

\* A report is made by the only execution of its attempt.
LEMMA ReportExecution ==
  ASSUME TypeOK, SlotsMatchTasks, ExecutionHoldsSlot, NEW p \in Procs, Executing(p),
         NEW state, NEW kind, NEW total, NEW next, Report(p, state, kind, total, next),
         next # "exited" => state = "Running", task' = task
  PROVE  ExecutionHoldsSlot'
<1>1. Of(p) \in Attempts /\ attempt[Of(p)].reserved /\ attempt[Of(p)].runner = p[3]
      /\ task[p[1]].current = p[2]
  BY ProcTyped, ExecutionTask, ExecutionParts DEF Owner
<1>2. CASE attempt' = attempt /\ proc' = [proc EXCEPT ![p] = Idle("exited")]
  <2>1. \A q \in Procs : Executing(q)' => Executing(q)
    BY <1>2 DEF Executing, Idle, TypeOK
  <2> QED
    BY <1>2, <2>1, ExecutionKept
<1>3. ASSUME NEW att, NEW c,
             attempt' = [attempt EXCEPT ![Of(p)] = att], att.state = state,
             att.reserved = attempt[Of(p)].reserved, att.runner = attempt[Of(p)].runner,
             proc' = [proc EXCEPT ![p] = c], c.pc = next
      PROVE  ExecutionHoldsSlot'
  <2>1. ASSUME NEW a \in Attempts PROVE LiveHeld(a)'
    BY <1>1, <1>3, ExecutionParts DEF LiveHeld, TypeOK
  <2>2. ASSUME NEW q \in Procs PROVE Owner(q)'
    <3>1. CASE q = p
      BY <1>1, <1>3, <3>1 DEF Owner, Executing, TypeOK
    <3>2. CASE q # p
      <4> SUFFICES ASSUME Executing(q)
                   PROVE  attempt'[Of(q)] = attempt[Of(q)]
        BY <1>1, <1>3, <3>2, ExecutionParts DEF Owner, Executing, TypeOK
      <4>1. Of(q) # Of(p)
        <5>1. p = <<p[1], p[2], p[3]>> /\ q = <<q[1], q[2], q[3]>>
          BY DEF Procs
        <5>2. attempt[Of(q)].runner = q[3]
          BY ExecutionParts DEF Owner
        <5> QED
          BY <1>1, <3>2, <5>1, <5>2 DEF Of
      <4> QED
        BY <1>3, <4>1, ProcTyped DEF TypeOK
    <3> QED
      BY <3>1, <3>2
  <2> QED
    BY <2>1, <2>2, ExecutionParts
<1> QED
  BY <1>2, <1>3, ReportCases

LEMMA RunnerExecution ==
  ASSUME TypeOK, SlotsMatchTasks, ExecutionHoldsSlot, NEW p \in Procs,
         RunnerStep(p) \/ Heartbeat(p) \/ RunnerCrash(p)
  PROVE  ExecutionHoldsSlot'
<1>1. task' = task
  BY DEF RunnerStep, Claim, CheckpointStop, Proceed, Announce, StartWarmup, StartRequest,
         Answer,
         RequestFails, WorkFails, Publish, Finish, Heartbeat, RunnerCrash, RunnerOnly
<1>2. CASE Claim(p)
  BY <1>2, ClaimExecution
<1>3. CASE Announce(p)
  BY <1>1, <1>3, ReportExecution DEF Announce, Executing
<1>4. CASE Heartbeat(p)
  <2>1. CASE RefusedInWarmup(p)
    <3>1. attempt' = attempt /\ \A q \in Procs : Executing(q)' => Executing(q)
      BY <2>1, RefusalCases DEF Executing, TypeOK
    <3> QED
      BY <1>1, <3>1, ExecutionKept
  <2>2. CASE ~RefusedInWarmup(p)
    BY <1>1, <1>4, <2>2, ReportExecution DEF Heartbeat, Executing
  <2> QED
    BY <2>1, <2>2
<1>5. CASE Finish(p)
  BY <1>1, <1>5, ReportExecution DEF Finish, Executing
<1>6. CASE \/ CheckpointStop(p) \/ Proceed(p) \/ StartWarmup(p) \/ StartRequest(p) \/ Answer(p)
           \/ RequestFails(p) \/ WorkFails(p) \/ Publish(p) \/ RunnerCrash(p)
  <2>1. attempt' = attempt
    BY <1>6 DEF CheckpointStop, Proceed, StartWarmup, StartRequest, Answer, RequestFails,
                WorkFails, Publish, RunnerCrash
  <2>2. Executing(p) \/ proc' = [proc EXCEPT ![p] = Idle("exited")]
    BY <1>6 DEF CheckpointStop, Proceed, StartWarmup, StartRequest, Answer, RequestFails,
                WorkFails, Publish, RunnerCrash, Exit, Executing
  <2>3. \E c : proc' = [proc EXCEPT ![p] = c]
    BY <1>6 DEF CheckpointStop, Proceed, StartWarmup, StartRequest, Answer, RequestFails,
                WorkFails, Publish, RunnerCrash, Exit, Conclude
  <2>4. \A q \in Procs : Executing(q)' => Executing(q)
    BY <2>2, <2>3 DEF Executing, Idle, TypeOK
  <2> QED
    BY <1>1, <2>1, <2>4, ExecutionKept
<1> QED
  BY <1>2, <1>3, <1>4, <1>5, <1>6 DEF RunnerStep

LEMMA NextExecution ==
  TypeOK /\ SlotsMatchTasks /\ ExecutionHoldsSlot /\ [Next]_vars => ExecutionHoldsSlot'
<1> SUFFICES ASSUME TypeOK, SlotsMatchTasks, ExecutionHoldsSlot, [Next]_vars
             PROVE  ExecutionHoldsSlot'
  OBVIOUS
<1>1. CASE UNCHANGED <<task, attempt, proc>>
  BY <1>1, ExecutionKept DEF Executing
<1>2. CASE \/ \E t \in Tasks : Prevalidate(t) \/ Recheck(t) \/ ValidationFault(t)
           \/ ManagerCrash \/ ClockTick \/ \E w \in Workers : Register(w)
           \/ \E a \in Attempts : ArtifactDamaged(a)
  BY <1>1, <1>2
     DEF Prevalidate, Recheck, ValidationFault, ManagerCrash, ClockTick, Register,
         ArtifactDamaged
<1>3. ASSUME NEW w \in Workers, WorkerTick(w) PROVE ExecutionHoldsSlot'
  <2>1. UNCHANGED <<task, attempt>>
    BY <1>3 DEF WorkerTick
  <2>2. PICK chosen \in SUBSET Procs :
          proc' = [p \in Procs |-> IF p \in chosen THEN Idle("started") ELSE proc[p]]
    BY <1>3 DEF WorkerTick
  <2>3. \A p \in Procs : Executing(p)' => Executing(p)
    BY <2>2 DEF Executing, Idle
  <2> QED
    BY <2>1, <2>3, ExecutionKept
<1> QED
  BY <1>1, <1>2, <1>3, CommandExecution, TickExecution, SettleValidatedExecution,
     ResolveExecution, RunnerExecution
     DEF Next, Validate, vars

----------------------------------------------------------------------------
\* The admission bound

LEMMA AttemptsFinite == IsFiniteSet(Attempts)
<1>1. IsFiniteSet(Numbers)
  BY FS_Interval, ConstantsAssumption DEF Numbers
<1> QED
  BY <1>1, ConstantsAssumption, FS_Product DEF Attempts

LEMMA ReservedFinite ==
  ASSUME NEW S \in SUBSET Attempts
  PROVE  IsFiniteSet(S) /\ Cardinality(S) \in Nat
  BY AttemptsFinite, FS_Subset, FS_CardinalityType

\* Only admission takes slots: a step that takes none keeps the bound.
LEMMA CapacityKept ==
  ASSUME CapacityBound, \A a \in Attempts : attempt'[a].reserved => attempt[a].reserved
  PROVE  CapacityBound'
<1>1. Reserved \in SUBSET Attempts /\ Reserved' \in SUBSET Reserved
  BY DEF Reserved
<1>2. IsFiniteSet(Reserved) /\ Cardinality(Reserved) \in Nat /\ Cardinality(Reserved') \in Nat
  BY <1>1, ReservedFinite
<1>3. Cardinality(Reserved') <= Cardinality(Reserved)
  BY <1>1, <1>2, FS_Subset
<1> QED
  BY <1>2, <1>3, ConstantsAssumption DEF CapacityBound

LEMMA SweptReserved ==
  ASSUME TypeOK, NEW a \in Attempts, NEW unseen, SweptAttempts(unseen)[a].reserved
  PROVE  attempt[a].reserved
<1> DEFINE t == a[1]
           seen == Inspected(t, unseen)
<1>1. t \in Tasks
  BY DEF Attempts
<1>2. CASE ~(Swept(t) /\ a = Current(t))
  BY <1>2 DEF SweptAttempts
<1>3. CASE Swept(t) /\ a = Current(t)
  <2>1. HasCurrent(t)
    BY <1>3 DEF Swept
  <2>2. SweptAttempts(unseen)[a] = IF SettlesNow(seen) THEN SettledAttempt(seen) ELSE seen
    BY <1>3 DEF SweptAttempts
  <2>3. AttemptTyped(seen) /\ seen.reserved = attempt[a].reserved
    BY <1>1, <1>3, <2>1, InspectedTyped, InspectedKeepsSlot
  <2>4. ~SettledAttempt(seen).reserved
    BY <2>3 DEF SettledAttempt, AttemptTyped, AttemptRow
  <2> QED
    BY <2>2, <2>3, <2>4
<1> QED
  BY <1>2, <1>3

\* schedule compares each task with the slots left by the ones placed before it
\* in the same tick, so the last one placed bounds them all.
LEMMA TickCapacity ==
  ASSUME TypeOK, CapacityBound, Tick
  PROVE  CapacityBound'
<1>1. PICK unseen \in SUBSET Unreadable, place \in [Tasks -> Workers \cup {0}] :
        Admit([t \in Tasks |-> SweptTask(t, unseen)], SweptAttempts(unseen), place)
  BY DEF Tick
<1> DEFINE A == SweptAttempts(unseen)
           New == {<<t, NextNumber(t)>> : t \in Placed(place)}
<1>2. \A a \in Attempts :
        attempt'[a] = IF place[a[1]] # 0 /\ a[2] = NextNumber(a[1])
                      THEN Queued(place[a[1]]) ELSE A[a]
  BY <1>1 DEF Admit
<1>3. CASE Placed(place) = {}
  <2>1. ASSUME NEW a \in Attempts, attempt'[a].reserved PROVE attempt[a].reserved
    <3>1. place[a[1]] = 0
      BY <1>3 DEF Placed, Attempts
    <3> QED
      BY <1>2, <2>1, <3>1, SweptReserved
  <2> QED
    BY <2>1, CapacityKept
<1>4. CASE Placed(place) # {}
  <2>1. Placed(place) \in SUBSET Tasks /\ IsFiniteSet(Placed(place))
    BY ConstantsAssumption, FS_Subset DEF Placed
  <2>2. PICK last \in Placed(place) :
          \A u \in Placed(place) : u = last \/ Precedes(u, last)
    BY <1>4, <2>1, LastTask
  <2> DEFINE before == Earlier(place, last)
             held == ReservedIn(A)
  <2>3. last \in Tasks /\ place[last] # 0
    BY <2>1 DEF Placed
  <2>4. Cardinality(held) + Cardinality(before) < MaxActive
    BY <1>1, <2>3 DEF Admit, IsSchedule, Placeable, Room
  <2>5. IsFiniteSet(held) /\ Cardinality(held) \in Nat /\ held \subseteq Attempts
    BY ReservedFinite DEF ReservedIn
  <2>6. before \in SUBSET Tasks /\ IsFiniteSet(before) /\ Cardinality(before) \in Nat
    BY ConstantsAssumption, FS_Subset, FS_CardinalityType DEF Earlier
  <2>7. Cardinality(Placed(place)) <= Cardinality(before) + 1
    <3>1. Placed(place) \in SUBSET (before \cup {last})
      BY <2>1, <2>2 DEF Earlier, Placed
    <3> HIDE DEF before
    <3>2. /\ IsFiniteSet(before \cup {last})
          /\ Cardinality(before \cup {last}) \in {Cardinality(before), Cardinality(before) + 1}
      BY <2>6, FS_AddElement
    <3>3. Cardinality(Placed(place)) <= Cardinality(before \cup {last})
      BY <3>1, <3>2, FS_Subset
    <3>4. Cardinality(Placed(place)) \in Nat
      BY <2>1, FS_CardinalityType
    <3> QED
      BY <2>6, <3>2, <3>3, <3>4
  <2>8. /\ IsFiniteSet(New) /\ Cardinality(New) \in Nat
        /\ Cardinality(New) <= Cardinality(Placed(place))
    <3> DEFINE f == [t \in Placed(place) |-> <<t, NextNumber(t)>>]
    <3>1. f \in Surjection(Placed(place), New)
      BY DEF Surjection
    <3> HIDE DEF New, f
    <3> QED
      BY <2>1, <3>1, FS_Surjection, FS_CardinalityType
  <2>9. Reserved' \in SUBSET (held \cup New)
    <3>1. ASSUME NEW a \in Attempts, attempt'[a].reserved, a \notin held
          PROVE  a \in New
      <4>1. place[a[1]] # 0 /\ a[2] = NextNumber(a[1])
        BY <1>2, <3>1 DEF ReservedIn
      <4>2. a[1] \in Tasks /\ a = <<a[1], a[2]>>
        BY DEF Attempts
      <4> QED
        BY <4>1, <4>2 DEF Placed
    <3> HIDE DEF held, New
    <3> QED
      BY <3>1 DEF Reserved
  <2> HIDE DEF held, New, before
  <2>10. /\ IsFiniteSet(held \cup New)
         /\ Cardinality(held \cup New) <= Cardinality(held) + Cardinality(New)
    <3>1. Cardinality(held \cap New) \in Nat
      BY <2>5, FS_Intersection, FS_CardinalityType
    <3>2. /\ IsFiniteSet(held \cup New)
          /\ Cardinality(held \cup New) =
               Cardinality(held) + Cardinality(New) - Cardinality(held \cap New)
      BY <2>5, <2>8, FS_Union
    <3> QED
      BY <2>5, <2>8, <3>1, <3>2
  <2>11. /\ Cardinality(Reserved') <= Cardinality(held \cup New)
         /\ Cardinality(Reserved') \in Nat /\ Cardinality(held \cup New) \in Nat
    BY <2>9, <2>10, FS_Subset, FS_CardinalityType
  <2>12. Cardinality(Placed(place)) \in Nat
    BY <2>1, FS_CardinalityType
  <2>13. MaxActive \in Nat
    BY ConstantsAssumption
  <2>14. Cardinality(Reserved') <= MaxActive
    BY <2>4, <2>5, <2>6, <2>7, <2>8, <2>10, <2>11, <2>12, <2>13
  <2> QED
    BY <2>14 DEF CapacityBound
<1> QED
  BY <1>3, <1>4

LEMMA NextCapacity == TypeOK /\ CapacityBound /\ [Next]_vars => CapacityBound'
<1> SUFFICES ASSUME TypeOK, CapacityBound, [Next]_vars PROVE CapacityBound'
  OBVIOUS
<1>1. CASE UNCHANGED attempt
  BY <1>1, CapacityKept
<1>2. CASE \/ \E k \in Keys, t \in Tasks : Submit(k, t) \/ Cancel(k, t)
           \/ \E t \in Tasks : Prevalidate(t) \/ Recheck(t) \/ ValidationFault(t)
           \/ ManagerCrash \/ ClockTick
           \/ \E w \in Workers : Register(w) \/ WorkerTick(w)
           \/ \E a \in Attempts : ArtifactDamaged(a)
           \/ \E p \in Procs : \/ CheckpointStop(p) \/ Proceed(p) \/ StartWarmup(p)
                               \/ StartRequest(p)
                              \/ Answer(p) \/ RequestFails(p) \/ WorkFails(p)
                              \/ Publish(p) \/ RunnerCrash(p)
  <2>1. UNCHANGED attempt
    BY <1>2
       DEF Submit, Cancel, Prevalidate, Recheck, ValidationFault, ManagerCrash, ClockTick,
           Register, WorkerTick, ArtifactDamaged, CheckpointStop, Proceed, StartWarmup,
           StartRequest, Answer, RequestFails, WorkFails, Publish, RunnerCrash
  <2> QED
    BY <2>1, <1>1
<1>3. ASSUME NEW t \in Tasks, SettleValidated(t) PROVE CapacityBound'
  <2>1. \E kind : attempt' \in {attempt, [attempt EXCEPT ![Checked(t)] =
                                 Judged(attempt[Checked(t)], task[t].intent, kind)]}
    BY <1>3 DEF SettleValidated
  <2>2. \A kind : ~Judged(attempt[Checked(t)], task[t].intent, kind).reserved
    BY <1>3, CheckedTyped
       DEF SettleValidated, Judged, SettledAttempt, AttemptTyped, AttemptRow
  <2> QED
    BY <2>1, <2>2, CapacityKept DEF TypeOK
<1>4. CASE \/ \E p \in Procs : Claim(p) \/ Announce(p) \/ Heartbeat(p) \/ Finish(p)
           \/ \E a \in Attempts : Resolve(a)
  BY <1>4, RowStepReserved, CapacityKept
<1> QED
  BY <1>1, <1>2, <1>3, <1>4, TickCapacity DEF Next, Validate, RunnerStep, vars

----------------------------------------------------------------------------
\* The theorems

\* At the start no slot is held and nothing executes.
LEMMA InitSafe == Init => CapacityBound /\ SlotsMatchTasks /\ ExecutionHoldsSlot
<1> SUFFICES ASSUME Init PROVE CapacityBound /\ SlotsMatchTasks /\ ExecutionHoldsSlot
  OBVIOUS
<1>1. \A a \in Attempts : a[1] \in Tasks /\ attempt[a] = NoAttempt
  BY DEF Init, Attempts
<1>2. \A a \in Attempts : ~attempt[a].reserved /\ attempt[a].state = "None"
  BY <1>1 DEF NoAttempt
<1>3. CapacityBound
  <2>1. Reserved = {}
    BY <1>2 DEF Reserved
  <2> QED
    BY <2>1, FS_EmptySet, ConstantsAssumption DEF CapacityBound
<1>4. SlotsMatchTasks
  BY <1>1, <1>2 DEF SlotsMatchTasks, Init, NoTask
<1>5. ExecutionHoldsSlot
  BY <1>2 DEF ExecutionHoldsSlot, Executing, Init, Idle
<1> QED
  BY <1>3, <1>4, <1>5

\* max_active bounds the reserved attempts in every behaviour, however many
\* tasks one tick settles, requeues and places (Manager.tick and schedule).
THEOREM CapacityHolds == Spec => []CapacityBound
<1>1. Init => TypeOK /\ CapacityBound
  BY InitTyped, InitSafe
<1>2. TypeOK /\ CapacityBound /\ [Next]_vars => TypeOK' /\ CapacityBound'
  BY NextTyped, NextCapacity
<1> QED
  BY <1>1, <1>2, PTL DEF Spec

\* A slot is held by the current attempt of a Scheduled or Running task and by
\* nothing else: settlement, requeue, cancel and admission never leak one.
THEOREM SlotsAlwaysMatch == Spec => []SlotsMatchTasks
<1>1. Init => TypeOK /\ SlotsMatchTasks
  BY InitTyped, InitSafe
<1>2. TypeOK /\ SlotsMatchTasks /\ [Next]_vars => TypeOK' /\ SlotsMatchTasks'
  BY NextTyped, NextSlots
<1> QED
  BY <1>1, <1>2, PTL DEF Spec

\* Whatever still executes owns the slot of the current attempt of its task,
\* across crashes, relaunches, lost workers and unreadable identities: the
\* manager never hands its capacity to another attempt (tick, run_attempt).
THEOREM ExecutionsHoldSlots == Spec => []ExecutionHoldsSlot
<1>1. Init => TypeOK /\ SlotsMatchTasks /\ ExecutionHoldsSlot
  BY InitTyped, InitSafe
<1>2. TypeOK /\ SlotsMatchTasks /\ ExecutionHoldsSlot /\ [Next]_vars
        => TypeOK' /\ SlotsMatchTasks' /\ ExecutionHoldsSlot'
  BY NextTyped, NextSlots, NextExecution
<1> QED
  BY <1>1, <1>2, PTL DEF Spec

\* No two runners ever execute work of one task at the same time, for any
\* number of workers, launches and retries: the claim and the ownership of the
\* current attempt exclude each other's runners (run_attempt, worker.launch).
THEOREM OneRunner == Spec => []OneRunnerPerTask
<1>1. TypeOK /\ ExecutionHoldsSlot => OneRunnerPerTask
  <2> SUFFICES ASSUME TypeOK, ExecutionHoldsSlot,
                      NEW p \in Procs, NEW q \in Procs,
                      Executing(p), Executing(q), p[1] = q[1]
               PROVE  p = q
    BY DEF OneRunnerPerTask
  <2>1. p[2] = q[2] /\ attempt[Of(p)].runner = p[3] /\ attempt[Of(q)].runner = q[3]
    BY DEF ExecutionHoldsSlot
  <2>2. p = <<p[1], p[2], p[3]>> /\ q = <<q[1], q[2], q[3]>>
    BY DEF Procs
  <2> QED
    BY <2>1, <2>2 DEF Of
<1> QED
  BY <1>1, TypeCorrect, ExecutionsHoldSlots, PTL

----------------------------------------------------------------------------
\* The steps of one attempt row

\* schedule inserts the row
Admitted(a) ==
  /\ Open(a[1]) /\ a[2] = NextNumber(a[1])
  /\ \E w \in Workers : attempt'[a] = Queued(w)

\* what the sweep makes of the current attempt of a task before it settles it
Seen(att) ==
  {att} \cup (IF att.state = "Queued"
              THEN {Unstarted(att, "cancelled"), Unstarted(att, "not_started")} ELSE {})
        \cup (IF att.state \in {"Launching", "Running"} THEN {Lost(att)} ELSE {})

SweptTo(a) ==
  /\ Open(a[1]) /\ a = Current(a[1])
  /\ \E seen \in Seen(attempt[a]) :
       attempt'[a] = IF SettlesNow(seen) THEN SettledAttempt(seen) ELSE seen

\* a verdict on its result settles it
JudgedTo(a) ==
  /\ Open(a[1]) /\ Validates(attempt[a])
  /\ \E intent \in Intents, kind \in {"none", "validation"} :
       attempt'[a] = Judged(attempt[a], intent, kind)

ResolvedTo(a) ==
  /\ attempt[a].state = "Unknown"
  /\ attempt'[a] = Resolved(attempt[a])

ClaimedTo(a) ==
  /\ attempt[a].state = "Queued"
  /\ \/ attempt'[a] = Refused(attempt[a])
     \/ \E k \in 1..MaxLaunch : attempt'[a] = ClaimedBy(attempt[a], k)

ReportedTo(a) ==
  \E p \in Procs, kind \in Kinds, total \in BOOLEAN,
     state \in {"Running", "Succeeded", "Failed", "Cancelled", "Unknown"} :
    /\ a = Of(p) /\ Executing(p) /\ Accepted(p, state) /\ state \in Reportable(p)
    /\ (state = "Running" /\ kind = "none") \/ state = FinalState(kind)
    /\ attempt'[a] = Observed(p, state, kind, total)

LEMMA TickRows ==
  ASSUME TypeOK, Tick, NEW a \in Attempts
  PROVE  \/ attempt'[a] = attempt[a] \/ SweptTo(a)
         \/ (Admitted(a) /\ task'[a[1]].status = "Scheduled")
<1>1. PICK unseen \in SUBSET Unreadable, place \in [Tasks -> Workers \cup {0}] :
        Admit([t \in Tasks |-> SweptTask(t, unseen)], SweptAttempts(unseen), place)
  BY DEF Tick
<1> DEFINE t == a[1]
           T == [u \in Tasks |-> SweptTask(u, unseen)]
<1>2. t \in Tasks
  BY DEF Attempts
<1>3. CASE place[t] # 0 /\ a[2] = NextNumber(t)
  <2>1. attempt'[a] = Queued(place[t]) /\ place[t] \in Workers
    BY <1>1, <1>2, <1>3 DEF Admit
  <2>2. task'[t] = [T[t] EXCEPT !.status = "Scheduled", !.current = NextNumber(t)]
    BY <1>1, <1>2, <1>3 DEF Admit
  <2>3. T[t] = SweptTask(t, unseen) /\ T[t].status = "Pending"
    BY <1>1, <1>2, <1>3 DEF Admit, IsSchedule, Placeable, Ready
  <2>4. T[t] \in TaskRow
    BY <1>2, <2>3, SweptTaskTyped DEF TaskTyped
  <2>5. task'[t].status = "Scheduled"
    BY <2>2, <2>4 DEF TaskRow
  <2>6. Open(t)
    BY <2>3 DEF SweptTask, Open, Present, Terminal
  <2> QED
    BY <1>3, <2>1, <2>5, <2>6 DEF Admitted
<1>4. CASE ~(place[t] # 0 /\ a[2] = NextNumber(t))
  <2>1. attempt'[a] = SweptAttempts(unseen)[a]
    BY <1>1, <1>4 DEF Admit
  <2>2. CASE ~(Swept(t) /\ a = Current(t))
    BY <2>1, <2>2 DEF SweptAttempts
  <2>3. CASE Swept(t) /\ a = Current(t)
    <3> DEFINE seen == Inspected(t, unseen)
    <3>1. attempt'[a] = IF SettlesNow(seen) THEN SettledAttempt(seen) ELSE seen
      BY <2>1, <2>3 DEF SweptAttempts
    <3>2. seen \in Seen(attempt[a])
      BY <1>2, <2>3, InspectedCases DEF Seen
    <3> QED
      BY <2>3, <3>1, <3>2 DEF SweptTo, Swept
  <2> QED
    BY <2>2, <2>3
<1> QED
  BY <1>3, <1>4

LEMMA VerdictRows ==
  ASSUME TypeOK, NEW t \in Tasks, SettleValidated(t), NEW a \in Attempts
  PROVE  attempt'[a] = attempt[a] \/ JudgedTo(a)
<1>1. Checked(t) \in Attempts /\ Checked(t)[1] = t /\ task[t].intent \in Intents
  BY CheckedTyped DEF SettleValidated, Checked, TypeOK, TaskRow
<1>2. \/ attempt' = attempt
      \/ /\ VerdictApplies(t)
         /\ \E kind \in {"none", "validation"} :
              attempt' = [attempt EXCEPT ![Checked(t)] =
                            Judged(attempt[Checked(t)], task[t].intent, kind)]
  BY DEF SettleValidated
<1> QED
  BY <1>1, <1>2 DEF JudgedTo, VerdictApplies, TypeOK

LEMMA ClaimRows ==
  ASSUME TypeOK, NEW p \in Procs, Claim(p), NEW a \in Attempts
  PROVE  attempt'[a] = attempt[a] \/ (a = Of(p) /\ ClaimedTo(a))
<1>1. Of(p) \in Attempts /\ p[3] \in 1..MaxLaunch
  BY ProcTyped DEF Procs
<1>2. \/ attempt' = attempt
      \/ /\ attempt[Of(p)].state = "Queued"
         /\ \/ attempt' = [attempt EXCEPT ![Of(p)] = Refused(attempt[Of(p)])]
            \/ attempt' = [attempt EXCEPT ![Of(p)] = ClaimedBy(attempt[Of(p)], p[3])]
  BY DEF Claim, Claimable
<1> QED
  BY <1>1, <1>2 DEF ClaimedTo, TypeOK

LEMMA ReportRows ==
  ASSUME TypeOK, NEW p \in Procs, Announce(p) \/ Heartbeat(p) \/ Finish(p),
         NEW a \in Attempts
  PROVE  attempt'[a] = attempt[a] \/ (a = Of(p) /\ ReportedTo(a))
<1>1. Of(p) \in Attempts /\ proc[p] \in ProcRow
  BY ProcTyped
<1>2. Executing(p)
  BY DEF Announce, Heartbeat, Finish, Executing
<1>3. CASE Heartbeat(p) /\ RefusedInWarmup(p)
  BY <1>3 DEF RefusedInWarmup
<1>4. CASE ~(Heartbeat(p) /\ RefusedInWarmup(p))
  <2>1. PICK kind \in Kinds, total \in BOOLEAN, next \in {"working", "requesting", "exited"},
             state \in {"Running", "Succeeded", "Failed", "Cancelled", "Unknown"} :
          /\ Report(p, state, kind, total, next) /\ state \in Reportable(p)
          /\ (state = "Running" /\ kind = "none") \/ state = FinalState(kind)
    <3>1. CASE Announce(p)
      BY <3>1 DEF Announce, Kinds, Reportable
    <3>2. CASE Heartbeat(p)
      BY <1>4, <3>2 DEF Heartbeat, Kinds, Reportable
    <3>3. CASE Finish(p)
      <4>1. proc[p].outcome \in Kinds
        BY <1>1 DEF ProcRow
      <4>2. FinalState(proc[p].outcome) \in {"Succeeded", "Failed", "Cancelled", "Unknown"}
        BY DEF FinalState
      <4> QED
        BY <3>3, <4>1, <4>2 DEF Finish, Reportable
    <3> QED
      BY <3>1, <3>2, <3>3
  <2>2. \/ attempt' = attempt
        \/ /\ Accepted(p, state)
           /\ attempt' = [attempt EXCEPT ![Of(p)] = Observed(p, state, kind, total)]
    BY <2>1 DEF Report
  <2> QED
    BY <1>1, <1>2, <2>1, <2>2 DEF ReportedTo, TypeOK
<1> QED
  BY <1>3, <1>4

\* Whatever the program does to an attempt row is one of these.
LEMMA RowCases ==
  ASSUME TypeOK, [Next]_vars, NEW a \in Attempts
  PROVE  \/ attempt'[a] = attempt[a]
         \/ Admitted(a) \/ SweptTo(a) \/ JudgedTo(a) \/ ResolvedTo(a) \/ ClaimedTo(a)
         \/ ReportedTo(a)
<1>1. CASE UNCHANGED attempt
  BY <1>1
<1>2. CASE \/ \E k \in Keys, t \in Tasks : Submit(k, t) \/ Cancel(k, t)
           \/ \E t \in Tasks : Prevalidate(t) \/ Recheck(t) \/ ValidationFault(t)
           \/ ManagerCrash \/ ClockTick
           \/ \E w \in Workers : Register(w) \/ WorkerTick(w)
           \/ \E b \in Attempts : ArtifactDamaged(b)
           \/ \E p \in Procs : \/ CheckpointStop(p) \/ Proceed(p) \/ StartWarmup(p)
                               \/ StartRequest(p)
                              \/ Answer(p) \/ RequestFails(p) \/ WorkFails(p)
                              \/ Publish(p) \/ RunnerCrash(p)
  <2>1. UNCHANGED attempt
    BY <1>2
       DEF Submit, Cancel, Prevalidate, Recheck, ValidationFault, ManagerCrash, ClockTick,
           Register, WorkerTick, ArtifactDamaged, CheckpointStop, Proceed, StartWarmup,
           StartRequest, Answer, RequestFails, WorkFails, Publish, RunnerCrash
  <2> QED
    BY <2>1
<1>3. ASSUME NEW b \in Attempts, Resolve(b)
      PROVE  attempt'[a] = attempt[a] \/ ResolvedTo(a)
  BY <1>3 DEF Resolve, ResolvedTo, TypeOK
<1> QED
  BY <1>1, <1>2, <1>3, TickRows, VerdictRows, ClaimRows, ReportRows
     DEF Next, Validate, RunnerStep, vars

----------------------------------------------------------------------------
\* The story each row tells

\* Nothing ran before the claim, nothing is settled before the end, a success
\* has no reason of failure unless its result was rejected, and every other end
\* has one.
Storied(att) ==
  /\ att.state \in {"None", "Queued"} => att.runner = 0
  /\ att.state \in {"None", "Queued", "Launching", "Running", "Unknown"} => ~att.settled
  /\ att.state \in {"None", "Queued", "Launching", "Running"} => att.kind = "none"
  /\ att.state = "Succeeded" /\ ~att.settled => att.kind = "none"
  /\ att.state \in {"Failed", "Cancelled"} => att.kind # "none"
  /\ att.state = "Succeeded" => att.finished <= now

RowStory == \A a \in Attempts : Storied(attempt[a])

\* Time never runs backwards.
LEMMA TimeGoesOn ==
  ASSUME TypeOK, [Next]_vars
  PROVE  now \in Nat /\ now' \in {now, now + 1}
<1>1. now \in Nat
  BY DEF TypeOK
<1>2. CASE UNCHANGED vars
  BY <1>1, <1>2 DEF vars
<1>3. CASE Next
  <2>1. now' = now \/ ClockTick
    BY <1>3
       DEF Next, Submit, Cancel, Tick, Validate, Prevalidate, Recheck, SettleValidated,
           ValidationFault, ManagerCrash, Resolve, ArtifactDamaged, Register, WorkerTick,
           RunnerStep, Claim, CheckpointStop, Proceed, Announce, StartWarmup, StartRequest,
           Answer,
           RequestFails, WorkFails, Publish, Finish, Heartbeat, RunnerCrash, RunnerOnly
  <2> QED
    BY <1>1, <2>1 DEF ClockTick
<1> QED
  BY <1>2, <1>3

\* The sweep, settlement, resolution, claim and reports of one row.
LEMMA SeenStory ==
  ASSUME TypeOK, NEW att \in AttemptRow, Storied(att), NEW seen \in Seen(att)
  PROVE  /\ seen \in AttemptRow /\ Storied(seen)
         /\ seen # att => seen.state \in {"Cancelled", "Unknown"}
         /\ seen.runner = att.runner
<1>1. now \in Nat /\ att.sequence + 1 \in Nat
  BY DEF TypeOK, AttemptRow
<1>2. CASE seen = att
  BY <1>2
<1>3. ASSUME NEW kind \in {"cancelled", "not_started"}, att.state = "Queued",
             seen = Unstarted(att, kind)
      PROVE  /\ seen \in AttemptRow /\ Storied(seen)
             /\ seen.state \in {"Cancelled", "Unknown"} /\ seen.runner = att.runner
  BY <1>1, <1>3 DEF Unstarted, AttemptRow, Storied, Kinds, Terminal
<1>4. ASSUME att.state \in {"Launching", "Running"}, seen = Lost(att)
      PROVE  /\ seen \in AttemptRow /\ Storied(seen)
             /\ seen.state \in {"Cancelled", "Unknown"} /\ seen.runner = att.runner
  BY <1>1, <1>4 DEF Lost, AttemptRow, Storied, Kinds, Terminal
<1> QED
  BY <1>2, <1>3, <1>4 DEF Seen

LEMMA SettledStory ==
  ASSUME NEW att \in AttemptRow, Storied(att)
  PROVE  /\ SettlesNow(att) =>
              /\ Storied(SettledAttempt(att))
              /\ SettledAttempt(att).state = att.state
              /\ SettledAttempt(att).runner = att.runner
         /\ \A intent \in Intents, kind \in {"none", "validation"} :
              Validates(att) => /\ Storied(Judged(att, intent, kind))
                                /\ Judged(att, intent, kind).state = "Succeeded"
                                /\ Judged(att, intent, kind).runner = att.runner
                                /\ Judged(att, intent, kind).finished = att.finished
<1>1. /\ SettledAttempt(att) \in AttemptRow /\ SettledAttempt(att).settled
      /\ \A f \in {"state", "runner", "kind", "finished"} : SettledAttempt(att)[f] = att[f]
  BY DEF SettledAttempt, AttemptRow
<1>2. ASSUME SettlesNow(att) PROVE Storied(SettledAttempt(att))
  BY <1>1, <1>2 DEF SettlesNow, Storied
<1>3. ASSUME NEW intent \in Intents, NEW kind \in {"none", "validation"}, Validates(att)
      PROVE  /\ Storied(Judged(att, intent, kind))
             /\ Judged(att, intent, kind).state = "Succeeded"
             /\ Judged(att, intent, kind).runner = att.runner
             /\ Judged(att, intent, kind).finished = att.finished
  BY <1>3 DEF Judged, SettledAttempt, AttemptRow, Validates, Storied
<1> QED
  BY <1>1, <1>2, <1>3

LEMMA ClaimStory ==
  ASSUME TypeOK, NEW att \in AttemptRow, Storied(att), att.state = "Queued",
         NEW new, new = Refused(att) \/ \E k \in 1..MaxLaunch : new = ClaimedBy(att, k)
  PROVE  Storied(new) /\ new.state \in {"Failed", "Launching"}
<1>1. CASE new = Refused(att)
  BY <1>1 DEF Refused, AttemptRow, Storied
<1>2. ASSUME NEW k \in 1..MaxLaunch, new = ClaimedBy(att, k)
      PROVE  Storied(new) /\ new.state = "Launching"
  BY <1>2 DEF ClaimedBy, AttemptRow, Storied
<1> QED
  BY <1>1, <1>2

\* An accepted report is about a claimed attempt that has not ended.
LEMMA ReportStory ==
  ASSUME TypeOK, NEW p \in Procs, NEW kind \in Kinds, NEW total \in BOOLEAN,
         NEW state \in {"Running", "Succeeded", "Failed", "Cancelled", "Unknown"},
         Accepted(p, state), Storied(attempt[Of(p)]),
         (state = "Running" /\ kind = "none") \/ state = FinalState(kind)
  PROVE  LET new == Observed(p, state, kind, total) IN
         /\ attempt[Of(p)].state \in {"Launching", "Running", "Unknown"}
         /\ Storied(new) /\ new.state = state
         /\ new.runner = attempt[Of(p)].runner /\ new.sequence = proc[p].sequence + 1
<1> DEFINE att == attempt[Of(p)]
           new == Observed(p, state, kind, total)
<1>1. att \in AttemptRow /\ proc[p] \in ProcRow /\ now \in Nat
  BY ProcTyped DEF AttemptTyped, TypeOK
<1>2. att.state \in {"Launching", "Running", "Unknown"} /\ state \in Moves[att.state]
  BY DEF Accepted, Moves
<1>3. /\ new.state = state /\ new.runner = att.runner /\ new.settled = att.settled
      /\ new.sequence = proc[p].sequence + 1
      /\ new.kind = IF kind = "none" THEN att.kind ELSE kind
      /\ new.finished = IF state \in Terminal THEN now ELSE att.finished
  BY <1>1 DEF Observed, AttemptRow
<1>4. ~att.settled
  BY <1>2 DEF Storied
<1>5. state = "Unknown" \/ (att.state \in {"Launching", "Running"} /\ att.kind = "none")
  BY <1>2 DEF Moves, Storied
<1>6. state \in {"Failed", "Cancelled"} => kind # "none"
  BY DEF FinalState
<1>7. state \in {"Running", "Succeeded"} => kind = "none"
  BY DEF FinalState
<1> HIDE DEF new, att
<1>8. Storied(new)
  BY <1>1, <1>3, <1>4, <1>5, <1>6, <1>7 DEF Storied, Terminal
<1> QED
  BY <1>2, <1>3, <1>8 DEF new, att

LEMMA NextStory == TypeOK /\ RowStory /\ [Next]_vars => RowStory'
<1> SUFFICES ASSUME TypeOK, RowStory, [Next]_vars, NEW a \in Attempts
             PROVE  Storied(attempt[a])'
  BY DEF RowStory
<1> DEFINE att == attempt[a]
           new == attempt'[a]
<1>1. att \in AttemptRow /\ Storied(att)
  BY DEF TypeOK, RowStory
<1>2. Storied(new)
  <2>1. CASE new = att
    BY <1>1, <2>1
  <2>2. CASE Admitted(a)
    BY <2>2 DEF Admitted, Queued, NoAttempt, Storied
  <2>3. CASE SweptTo(a)
    <3>1. PICK seen \in Seen(att) : new = IF SettlesNow(seen) THEN SettledAttempt(seen) ELSE seen
      BY <2>3 DEF SweptTo
    <3>2. seen \in AttemptRow /\ Storied(seen)
      BY <1>1, SeenStory
    <3> QED
      BY <3>1, <3>2, SettledStory
  <2>4. CASE JudgedTo(a)
    BY <1>1, <2>4, SettledStory DEF JudgedTo
  <2>5. CASE ResolvedTo(a)
    BY <1>1, <2>5 DEF ResolvedTo, Resolved, AttemptRow, Storied
  <2>6. CASE ClaimedTo(a)
    BY <1>1, <2>6, ClaimStory DEF ClaimedTo
  <2>7. CASE ReportedTo(a)
    BY <1>1, <2>7, ReportStory DEF ReportedTo
  <2> QED
    BY <2>1, <2>2, <2>3, <2>4, <2>5, <2>6, <2>7, RowCases
<1>3. new \in AttemptRow
  BY NextTyped DEF TypeOK
<1>4. new.finished <= now => new.finished <= now'
  BY <1>3, TimeGoesOn DEF AttemptRow
<1> QED
  BY <1>2, <1>4 DEF Storied

\* The rows of a task are filled in the order of their numbers.
RowsInOrder ==
  \A t \in Tasks : \A m, n \in Numbers :
    m < n /\ attempt[<<t, n>>].state # "None" => attempt[<<t, m>>].state # "None"

\* max(number) + 1: the next row is free, and the rows before it are not.
LEMMA NextRow ==
  ASSUME RowsInOrder, NEW t \in Tasks, NextNumber(t) \in Numbers
  PROVE  /\ attempt[<<t, NextNumber(t)>>].state = "None"
         /\ \A m \in Numbers : m < NextNumber(t) => attempt[<<t, m>>].state # "None"
<1> DEFINE S == {n \in Numbers : attempt[<<t, n>>].state # "None"}
           c == Cardinality(S)
<1>1. MaxRows \in Nat /\ \A i \in Nat : IsFiniteSet(1..i) /\ Cardinality(1..i) = i
  BY FS_Interval, ConstantsAssumption
<1>2. S \in SUBSET Numbers /\ IsFiniteSet(S) /\ c \in Nat
  BY <1>1, FS_Subset, FS_CardinalityType DEF Numbers
<1>3. NextNumber(t) = c + 1
  BY <1>2 DEF NextNumber
<1>4. \A m, n \in Numbers : m < n /\ n \in S => m \in S
  BY DEF RowsInOrder
<1> HIDE DEF S
<1>5. ASSUME c + 1 \in S PROVE FALSE
  <2>1. 1..(c + 1) \in SUBSET S
    <3> SUFFICES ASSUME NEW m \in 1..(c + 1) PROVE m \in S
      OBVIOUS
    <3>1. c + 1 \in Numbers /\ m \in Numbers
      BY <1>1, <1>2, <1>5 DEF Numbers
    <3>2. m = c + 1 \/ m < c + 1
      BY <1>2
    <3> QED
      BY <1>4, <1>5, <3>1, <3>2
  <2>2. Cardinality(1..(c + 1)) <= c
    BY <1>2, <2>1, FS_Subset
  <2>3. Cardinality(1..(c + 1)) = c + 1
    BY <1>1, <1>2
  <2> QED
    BY <1>2, <2>2, <2>3
<1>6. ASSUME NEW m \in Numbers, m < c + 1, m \notin S PROVE FALSE
  <2>1. m \in Nat /\ m - 1 \in Nat
    BY DEF Numbers
  <2>2. S \in SUBSET (1..(m - 1))
    <3> SUFFICES ASSUME NEW n \in S PROVE n \in 1..(m - 1)
      OBVIOUS
    <3>1. n \in Numbers /\ ~(m < n) /\ n # m
      BY <1>2, <1>4, <1>6
    <3> QED
      BY <2>1, <3>1 DEF Numbers
  <2>3. c <= m - 1
    <3>1. IsFiniteSet(1..(m - 1)) /\ Cardinality(1..(m - 1)) = m - 1
      BY <1>1, <2>1
    <3>2. Cardinality(S) <= Cardinality(1..(m - 1))
      BY <2>2, <3>1, FS_Subset
    <3> QED
      BY <3>1, <3>2
  <2> QED
    BY <1>2, <1>6, <2>1, <2>3
<1> QED
  BY <1>3, <1>5, <1>6 DEF S

\* Only schedule makes a row of nothing, and no row returns to nothing.
LEMMA RowsStay ==
  ASSUME TypeOK, RowStory, [Next]_vars, NEW a \in Attempts
  PROVE  /\ attempt[a].state = "None" /\ attempt'[a].state # "None" => Admitted(a)
         /\ attempt[a].state # "None" => attempt'[a].state # "None"
<1> DEFINE att == attempt[a]
           new == attempt'[a]
<1>1. att \in AttemptRow /\ Storied(att)
  BY DEF TypeOK, RowStory
<1>2. CASE new = att
  BY <1>2
<1>3. CASE Admitted(a)
  BY <1>3 DEF Admitted, Queued, NoAttempt
<1>4. CASE SweptTo(a)
  <2>1. PICK seen \in Seen(att) : new = IF SettlesNow(seen) THEN SettledAttempt(seen) ELSE seen
    BY <1>4 DEF SweptTo
  <2>2. /\ seen \in AttemptRow /\ Storied(seen)
        /\ seen # att => seen.state \in {"Cancelled", "Unknown"}
    BY <1>1, SeenStory
  <2>3. new.state = seen.state
    BY <2>1, <2>2, SettledStory
  <2>4. att.state = "None" => seen = att
    BY DEF Seen
  <2> QED
    BY <2>2, <2>3, <2>4
<1>5. CASE JudgedTo(a)
  BY <1>1, <1>5, SettledStory DEF JudgedTo, Validates
<1>6. CASE ResolvedTo(a)
  BY <1>1, <1>6 DEF ResolvedTo, Resolved, AttemptRow
<1>7. CASE ClaimedTo(a)
  BY <1>1, <1>7, ClaimStory DEF ClaimedTo
<1>8. CASE ReportedTo(a)
  BY <1>1, <1>8, ReportStory DEF ReportedTo
<1> QED
  BY <1>2, <1>3, <1>4, <1>5, <1>6, <1>7, <1>8, RowCases

LEMMA NextOrder == TypeOK /\ RowStory /\ RowsInOrder /\ [Next]_vars => RowsInOrder'
<1> SUFFICES ASSUME TypeOK, RowStory, RowsInOrder, [Next]_vars,
                    NEW t \in Tasks, NEW m \in Numbers, NEW n \in Numbers,
                    m < n, attempt'[<<t, n>>].state # "None"
             PROVE  attempt'[<<t, m>>].state # "None"
  BY DEF RowsInOrder
<1>1. <<t, m>> \in Attempts /\ <<t, n>> \in Attempts
  BY DEF Attempts
<1>2. attempt[<<t, m>>].state # "None"
  <2>1. CASE attempt[<<t, n>>].state # "None"
    BY <2>1 DEF RowsInOrder
  <2>2. CASE attempt[<<t, n>>].state = "None"
    <3>1. n = NextNumber(t)
      BY <1>1, <2>2, RowsStay DEF Admitted
    <3> QED
      BY <3>1, NextRow
  <2> QED
    BY <2>1, <2>2
<1> QED
  BY <1>1, <1>2, RowsStay

\* A row that schedule fills was empty.
LEMMA AdmittedNew ==
  ASSUME RowsInOrder, NEW a \in Attempts, Admitted(a)
  PROVE  attempt[a].state = "None"
<1>1. a[1] \in Tasks /\ a[2] \in Numbers /\ a = <<a[1], a[2]>>
  BY DEF Attempts
<1> QED
  BY <1>1, NextRow DEF Admitted

----------------------------------------------------------------------------
\* The sequence numbers of runners and rows

Safe == TypeOK /\ SlotsMatchTasks /\ ExecutionHoldsSlot

\* a runner on its way out with a final report of failure
Retiring(c) == c.pc = "concluding" /\ c.outcome = "permanent"

\* The runner of a row, when it executes, is level with it; once overruled it is
\* behind the row, or about to report a failure that the row does not admit.
Level(p, row, c) ==
  IF row.state = "Unknown" THEN c.sequence < row.sequence \/ Retiring(c)
  ELSE c.sequence = row.sequence

RunnersLevel == \A p \in Procs : Executing(p) => Level(p, attempt[Of(p)], proc[p])

\* RunnersLevel, and its next-state form, by process.
LEMMA LevelParts ==
  /\ RunnersLevel <=>
       \A p \in Procs : Executing(p) => Level(p, attempt[Of(p)], proc[p])
  /\ RunnersLevel' <=>
       \A p \in Procs : Executing(p)' => Level(p, attempt'[Of(p)], proc'[p])
  BY DEF RunnersLevel, Level, Retiring, Executing

\* The manager, the operator and the other runners leave an execution level
\* with its row, or move the row ahead of it.
LEMMA ForeignLevel ==
  ASSUME Safe, RowStory, RowsInOrder, RunnersLevel, NEW p \in Procs, Executing(p),
         Tick \/ \E t \in Tasks : SettleValidated(t)
  PROVE  Level(p, attempt'[Of(p)], proc[p])
<1> DEFINE a == Of(p)
           att == attempt[a]
<1>1. /\ a \in Attempts /\ att \in AttemptRow /\ proc[p] \in ProcRow
      /\ att.state \in {"Launching", "Running", "Unknown"}
  BY ProcTyped, ExecutionTask DEF Safe, AttemptTyped
<1>2. Level(p, att, proc[p])
  BY LevelParts
<1>3. CASE attempt'[a] = att
  BY <1>2, <1>3
<1>4. CASE SweptTo(a)
  <2>1. Lost(att).state = "Unknown" /\ Lost(att).sequence = att.sequence + 1
    BY <1>1 DEF Lost, AttemptRow
  <2>2. \A seen \in Seen(att) : ~SettlesNow(seen) /\ seen \in {att, Lost(att)}
    BY <1>1, <2>1 DEF Seen, SettlesNow
  <2>3. attempt'[a] \in {att, Lost(att)}
    BY <1>4, <2>2 DEF SweptTo
  <2>4. att.state # "Unknown" \/ attempt'[a] = att
    BY <1>4, <2>1, <2>2 DEF SweptTo, Seen
  <2>5. att.sequence \in Nat /\ proc[p].sequence \in Nat
    BY <1>1 DEF AttemptRow, ProcRow
  <2> QED
    BY <1>2, <2>1, <2>3, <2>4, <2>5 DEF Level
<1>5. CASE Admitted(a)
  BY <1>1, <1>5, AdmittedNew
<1>6. CASE JudgedTo(a)
  BY <1>1, <1>6 DEF JudgedTo, Validates
<1> QED
  BY <1>1, <1>3, <1>4, <1>5, <1>6, TickRows, VerdictRows DEF Safe

\* A claim starts level, an accepted report keeps level, and a runner that is
\* refused a report exits.
LEMMA OwnLevel ==
  ASSUME Safe, RunnersLevel, NEW p \in Procs,
         RunnerStep(p) \/ Heartbeat(p) \/ RunnerCrash(p), Executing(p)'
  PROVE  Level(p, attempt'[Of(p)], proc'[p])
<1> DEFINE att == attempt[Of(p)]
<1>1. /\ Of(p) \in Attempts /\ att \in AttemptRow /\ proc[p] \in ProcRow
      /\ proc \in [Procs -> ProcRow] /\ attempt \in [Attempts -> AttemptRow]
  BY ProcTyped DEF Safe, AttemptTyped, TypeOK
<1>2. ASSUME Exit(p) PROVE FALSE
  BY <1>1, <1>2 DEF Exit, Idle, Executing
<1>3. CASE Claim(p)
  <2>1. /\ attempt' = [attempt EXCEPT ![Of(p)] = ClaimedBy(att, p[3])]
        /\ proc' = [proc EXCEPT ![p] = Claimant(p)]
    BY <1>2, <1>3 DEF Claim
  <2>2. ClaimedBy(att, p[3]).state = "Launching" /\ ClaimedBy(att, p[3]).sequence = att.sequence + 1
    BY <1>1 DEF ClaimedBy, AttemptRow
  <2>3. Claimant(p).sequence = att.sequence + 1
    BY DEF Claimant, Idle
  <2> QED
    BY <1>1, <2>1, <2>2, <2>3 DEF Level
<1>4. ASSUME NEW state \in {"Running", "Succeeded", "Failed", "Cancelled", "Unknown"},
             NEW kind, NEW total, NEW next, Report(p, state, kind, total, next),
             next = "exited" \/ state = "Running"
      PROVE  Level(p, attempt'[Of(p)], proc'[p])
  <2>1. next # "exited" /\ state = "Running"
    BY <1>2, <1>4 DEF Report, Exit
  <2>2. /\ attempt' = [attempt EXCEPT ![Of(p)] = Observed(p, state, kind, total)]
        /\ proc' = [proc EXCEPT ![p] = Reported(proc[p], next)]
    BY <1>2, <1>4, <2>1 DEF Report
  <2>3. /\ Observed(p, state, kind, total).state = "Running"
        /\ Observed(p, state, kind, total).sequence = proc[p].sequence + 1
    BY <1>1, <2>1 DEF Observed, AttemptRow
  <2>4. Reported(proc[p], next).sequence = proc[p].sequence + 1
    BY <1>1 DEF Reported, ProcRow
  <2> QED
    BY <1>1, <2>2, <2>3, <2>4 DEF Level
<1>8. CASE Heartbeat(p) /\ RefusedInWarmup(p)
  <2>1. attempt' = attempt /\ Executing(p) /\ Retiring(proc'[p])
    BY <1>1, <1>8, RefusalCases DEF Safe, Retiring
  <2>2. Open(p[1]) /\ task[p[1]].current = p[2] /\ p[2] \in Numbers
    BY <2>1, ProcTyped, ExecutionTask, ExecutionParts
       DEF Safe, Owner, Open, Present, Terminal
  <2>3. CASE att.state = "Unknown"
    BY <2>1, <2>3 DEF Level
  <2>4. CASE att.state # "Unknown"
    <3>1. att.state \in {"Launching", "Running"}
      BY <2>1, <2>4, ExecutionTask DEF Safe
    <3>2. proc[p].sequence = att.sequence /\ att.sequence \in Nat
      BY <1>1, <2>1, <2>4, LevelParts DEF Level, AttemptRow
    <3>3. Accepted(p, "Running")
      BY <2>2, <3>1, <3>2 DEF Accepted, Moves
    <3> QED
      BY <1>8, <3>3 DEF RefusedInWarmup
  <2> QED
    BY <2>3, <2>4
<1>5. CASE Announce(p) \/ (Heartbeat(p) /\ ~RefusedInWarmup(p))
  BY <1>4, <1>5 DEF Announce, Heartbeat
<1>6. CASE Finish(p)
  <2>1. FinalState(proc[p].outcome) \in {"Succeeded", "Failed", "Cancelled", "Unknown"}
    BY DEF FinalState
  <2> QED
    BY <1>4, <1>6, <2>1 DEF Finish
<1>7. CASE \/ CheckpointStop(p) \/ Proceed(p) \/ StartWarmup(p) \/ StartRequest(p) \/ Answer(p)
           \/ RequestFails(p) \/ WorkFails(p) \/ Publish(p) \/ RunnerCrash(p)
  <2>1. attempt' = attempt
    BY <1>7 DEF CheckpointStop, Proceed, StartWarmup, StartRequest, Answer, RequestFails,
                WorkFails, Publish, RunnerCrash
  <2>2. ~RunnerCrash(p)
    BY <1>2 DEF RunnerCrash
  <2>3. Executing(p)
    BY <1>7, <2>2 DEF CheckpointStop, Proceed, StartWarmup, StartRequest, Answer,
                      RequestFails, WorkFails, Publish, Executing
  <2>4. proc'[p].sequence = proc[p].sequence
    <3>1. ASSUME NEW kind, Conclude(p, kind) PROVE proc'[p].sequence = proc[p].sequence
      BY <1>1, <3>1 DEF Conclude, ProcRow
    <3>2. CASE CheckpointStop(p) \/ WorkFails(p) \/ Publish(p)
      BY <3>1, <3>2 DEF CheckpointStop, WorkFails, Publish
    <3>3. CASE Proceed(p) \/ Answer(p)
      BY <1>1, <3>3 DEF Proceed, Answer, ProcRow
    <3>4. CASE StartRequest(p)
      BY <1>1, <3>1, <3>4 DEF StartRequest, ProcRow
    <3>6. CASE StartWarmup(p)
      BY <1>1, <3>1, <3>6 DEF StartWarmup, ProcRow
    <3>5. CASE RequestFails(p)
      <4>1. \A kind : Interrupted(proc[p], kind).sequence = proc[p].sequence
        BY <1>1 DEF Interrupted, ProcRow
      <4> QED
        BY <1>1, <3>5, <4>1 DEF RequestFails
    <3> QED
      BY <1>7, <2>2, <3>2, <3>3, <3>4, <3>5, <3>6
  <2>5. ~Retiring(proc[p])
    BY <1>7, <2>2 DEF CheckpointStop, Proceed, StartWarmup, StartRequest, Answer,
                      RequestFails, WorkFails, Publish, Retiring
  <2> QED
    BY <2>1, <2>3, <2>4, <2>5, LevelParts DEF Level
<1> QED
  BY <1>3, <1>5, <1>6, <1>7, <1>8 DEF RunnerStep

LEMMA NextLevel ==
  Safe /\ RowStory /\ RowsInOrder /\ RunnersLevel /\ [Next]_vars => RunnersLevel'
<1> SUFFICES ASSUME Safe, RowStory, RowsInOrder, RunnersLevel, [Next]_vars,
                    NEW p \in Procs, Executing(p)'
             PROVE  Level(p, attempt'[Of(p)], proc'[p])
  BY LevelParts
<1>1. Of(p) \in Attempts /\ TypeOK
  BY ProcTyped DEF Safe
<1>2. Executing(p) => Level(p, attempt[Of(p)], proc[p]) /\ Owner(p)
  BY LevelParts, ExecutionParts DEF Safe
<1>3. CASE UNCHANGED <<attempt, proc>>
  BY <1>2, <1>3 DEF Executing
<1>4. CASE \/ \E k \in Keys, t \in Tasks : Submit(k, t) \/ Cancel(k, t)
           \/ \E t \in Tasks : Prevalidate(t) \/ Recheck(t) \/ ValidationFault(t)
           \/ ManagerCrash \/ ClockTick
           \/ \E w \in Workers : Register(w)
           \/ \E b \in Attempts : ArtifactDamaged(b)
  BY <1>3, <1>4
     DEF Submit, Cancel, Prevalidate, Recheck, ValidationFault, ManagerCrash, ClockTick,
         Register, ArtifactDamaged
<1>5. ASSUME NEW w \in Workers, WorkerTick(w)
      PROVE  Level(p, attempt'[Of(p)], proc'[p])
  <2>1. PICK chosen \in SUBSET Procs :
          proc' = [q \in Procs |-> IF q \in chosen THEN Idle("started") ELSE proc[q]]
    BY <1>5 DEF WorkerTick
  <2>2. attempt' = attempt /\ proc'[p] = proc[p]
    BY <1>5, <2>1 DEF WorkerTick, Executing, Idle
  <2> QED
    BY <1>2, <2>2 DEF Executing
<1>6. CASE Tick \/ \E t \in Tasks : SettleValidated(t)
  <2>1. proc' = proc
    BY <1>6 DEF Tick, SettleValidated
  <2> QED
    BY <1>6, <2>1, ForeignLevel DEF Executing
<1>7. ASSUME NEW b \in Attempts, Resolve(b)
      PROVE  Level(p, attempt'[Of(p)], proc'[p])
  <2>1. proc' = proc /\ Executing(p)
    BY <1>7 DEF Resolve, Executing
  <2>2. Of(p) # b
    <3>1. p = <<p[1], p[2], p[3]>> /\ p[3] \in 1..MaxLaunch
      BY DEF Procs
    <3> QED
      BY <1>7, <2>1, <3>1 DEF Resolve, Of
  <2>3. attempt'[Of(p)] = attempt[Of(p)]
    BY <1>1, <1>7, <2>2 DEF Resolve, TypeOK
  <2> QED
    BY <1>2, <2>1, <2>3
<1>8. ASSUME NEW q \in Procs, RunnerStep(q) \/ Heartbeat(q) \/ RunnerCrash(q), q # p
      PROVE  Level(p, attempt'[Of(p)], proc'[p])
  <2>1. \E c : proc' = [proc EXCEPT ![q] = c]
    BY <1>8
       DEF RunnerStep, Claim, CheckpointStop, Proceed, Announce, StartWarmup, StartRequest,
           Answer,
           RequestFails, WorkFails, Publish, Finish, Heartbeat, RunnerCrash, Report, Exit,
           Conclude, RefusedInWarmup
  <2>2. proc'[p] = proc[p] /\ Executing(p)
    BY <1>1, <1>8, <2>1 DEF TypeOK, Executing
  <2>3. p = <<p[1], p[2], p[3]>> /\ q = <<q[1], q[2], q[3]>>
    BY DEF Procs
  <2>4. Executing(q) => Of(p) # Of(q)
    BY <1>2, <1>8, <2>2, <2>3, ExecutionParts DEF Safe, Owner, Of
  <2>5. attempt'[Of(p)] = attempt[Of(p)]
    <3>1. CASE Claim(q)
      BY <1>1, <1>2, <2>2, <3>1, ClaimRows DEF ClaimedTo, Owner
    <3>2. CASE Announce(q) \/ Heartbeat(q) \/ Finish(q)
      <4>1. Executing(q)
        BY <3>2 DEF Announce, Heartbeat, Finish, Executing
      <4> QED
        BY <1>1, <2>4, <3>2, <4>1, ReportRows

    <3>3. CASE \/ CheckpointStop(q) \/ Proceed(q) \/ StartWarmup(q) \/ StartRequest(q) \/ Answer(q)
               \/ RequestFails(q) \/ WorkFails(q) \/ Publish(q) \/ RunnerCrash(q)
      BY <3>3 DEF CheckpointStop, Proceed, StartWarmup, StartRequest, Answer, RequestFails,
                  WorkFails, Publish, RunnerCrash
    <3> QED
      BY <1>8, <3>1, <3>2, <3>3 DEF RunnerStep
  <2> QED
    BY <1>2, <2>2, <2>5
<1>9. CASE RunnerStep(p) \/ Heartbeat(p) \/ RunnerCrash(p)
  BY <1>9, OwnLevel
<1> QED
  BY <1>3, <1>4, <1>5, <1>6, <1>7, <1>8, <1>9 DEF Next, Validate, vars

----------------------------------------------------------------------------
\* The theorems about single rows

History == Safe /\ RowStory /\ RowsInOrder /\ RunnersLevel

LEMMA InitHistory == Init => History
<1> SUFFICES ASSUME Init PROVE History
  OBVIOUS
<1>1. Safe
  BY InitTyped, InitSafe DEF Safe
<1>2. \A a \in Attempts : attempt[a] = NoAttempt
  BY DEF Init
<1>3. RowStory
  BY <1>2 DEF RowStory, Storied, NoAttempt
<1>4. RowsInOrder
  BY <1>2 DEF RowsInOrder, NoAttempt, Attempts
<1>5. RunnersLevel
  BY DEF RunnersLevel, Executing, Init, Idle
<1> QED
  BY <1>1, <1>3, <1>4, <1>5 DEF History

LEMMA NextHistory == History /\ [Next]_vars => History'
  BY NextTyped, NextSlots, NextExecution, NextStory, NextOrder, NextLevel DEF History, Safe

\* What RunnersLevel says of reports: an overruled runner has none that counts.
LEMMA LevelUnheard == History => OverruledUnheard
<1> SUFFICES ASSUME History, NEW p \in Procs, Executing(p), attempt[Of(p)].state = "Unknown",
                    NEW state \in Reportable(p), Accepted(p, state)
             PROVE  FALSE
  BY DEF History, RunnersLevel, Level, OverruledUnheard
<1>1. proc[p] \in ProcRow /\ attempt[Of(p)] \in AttemptRow
  BY ProcTyped DEF History, Safe, AttemptTyped
<1>2. proc[p].sequence < attempt[Of(p)].sequence \/ Retiring(proc[p])
  BY DEF History, RunnersLevel, Level
<1>3. CASE proc[p].sequence < attempt[Of(p)].sequence
  BY <1>1, <1>3 DEF Accepted, ProcRow, AttemptRow
<1>4. CASE Retiring(proc[p])
  <2>1. state = "Failed"
    BY <1>4 DEF Retiring, Reportable, FinalState
  <2> QED
    BY <2>1 DEF Accepted, Moves
<1> QED
  BY <1>2, <1>3, <1>4

\* An overruled runner is never heard again and any other is level with its row,
\* at all times and for any number of runners, relaunches, lost identities and
\* refusals swallowed by a warm-up (observe, Controller.report, _warm_coddy).
THEOREM OverruledNeverHeard == Spec => []OverruledUnheard
<1>1. Init => History
  BY InitHistory
<1>2. History /\ [Next]_vars => History'
  BY NextHistory
<1>3. History => OverruledUnheard
  BY LevelUnheard
<1> QED
  BY <1>1, <1>2, <1>3, PTL DEF Spec

\* No launch is replayed: once a runner has claimed an attempt, no other one
\* ever claims it, however often workers restart and launch again (run_attempt).
THEOREM NeverClaimedAgain == Spec => ClaimedOnce
<1> DEFINE Kept == \A a \in Attempts : attempt[a].runner # 0 =>
                     attempt'[a].runner = attempt[a].runner
<1>1. ASSUME History, [Next]_vars, NEW a \in Attempts, attempt[a].runner # 0
      PROVE  attempt'[a].runner = attempt[a].runner
  <2> DEFINE att == attempt[a]
             new == attempt'[a]
  <2>1. TypeOK /\ RowsInOrder /\ att \in AttemptRow /\ Storied(att)
    BY <1>1 DEF History, Safe, TypeOK, RowStory
  <2>2. att.state \notin {"None", "Queued"}
    BY <1>1, <2>1 DEF Storied
  <2>3. CASE new = att
    BY <2>3
  <2>4. CASE Admitted(a) \/ ClaimedTo(a)
    BY <2>1, <2>2, <2>4, AdmittedNew DEF ClaimedTo
  <2>5. CASE SweptTo(a)
    <3>1. PICK seen \in Seen(att) :
            new = IF SettlesNow(seen) THEN SettledAttempt(seen) ELSE seen
      BY <2>5 DEF SweptTo
    <3>2. seen \in AttemptRow /\ Storied(seen) /\ seen.runner = att.runner
      BY <2>1, SeenStory
    <3> QED
      BY <3>1, <3>2, SettledStory
  <2>6. CASE JudgedTo(a)
    BY <2>1, <2>6, SettledStory DEF JudgedTo
  <2>7. CASE ResolvedTo(a)
    BY <2>1, <2>7 DEF ResolvedTo, Resolved, AttemptRow
  <2>8. CASE ReportedTo(a)
    BY <2>1, <2>8, ReportStory DEF ReportedTo
  <2> QED
    BY <1>1, <2>1, <2>3, <2>4, <2>5, <2>6, <2>7, <2>8, RowCases
<1>2. History /\ [Next]_vars => [Kept]_vars
  BY <1>1
<1> QED
  BY <1>2, InitHistory, NextHistory, PTL DEF Spec, ClaimedOnce

\* An attempt of unknown outcome stands until the operator resolves it, and
\* holds its slot until then: no report of the runner that was overruled, no
\* retry, cancel or deadline ends it (observe, tick, resolve).
THEOREM UnknownStands == Spec => UnknownAwaitsOperator
<1> DEFINE Waits == \A a \in Attempts : attempt[a].state = "Unknown" =>
                      \/ attempt'[a] = attempt[a]
                      \/ /\ attempt'[a].state = "Failed" /\ attempt'[a].kind = "permanent"
                         /\ attempt'[a].reserved
<1>1. ASSUME History, [Next]_vars, NEW a \in Attempts, attempt[a].state = "Unknown",
             attempt'[a] # attempt[a]
      PROVE  /\ attempt'[a].state = "Failed" /\ attempt'[a].kind = "permanent"
             /\ attempt'[a].reserved
  <2>1. TypeOK /\ RowsInOrder /\ attempt[a] \in AttemptRow /\ attempt[a].reserved
    BY <1>1, ExecutionParts DEF History, Safe, TypeOK, LiveHeld, Live
  <2>2. CASE Admitted(a) \/ ClaimedTo(a) \/ JudgedTo(a)
    BY <1>1, <2>1, <2>2, AdmittedNew DEF ClaimedTo, JudgedTo, Validates
  <2>3. CASE SweptTo(a)
    BY <1>1, <2>3 DEF SweptTo, Seen, SettlesNow
  <2>4. CASE ResolvedTo(a)
    BY <2>1, <2>4 DEF ResolvedTo, Resolved, AttemptRow
  <2>5. CASE ReportedTo(a)
    <3>1. PICK p \in Procs, state \in {"Running", "Succeeded", "Failed", "Cancelled",
    "Unknown"} :
            a = Of(p) /\ Executing(p) /\ Accepted(p, state) /\ state \in Reportable(p)
      BY <2>5 DEF ReportedTo
    <3> QED
      BY <1>1, <3>1, LevelUnheard DEF OverruledUnheard
  <2> QED
    BY <1>1, <2>1, <2>2, <2>3, <2>4, <2>5, RowCases
<1>2. History /\ [Next]_vars => [Waits]_vars
  BY <1>1
<1> QED
  BY <1>2, InitHistory, NextHistory, PTL DEF Spec, UnknownAwaitsOperator

\* What a step does to the row of a task that has ended: nothing.
LEMMA TerminalTask ==
  ASSUME TypeOK, [Next]_vars, NEW t \in Tasks, task[t].status \in Terminal
  PROVE  task'[t] = task[t]
<1>1. ~Open(t) /\ Present(t) /\ task \in [Tasks -> TaskRow]
  BY DEF Open, Present, Terminal, TypeOK
<1>2. CASE UNCHANGED task
  BY <1>2
<1>3. ASSUME NEW k \in Keys, NEW u \in Tasks, Submit(k, u) PROVE task'[t] = task[t]
  BY <1>1, <1>3 DEF Submit
<1>4. ASSUME NEW k \in Keys, NEW u \in Tasks, Cancel(k, u) PROVE task'[t] = task[t]
  BY <1>1, <1>4 DEF Cancel, CancelledRow
<1>5. ASSUME Tick PROVE task'[t] = task[t]
  <2>1. PICK unseen \in SUBSET Unreadable, place \in [Tasks -> Workers \cup {0}] :
          Admit([u \in Tasks |-> SweptTask(u, unseen)], SweptAttempts(unseen), place)
    BY <1>5 DEF Tick
  <2>2. SweptTask(t, unseen) = task[t]
    BY <1>1 DEF SweptTask
  <2>3. place[t] = 0
    BY <2>1, <2>2 DEF Admit, IsSchedule, Placeable, Ready, Terminal
  <2> QED
    BY <2>1, <2>2, <2>3 DEF Admit
<1>6. ASSUME NEW u \in Tasks, SettleValidated(u) PROVE task'[t] = task[t]
  BY <1>1, <1>6 DEF SettleValidated, VerdictApplies
<1>7. CASE \/ \E u \in Tasks : Prevalidate(u) \/ Recheck(u) \/ ValidationFault(u)
           \/ ManagerCrash \/ ClockTick
           \/ \E w \in Workers : Register(w) \/ WorkerTick(w)
           \/ \E b \in Attempts : Resolve(b) \/ ArtifactDamaged(b)
           \/ \E p \in Procs : RunnerStep(p) \/ Heartbeat(p) \/ RunnerCrash(p)
  <2>1. UNCHANGED task
    BY <1>7
       DEF Prevalidate, Recheck, ValidationFault, ManagerCrash, ClockTick, Register,
           WorkerTick, Resolve, ArtifactDamaged, RunnerStep, Claim, CheckpointStop, Proceed,
           Announce, StartWarmup, StartRequest, Answer, RequestFails, WorkFails, Publish,
           Finish,
           Heartbeat, RunnerCrash, RunnerOnly
  <2> QED
    BY <2>1
<1> QED
  BY <1>2, <1>3, <1>4, <1>5, <1>6, <1>7 DEF Next, Validate, vars

\* The attempts of a task that has ended hold no slot, so none of them is live.
LEMMA TerminalRows ==
  ASSUME History, [Next]_vars, NEW t \in Tasks, task[t].status \in Terminal,
         NEW n \in Numbers
  PROVE  attempt'[<<t, n>>] = attempt[<<t, n>>]
<1> DEFINE a == <<t, n>>
<1>1. /\ a \in Attempts /\ a[1] = t /\ TypeOK /\ RowsInOrder /\ ~Open(t)
      /\ task[t].status \notin {"Scheduled", "Running"}
  BY DEF Attempts, History, Safe, Open, Terminal
<1>2. ~attempt[a].reserved
  BY <1>1 DEF History, Safe, SlotsMatchTasks
<1>3. attempt[a].state \notin Live
  BY <1>1, <1>2, ExecutionParts DEF History, Safe, LiveHeld
<1>4. ~(Admitted(a) \/ SweptTo(a) \/ JudgedTo(a))
  BY <1>1 DEF Admitted, SweptTo, JudgedTo
<1>5. ~(ResolvedTo(a) \/ ClaimedTo(a))
  BY <1>3 DEF ResolvedTo, ClaimedTo, Live
<1>6. ~ReportedTo(a)
  <2>1. ASSUME NEW p \in Procs, a = Of(p), NEW state, Accepted(p, state) PROVE FALSE
    BY <1>1, <2>1 DEF Accepted, Of
  <2> QED
    BY <2>1 DEF ReportedTo
<1> QED
  BY <1>1, <1>4, <1>5, <1>6, RowCases

\* The end of a task is final, for it and for all its attempts: neither a late
\* runner nor a late cancel, a repeated tick or a verdict still under way, nor
\* the operator, changes anything about it (observe, cancel, tick, settle).
THEOREM TerminalStays == Spec => TerminalFrozen
<1> DEFINE Frozen == \A t \in Tasks : task[t].status \in Terminal =>
                       /\ task'[t] = task[t]
                       /\ \A n \in Numbers : attempt'[<<t, n>>] = attempt[<<t, n>>]
<1>1. History => TypeOK
  BY DEF History, Safe
<1>2. History /\ [Next]_vars => [Frozen]_vars
  BY <1>1, TerminalTask, TerminalRows
<1> QED
  BY <1>2, InitHistory, NextHistory, PTL DEF Spec, TerminalFrozen
----------------------------------------------------------------------------
\* The steps of one task row

Holds(row) == row.status \in {"Scheduled", "Running"}

\* a failure that the policy of the task allows to run again
Replays(t, kind) == SpecOf[t].replaySafe /\ kind \in SpecOf[t].on

\* settle ends the task, as its intent says
EndedAs(intent, kind, new) ==
  /\ new.status \in Terminal /\ new.intent = intent
  /\ new.status = "Cancelled" => intent # "Run"
  /\ new.status = "Succeeded" => intent = "Run" /\ kind = "none"

\* settle sends it back to wait for another attempt
SentBack(t, kind, new) ==
  /\ new.status = "Pending" /\ new.current = 0 /\ new.intent = "Run"
  /\ \/ kind = "not_started"
     \/ Replays(t, kind) /\ Executions(t) < SpecOf[t].maxAttempts

LEMMA SettledCases ==
  ASSUME NEW t \in Tasks, NEW row, TaskTyped(row), NEW att, AttemptTyped(att), NEW kind
  PROVE  LET new == Settled(t, row, att, kind) IN
         /\ new.deadline = row.deadline
         /\ \/ EndedAs(row.intent, kind, new) /\ new.current = row.current
            \/ SentBack(t, kind, new) /\ row.intent = "Run"
<1> DEFINE paid == Charged(row, att)
           new == Settled(t, row, att, kind)
<1>1. TaskTyped(paid) /\ paid.current = row.current
  BY ChargedTyped
<1>2. paid.deadline = row.deadline /\ paid.intent = row.intent
  BY DEF Charged, TaskTyped, TaskRow
<1>3. ASSUME NEW s
      PROVE  LET end == [paid EXCEPT !.status = s] IN
             /\ end.status = s /\ end.deadline = row.deadline
             /\ end.intent = row.intent /\ end.current = row.current
  BY <1>1, <1>2 DEF TaskTyped, TaskRow
<1>4. ASSUME NEW at
      PROVE  LET back == Requeued(paid, at) IN
             /\ back.status = "Pending" /\ back.current = 0
             /\ back.deadline = row.deadline /\ back.intent = row.intent
  BY <1>1, <1>2 DEF TaskTyped, TaskRow, Requeued
<1>5. /\ Outcome(row.intent) \in Terminal \ {"Succeeded"}
      /\ row.intent \in Intents
  BY DEF Outcome, Terminal, TaskTyped, TaskRow
<1> HIDE DEF paid
<1>6. CASE row.intent # "Run"
  <2>1. Settled(t, row, att, kind) = [paid EXCEPT !.status = Outcome(row.intent)]
    BY <1>6 DEF Settled, paid
  <2> QED
    BY <2>1, <1>3, <1>5, <1>6 DEF EndedAs
<1>7. CASE row.intent = "Run" /\ kind = "not_started"
  <2>1. Settled(t, row, att, kind) = Requeued(paid, now)
    BY <1>7 DEF Settled, paid
  <2> QED
    BY <2>1, <1>4, <1>7 DEF SentBack
<1>8. CASE row.intent = "Run" /\ kind = "none"
  <2>1. Settled(t, row, att, kind) = [paid EXCEPT !.status = "Succeeded"]
    BY <1>8 DEF Settled, paid
  <2> QED
    BY <2>1, <1>3, <1>8 DEF EndedAs, Terminal
<1>9. CASE row.intent = "Run" /\ kind \notin {"none", "not_started"}
  <2>1. Settled(t, row, att, kind) =
          IF Retryable(t, kind, paid)
          THEN Requeued(paid, now + Delay(t, Executions(t)))
          ELSE [paid EXCEPT !.status = "Failed"]
    BY <1>9 DEF Settled, paid
  <2>2. Retryable(t, kind, paid) => Replays(t, kind) /\ Executions(t) < SpecOf[t].maxAttempts
    BY DEF Retryable, Replays
  <2>3. CASE ~Retryable(t, kind, paid)
    <3>1. /\ new.status = "Failed" /\ new.deadline = row.deadline
          /\ new.intent = row.intent /\ new.current = row.current
      BY <2>1, <2>3, <1>3
    <3> QED
      BY <3>1 DEF EndedAs, Terminal
  <2>4. CASE Retryable(t, kind, paid)
    <3>1. /\ new.status = "Pending" /\ new.current = 0
          /\ new.deadline = row.deadline /\ new.intent = row.intent
      BY <2>1, <2>4, <1>4
    <3> QED
      BY <2>2, <2>4, <3>1, <1>9 DEF SentBack
  <2> QED
    BY <2>3, <2>4
<1> QED
  BY <1>6, <1>7, <1>8, <1>9

\* The sweep leaves a task alone that is not open or waits, ends one that waits
\* and was asked to stop, and settles or keeps one that holds a slot.
LEMMA SweptCases ==
  ASSUME TypeOK, RowStory, NEW t \in Tasks, NEW unseen
  PROVE  LET new  == SweptTask(t, unseen)
             seen == Inspected(t, unseen)
         IN
         /\ new.deadline = task[t].deadline
         /\ \/ ~Open(t) /\ new = task[t]
            \/ /\ task[t].status = "Pending" /\ new.status = "Pending"
               /\ task[t].intent = "Run" /\ new.intent = "Run" /\ new.current = task[t].current
            \/ /\ task[t].status = "Pending"
               /\ EndedAs(SweptIntent(t), "stopped", new) /\ new.current = task[t].current
            \/ /\ Holds(task[t]) /\ Holds(new)
               /\ new.intent = SweptIntent(t) /\ new.current = task[t].current
            \/ /\ Holds(task[t]) /\ HasCurrent(t) /\ SettlesNow(seen) /\ seen.kind # "none"
               /\ \/ /\ EndedAs(SweptIntent(t), seen.kind, new)
                     /\ new.current = task[t].current
                  \/ SentBack(t, seen.kind, new) /\ SweptIntent(t) = "Run"
<1> DEFINE row == [task[t] EXCEPT !.intent = SweptIntent(t)]
           seen == Inspected(t, unseen)
           new == SweptTask(t, unseen)
<1>1. TaskTyped(task[t]) /\ SweptIntent(t) \in Intents
  BY DEF TypeOK, TaskTyped, SweptIntent, TaskRow, Intents
<1>2. /\ TaskTyped(row) /\ row.deadline = task[t].deadline /\ row.status = task[t].status
      /\ row.intent = SweptIntent(t) /\ row.current = task[t].current
      /\ \A s : LET end == [row EXCEPT !.status = s] IN
            /\ end.status = s /\ end.deadline = task[t].deadline
            /\ end.intent = row.intent /\ end.current = row.current
  BY <1>1 DEF TaskTyped, TaskRow
<1>3. /\ Outcome(row.intent) \in Terminal \ {"Succeeded"}
      /\ row.intent = "Run" => task[t].intent = "Run"
  BY <1>2 DEF Outcome, Terminal, SweptIntent
<1>4. Open(t) => Holds(task[t]) \/ task[t].status = "Pending"
  BY <1>1 DEF Open, Present, Holds, Terminal, TaskTyped, TaskRow
<1>5. ASSUME HasCurrent(t), SettlesNow(seen) PROVE AttemptTyped(seen) /\ seen.kind # "none"
  <2>1. attempt[Current(t)] \in AttemptRow /\ Storied(attempt[Current(t)])
    BY <1>5, CurrentTyped DEF AttemptTyped, RowStory
  <2>2. seen \in Seen(attempt[Current(t)])
    BY InspectedCases DEF Seen
  <2>3. Storied(seen)
    BY <2>1, <2>2, SeenStory
  <2> QED
    BY <1>5, <2>3, InspectedTyped DEF Storied, SettlesNow
<1> HIDE DEF row, seen
<1>6. new = IF ~Open(t) THEN task[t]
        ELSE IF row.status = "Pending"
          THEN IF row.intent = "Run" THEN row ELSE [row EXCEPT !.status = Outcome(row.intent)]
        ELSE IF ~HasCurrent(t) THEN row
        ELSE IF SettlesNow(seen) THEN Settled(t, row, seen, seen.kind)
        ELSE IF seen.state = "Running" THEN [row EXCEPT !.status = "Running"] ELSE row
  BY DEF SweptTask, row, seen
<1> HIDE DEF new
<1>7. CASE ~Open(t)
  BY <1>6, <1>7 DEF new, seen
<1>8. CASE Open(t) /\ task[t].status = "Pending"
  <2>1. new \in {row, [row EXCEPT !.status = Outcome(row.intent)]} /\ (new = row <=> row.intent = "Run")
    BY <1>2, <1>3, <1>6, <1>8 DEF Terminal
  <2>2. CASE row.intent = "Run"
    BY <2>1, <2>2, <1>2, <1>3, <1>8 DEF new
  <2>3. CASE row.intent # "Run"
    <3>1. new = [row EXCEPT !.status = Outcome(row.intent)]
      BY <2>1, <2>3
    <3>2. /\ EndedAs(SweptIntent(t), "stopped", new)
          /\ new.deadline = task[t].deadline /\ new.current = task[t].current
      BY <3>1, <2>3, <1>2, <1>3 DEF EndedAs
    <3> QED
      BY <3>2, <1>8 DEF new
  <2> QED
    BY <2>2, <2>3
<1>9. CASE Open(t) /\ task[t].status # "Pending" /\ ~(HasCurrent(t) /\ SettlesNow(seen))
  <2>1. new \in {row, [row EXCEPT !.status = "Running"]}
    BY <1>2, <1>6, <1>9
  <2>2. Holds(task[t]) /\ row.status = task[t].status
    BY <1>2, <1>4, <1>9
  <2>3. row \in TaskRow
    BY <1>2 DEF TaskTyped
  <2>4. /\ new.status \in {"Running", row.status} /\ new.intent = row.intent
        /\ new.current = row.current /\ new.deadline = row.deadline
    BY <2>1, <2>3 DEF TaskRow
  <2>5. Holds(new) /\ new.intent = SweptIntent(t) /\ new.current = task[t].current
        /\ new.deadline = task[t].deadline
    BY <2>2, <2>3, <2>4, <1>2 DEF Holds
  <2> QED
    BY <2>2, <2>5 DEF new
<1>10. CASE Open(t) /\ task[t].status # "Pending" /\ HasCurrent(t) /\ SettlesNow(seen)
  <2>1. new = Settled(t, row, seen, seen.kind)
    BY <1>2, <1>6, <1>10
  <2>2. /\ new.deadline = row.deadline
        /\ \/ EndedAs(row.intent, seen.kind, new) /\ new.current = row.current
           \/ SentBack(t, seen.kind, new) /\ row.intent = "Run"
    BY <2>1, <1>2, <1>5, <1>10, SettledCases
  <2> QED
    BY <2>2, <1>2, <1>4, <1>5, <1>10 DEF new, seen
<1> QED
  BY <1>7, <1>8, <1>9, <1>10

----------------------------------------------------------------------------
\* How a task succeeds

\* A success that was reported is not taken back, and keeps its time.
LEMMA SuccessStays ==
  ASSUME History, [Next]_vars, NEW a \in Attempts, attempt[a].state = "Succeeded"
  PROVE  attempt'[a].state = "Succeeded" /\ attempt'[a].finished = attempt[a].finished
<1> DEFINE att == attempt[a]
<1>1. TypeOK /\ RowsInOrder /\ att \in AttemptRow /\ Storied(att)
  BY DEF History, Safe, TypeOK, RowStory
<1>2. CASE Admitted(a) \/ ResolvedTo(a) \/ ClaimedTo(a)
  BY <1>1, <1>2, AdmittedNew DEF ResolvedTo, ClaimedTo
<1>3. CASE SweptTo(a)
  BY <1>3 DEF SweptTo, Seen, SettlesNow
<1>4. CASE JudgedTo(a)
  BY <1>1, <1>4, SettledStory DEF JudgedTo
<1>5. CASE ReportedTo(a)
  BY <1>1, <1>5, ReportStory DEF ReportedTo
<1> QED
  BY <1>1, <1>2, <1>3, <1>4, <1>5, RowCases

\* A task that was not submitted is not in the table.
LEMMA AbsentTask ==
  ASSUME TypeOK, [Next]_vars, NEW t \in Tasks, ~Present(t)
  PROVE  task'[t].status \in {"Absent", "Pending"}
<1>1. ~Open(t) /\ task \in [Tasks -> TaskRow] /\ task[t].status = "Absent"
  BY DEF Open, Present, TypeOK
<1>2. CASE task'[t] = task[t]
  BY <1>1, <1>2
<1>3. ASSUME NEW k \in Keys, NEW u \in Tasks, Submit(k, u)
      PROVE  task'[t].status \in {"Absent", "Pending"}
  BY <1>1, <1>3 DEF Submit, NoTask
<1>4. ASSUME NEW k \in Keys, NEW u \in Tasks, Cancel(k, u) PROVE task'[t] = task[t]
  BY <1>1, <1>4 DEF Cancel, Present
<1>5. ASSUME Tick PROVE task'[t] = task[t]
  <2>1. PICK unseen \in SUBSET Unreadable, place \in [Tasks -> Workers \cup {0}] :
          Admit([u \in Tasks |-> SweptTask(u, unseen)], SweptAttempts(unseen), place)
    BY <1>5 DEF Tick
  <2>2. SweptTask(t, unseen) = task[t]
    BY <1>1 DEF SweptTask
  <2>3. place[t] = 0
    BY <1>1, <2>1, <2>2 DEF Admit, IsSchedule, Placeable, Ready
  <2> QED
    BY <2>1, <2>2, <2>3 DEF Admit
<1>6. ASSUME NEW u \in Tasks, SettleValidated(u) PROVE task'[t] = task[t]
  BY <1>1, <1>6 DEF SettleValidated, VerdictApplies
<1>7. CASE \/ UNCHANGED vars
           \/ \E u \in Tasks : Prevalidate(u) \/ Recheck(u) \/ ValidationFault(u)
           \/ ManagerCrash \/ ClockTick
           \/ \E w \in Workers : Register(w) \/ WorkerTick(w)
           \/ \E b \in Attempts : Resolve(b) \/ ArtifactDamaged(b)
           \/ \E p \in Procs : RunnerStep(p) \/ Heartbeat(p) \/ RunnerCrash(p)
  <2>1. UNCHANGED task
    BY <1>7
       DEF Prevalidate, Recheck, ValidationFault, ManagerCrash, ClockTick, Register,
           WorkerTick, Resolve, ArtifactDamaged, RunnerStep, Claim, CheckpointStop, Proceed,
           Announce, StartWarmup, StartRequest, Answer, RequestFails, WorkFails, Publish,
           Finish,
           Heartbeat, RunnerCrash, RunnerOnly, vars
  <2> QED
    BY <2>1, <1>2
<1> QED
  BY <1>2, <1>3, <1>4, <1>5, <1>6, <1>7 DEF Next, Validate

\* A task keeps its deadline, and succeeds by a verdict on its result only.
LEMMA SuccessByVerdict ==
  ASSUME TypeOK, RowStory, [Next]_vars, NEW t \in Tasks, Present(t)
  PROVE  /\ Present(t)' /\ task'[t].deadline = task[t].deadline
         /\ task[t].status # "Succeeded" /\ task'[t].status = "Succeeded" => SettleValidated(t)
<1>1. /\ task \in [Tasks -> TaskRow] /\ task' \in [Tasks -> TaskRow]
      /\ TaskTyped(task[t]) /\ task[t].status # "Absent"
  BY NextTyped DEF TypeOK, Present, TaskTyped
<1>2. CASE task'[t] = task[t]
  BY <1>1, <1>2 DEF Present
<1>3. ASSUME NEW k \in Keys, NEW u \in Tasks, Submit(k, u) PROVE task'[t] = task[t]
  BY <1>1, <1>3 DEF Submit, Present
<1>4. ASSUME NEW k \in Keys, NEW u \in Tasks, Cancel(k, u), task'[t] # task[t]
      PROVE  /\ task'[t].deadline = task[t].deadline
             /\ task'[t].status \notin {"Absent", "Succeeded"}
  <2>1. task'[t] = CancelledRow(task[t]) /\ t = u
    BY <1>1, <1>4 DEF Cancel
  <2> QED
    BY <1>1, <1>4, <2>1 DEF CancelledRow, TaskRow, Terminal
<1>5. ASSUME Tick
      PROVE  /\ task'[t].deadline = task[t].deadline /\ task'[t].status # "Absent"
             /\ task[t].status # "Succeeded" => task'[t].status # "Succeeded"
  <2>1. PICK unseen \in SUBSET Unreadable, place \in [Tasks -> Workers \cup {0}] :
          Admit([u \in Tasks |-> SweptTask(u, unseen)], SweptAttempts(unseen), place)
    BY <1>5 DEF Tick
  <2> DEFINE row == SweptTask(t, unseen)
  <2>2. /\ row.deadline = task[t].deadline /\ TaskTyped(row) /\ row.status # "Absent"
        /\ task[t].status # "Succeeded" => row.status # "Succeeded"
    <3>1. TaskTyped(row)
      BY SweptTaskTyped
    <3> HIDE DEF row
    <3> QED
      BY <1>1, <3>1, SweptCases DEF row, EndedAs, SentBack, Holds, Terminal
  <2>3. CASE place[t] = 0
    BY <2>1, <2>2, <2>3 DEF Admit
  <2>4. CASE place[t] # 0
    <3>1. task'[t] = [row EXCEPT !.status = "Scheduled", !.current = NextNumber(t)]
      BY <2>1, <2>4 DEF Admit
    <3> HIDE DEF row
    <3> QED
      BY <3>1, <2>2 DEF TaskTyped, TaskRow
  <2> QED
    BY <2>3, <2>4
<1>6. ASSUME NEW u \in Tasks, SettleValidated(u), task'[t] # task[t]
      PROVE  /\ u = t /\ task'[t].deadline = task[t].deadline /\ task'[t].status # "Absent"
  <2> DEFINE kind == IF check[t].stage = "confirmed" THEN "none" ELSE "validation"
             new == Settled(t, task[t], attempt[Checked(t)], kind)
  <2>1. u = t /\ VerdictApplies(t) /\ task'[t] = new
    BY <1>1, <1>6 DEF SettleValidated, VerdictRow
  <2>2. AttemptTyped(attempt[Checked(t)])
    BY <1>6, <2>1, CheckedTyped DEF SettleValidated
  <2>3. new.deadline = task[t].deadline /\ new.status # "Absent"
    <3> HIDE DEF kind
    <3> QED
      BY <1>1, <2>2, SettledCases DEF EndedAs, SentBack, Terminal
  <2> QED
    BY <2>1, <2>3
<1>7. CASE \/ UNCHANGED vars
           \/ \E u \in Tasks : Prevalidate(u) \/ Recheck(u) \/ ValidationFault(u)
           \/ ManagerCrash \/ ClockTick
           \/ \E w \in Workers : Register(w) \/ WorkerTick(w)
           \/ \E b \in Attempts : Resolve(b) \/ ArtifactDamaged(b)
           \/ \E p \in Procs : RunnerStep(p) \/ Heartbeat(p) \/ RunnerCrash(p)
  <2>1. UNCHANGED task
    BY <1>7
       DEF Prevalidate, Recheck, ValidationFault, ManagerCrash, ClockTick, Register,
           WorkerTick, Resolve, ArtifactDamaged, RunnerStep, Claim, CheckpointStop, Proceed,
           Announce, StartWarmup, StartRequest, Answer, RequestFails, WorkFails, Publish,
           Finish,
           Heartbeat, RunnerCrash, RunnerOnly, vars
  <2> QED
    BY <2>1, <1>2
<1> QED
  BY <1>1, <1>2, <1>3, <1>4, <1>5, <1>6, <1>7 DEF Next, Validate, Present

\* A verdict under the intent Run is about a success reported by the deadline.
Vouched ==
  \A t \in Tasks : check[t].stage # "none" /\ check[t].intent = "Run" =>
    /\ Present(t)
    /\ attempt[Checked(t)].state = "Succeeded"
    /\ attempt[Checked(t)].finished <= task[t].deadline

\* What becomes of the list of validations of a task in one step.
LEMMA CheckCases ==
  ASSUME TypeOK, [Next]_vars, NEW t \in Tasks
  PROVE  \/ check'[t] = NoCheck
         \/ /\ check[t].stage # "none"
            /\ check'[t].number = check[t].number /\ check'[t].intent = check[t].intent
         \/ check'[t] = check[t]
         \/ /\ Tick /\ Swept(t) /\ Validates(attempt[Current(t)])
            /\ check'[t].number = task[t].current
            /\ check'[t].intent = "Run" => SweptIntent(t) = "Run"
<1>1. check \in [Tasks -> CheckRow]
  BY DEF TypeOK
<1>2. CASE UNCHANGED check
  BY <1>2
<1>3. CASE ManagerCrash
  BY <1>3 DEF ManagerCrash
<1>4. CASE Tick
  BY <1>4 DEF Tick
<1>5. ASSUME NEW u \in Tasks, SettleValidated(u) \/ ValidationFault(u)
      PROVE  check'[t] \in {NoCheck, check[t]}
  BY <1>1, <1>5 DEF SettleValidated, ValidationFault
<1>6. ASSUME NEW u \in Tasks, Prevalidate(u) \/ Recheck(u)
      PROVE  \/ check'[t] = check[t]
             \/ /\ check[t].stage # "none"
                /\ check'[t].number = check[t].number /\ check'[t].intent = check[t].intent
  <2>1. PICK stage : check' = [check EXCEPT ![u].stage = stage] /\ check[u].stage # "none"
    BY <1>6 DEF Prevalidate, Recheck
  <2>2. check[u].stage # "none"
    BY <2>1
  <2>3. check[u] \in [stage : {"listed", "valid", "confirmed", "rejected"},
                      number : Numbers, intent : {"Run", "Cancel"}]
    BY <2>2, CheckedTyped
  <2>4. CASE t # u
    BY <1>1, <2>1, <2>4
  <2>5. CASE t = u
    BY <1>1, <2>1, <2>3, <2>5
  <2> QED
    BY <2>4, <2>5
<1>7. CASE \/ \E k \in Keys, u \in Tasks : Submit(k, u) \/ Cancel(k, u)
           \/ ClockTick
           \/ \E w \in Workers : Register(w) \/ WorkerTick(w)
           \/ \E b \in Attempts : Resolve(b) \/ ArtifactDamaged(b)
           \/ \E p \in Procs : RunnerStep(p) \/ Heartbeat(p) \/ RunnerCrash(p)
  <2>1. UNCHANGED check
    BY <1>7
       DEF Submit, Cancel, ClockTick, Register,
           WorkerTick, Resolve, ArtifactDamaged, RunnerStep, Claim, CheckpointStop, Proceed,
           Announce, StartWarmup, StartRequest, Answer, RequestFails, WorkFails, Publish,
           Finish,
           Heartbeat, RunnerCrash, RunnerOnly
  <2> QED
    BY <2>1
<1> QED
  BY <1>2, <1>3, <1>4, <1>5, <1>6, <1>7 DEF Next, Validate, vars

LEMMA NextVouched == History /\ Vouched /\ [Next]_vars => Vouched'
<1> SUFFICES ASSUME History, Vouched, [Next]_vars, NEW t \in Tasks,
                    check'[t].stage # "none", check'[t].intent = "Run"
             PROVE  /\ Present(t)'
                    /\ attempt'[Checked(t)'].state = "Succeeded"
                    /\ attempt'[Checked(t)'].finished <= task'[t].deadline
  BY DEF Vouched
<1>1. TypeOK /\ RowStory
  BY DEF History, Safe
<1>2. check'[t] # NoCheck
  BY DEF NoCheck
<1>3. CASE /\ check[t].stage # "none"
           /\ check'[t].number = check[t].number /\ check'[t].intent = check[t].intent
  <2>1. /\ Checked(t)' = Checked(t) /\ Checked(t) \in Attempts /\ Present(t)
        /\ attempt[Checked(t)].state = "Succeeded"
        /\ attempt[Checked(t)].finished <= task[t].deadline
    BY <1>1, <1>3, CheckedTyped DEF Vouched, Checked
  <2> QED
    BY <1>1, <2>1, SuccessByVerdict, SuccessStays
<1>4. CASE /\ Tick /\ Swept(t) /\ Validates(attempt[Current(t)])
           /\ check'[t].number = task[t].current
           /\ check'[t].intent = "Run" => SweptIntent(t) = "Run"
  <2>1. /\ Checked(t)' = Current(t) /\ Current(t) \in Attempts /\ Present(t)
        /\ attempt[Current(t)] \in AttemptRow /\ Storied(attempt[Current(t)])
        /\ attempt[Current(t)].state = "Succeeded"
    BY <1>1, <1>4, CurrentTyped
       DEF Checked, Current, Swept, Open, Validates, AttemptTyped, RowStory
  <2>2. task[t].deadline \in Nat /\ now \in Nat
    BY <1>1 DEF TypeOK, TaskRow
  <2>3. attempt[Current(t)].finished <= task[t].deadline
    <3>1. now < task[t].deadline \/ SucceededInTime(t)
      BY <1>4, <2>2 DEF SweptIntent
    <3> QED
      BY <2>1, <2>2, <3>1 DEF SucceededInTime, Storied, AttemptRow
  <2> QED
    BY <1>1, <2>1, <2>3, SuccessByVerdict, SuccessStays
<1>5. CASE check'[t] = check[t]
  BY <1>3, <1>5
<1> QED
  BY <1>1, <1>2, <1>3, <1>4, <1>5, CheckCases

\* The task that succeeds has a current attempt to show for it.
Shown == AcceptedOutcome /\ \A t \in Tasks : task[t].status = "Succeeded" => HasCurrent(t)

\* A verdict that lets its task succeed leaves it as AcceptedOutcome says.
LEMMA VerdictAccepts ==
  ASSUME History, Vouched, NEW t \in Tasks, SettleValidated(t),
         task[t].status # "Succeeded", task'[t].status = "Succeeded"
  PROVE  /\ task'[t].intent = "Run" /\ task'[t].current # 0
         /\ LET att == attempt'[<<t, task'[t].current>>] IN
            /\ att.state = "Succeeded" /\ att.settled /\ att.kind = "none"
            /\ att.finished <= task'[t].deadline
<1> DEFINE att == attempt[Checked(t)]
           kind == IF check[t].stage = "confirmed" THEN "none" ELSE "validation"
           new == Settled(t, task[t], att, kind)
<1>1. TypeOK /\ check[t].stage # "none"
  BY DEF History, Safe, SettleValidated
<1>2. /\ Checked(t) \in Attempts /\ AttemptTyped(att) /\ TaskTyped(task[t])
      /\ check[t].number \in Numbers
  BY <1>1, CheckedTyped DEF TypeOK, TaskTyped
<1>3. /\ VerdictApplies(t)
      /\ task[t].intent = "Run" => check[t].intent = "Run"
      /\ task' = [task EXCEPT ![t] = new]
      /\ attempt' = [attempt EXCEPT ![Checked(t)] = Judged(att, task[t].intent, kind)]
  BY <1>1 DEF SettleValidated, VerdictRow
<1>4. task'[t] = new /\ attempt'[Checked(t)] = Judged(att, task[t].intent, kind)
  BY <1>1, <1>2, <1>3 DEF TypeOK
<1> HIDE DEF kind
<1>5. /\ task[t].intent = "Run" /\ kind = "none" /\ new.intent = "Run"
      /\ new.current = task[t].current /\ new.deadline = task[t].deadline
  BY <1>2, <1>4, SettledCases DEF EndedAs, SentBack
<1>6. Checked(t) = <<t, new.current>> /\ new.current # 0
  BY <1>2, <1>3, <1>5 DEF VerdictApplies, Checked, Numbers
<1>7. att.state = "Succeeded" /\ att.finished <= task[t].deadline
  BY <1>1, <1>3, <1>5 DEF Vouched
<1> HIDE DEF new, att
<1>8. LET j == Judged(att, "Run", "none") IN
      j.state = "Succeeded" /\ j.settled /\ j.kind = "none" /\ j.finished = att.finished
  BY <1>2, <1>7 DEF Judged, SettledAttempt, AttemptTyped, AttemptRow, att
<1> QED
  BY <1>4, <1>5, <1>6, <1>7, <1>8

LEMMA NextShown == History /\ Vouched /\ Shown /\ [Next]_vars => Shown'
<1> SUFFICES ASSUME History, Vouched, Shown, [Next]_vars, NEW t \in Tasks,
                    task'[t].status = "Succeeded"
             PROVE  /\ task'[t].intent = "Run" /\ task'[t].current # 0
                    /\ LET att == attempt'[<<t, task'[t].current>>] IN
                       /\ att.state = "Succeeded" /\ att.settled /\ att.kind = "none"
                       /\ att.finished <= task'[t].deadline
  BY DEF Shown, AcceptedOutcome, HasCurrent, Current
<1>1. TypeOK /\ RowStory
  BY DEF History, Safe
<1>2. CASE task[t].status = "Succeeded"
  <2>1. task[t].current \in Numbers
    BY <1>1, <1>2 DEF Shown, HasCurrent, TypeOK
  <2>2. task'[t] = task[t] /\ attempt'[<<t, task[t].current>>] = attempt[<<t, task[t].current>>]
    BY <1>1, <1>2, <2>1, TerminalTask, TerminalRows DEF Terminal
  <2> QED
    BY <1>2, <2>2 DEF Shown, AcceptedOutcome, HasCurrent, Current
<1>3. CASE task[t].status # "Succeeded"
  <2>1. SettleValidated(t)
    <3>1. CASE Present(t)
      BY <1>1, <1>3, <3>1, SuccessByVerdict
    <3>2. CASE ~Present(t)
      BY <1>1, <3>2, AbsentTask DEF Present
    <3> QED
      BY <3>1, <3>2
  <2> QED
    BY <1>3, <2>1, VerdictAccepts
<1> QED
  BY <1>2, <1>3

\* A task succeeds only on a result that was reported by the deadline, before
\* anyone asked it to stop, and that passed its validation: for any interleaving
\* of late reports, deadlines, cancels, ticks, verdicts and manager crashes
\* (tick, _validate_and_settle, observe).
THEOREM AcceptedOnlyInTime == Spec => []AcceptedOutcome
<1> DEFINE Inv == History /\ Vouched /\ Shown
<1>1. Init => Inv
  <2>1. Init => Vouched /\ Shown
    BY DEF Init, Vouched, Shown, AcceptedOutcome, NoCheck, NoTask
  <2> QED
    BY <2>1, InitHistory
<1>2. Inv /\ [Next]_vars => Inv'
  BY NextHistory, NextVouched, NextShown
<1>3. Inv => AcceptedOutcome
  BY DEF Shown
<1> QED
  BY <1>1, <1>2, <1>3, PTL DEF Spec

----------------------------------------------------------------------------
\* The task core implements its contract

\* A task that holds a slot has a current attempt, one that waits has none, and
\* one that was not submitted was not asked to stop.
SeatedRow(row) ==
  /\ Holds(row) => row.current # 0
  /\ row.status \in {"Absent", "Pending"} => row.current = 0
  /\ row.status = "Absent" => row.intent = "Run"

Seated == \A t \in Tasks : SeatedRow(task[t])

\* What one step may make of the row of a task.
RowMove(old, new) ==
  \/ new = old
  \/ /\ old.status = "Absent" /\ new.status = "Pending"
     /\ new.intent = "Run" /\ new.current = 0
  \/ /\ Holds(old) /\ Holds(new) /\ new.current # 0
     /\ old.intent # "Run" => new.intent # "Run"
  \/ /\ old.status = "Pending" /\ Holds(new) /\ new.current # 0
     /\ old.intent = "Run" /\ new.intent = "Run"
  \/ /\ Holds(old) \/ old.status = "Pending"
     /\ new.status = "Pending" /\ new.current = 0
     /\ old.intent = "Run" /\ new.intent = "Run"
  \/ /\ Holds(old) \/ old.status = "Pending"
     /\ new.status \in {"Failed", "Cancelled"}
     /\ old.intent # "Run" => new.intent # "Run"
     /\ new.status = "Cancelled" => new.intent # "Run"
  \/ /\ Holds(old) /\ new.status = "Succeeded"
     /\ old.intent = "Run" /\ new.intent = "Run"

LEMMA SubmitMove ==
  ASSUME TypeOK, NEW k \in Keys, NEW u \in Tasks, Submit(k, u), NEW t \in Tasks
  PROVE  RowMove(task[t], task'[t])
<1>1. task \in [Tasks -> TaskRow]
  BY DEF TypeOK
<1>2. CASE t # u
  BY <1>1, <1>2 DEF Submit, RowMove
<1>3. CASE t = u
  <2>1. task[t].status = "Absent"
    BY <1>3 DEF Submit, Present
  <2>2. task'[t].status = "Pending" /\ task'[t].intent = "Run" /\ task'[t].current = 0
    BY <1>1, <1>3 DEF Submit, NoTask
  <2> QED
    BY <2>1, <2>2 DEF RowMove
<1> QED
  BY <1>2, <1>3

LEMMA CancelMove ==
  ASSUME TypeOK, Seated, NEW k \in Keys, NEW u \in Tasks, Cancel(k, u), NEW t \in Tasks
  PROVE  RowMove(task[t], task'[t])
<1>1. /\ task \in [Tasks -> TaskRow] /\ task[t] \in TaskRow /\ SeatedRow(task[t])
      /\ task[u].status # "Absent"
  BY DEF TypeOK, Seated, Cancel, Present
<1>2. task'[t] = task[t] \/ (t = u /\ task'[t] = CancelledRow(task[t]))
  BY <1>1 DEF Cancel
<1>3. CASE task'[t] = task[t]
  BY <1>3 DEF RowMove
<1>4. CASE t = u /\ task'[t] = CancelledRow(task[t]) /\ Holds(task[t])
  <2>1. /\ task'[t].status = task[t].status /\ task'[t].current = task[t].current
        /\ task'[t].intent = "user_cancelled"
    BY <1>1, <1>4 DEF CancelledRow, TaskRow, Holds, Terminal
  <2> QED
    BY <1>1, <1>4, <2>1 DEF RowMove, Holds, SeatedRow
<1>5. CASE t = u /\ task'[t] = CancelledRow(task[t]) /\ task[t].status = "Pending"
  <2>1. task'[t].status = "Cancelled" /\ task'[t].intent = "user_cancelled"
    BY <1>1, <1>5 DEF CancelledRow, TaskRow, Terminal
  <2> QED
    BY <1>5, <2>1 DEF RowMove
<1>6. CASE t = u /\ task'[t] = CancelledRow(task[t]) /\ task[t].status \in Terminal
  BY <1>6 DEF CancelledRow, RowMove
<1> QED
  BY <1>1, <1>2, <1>3, <1>4, <1>5, <1>6 DEF TaskRow, Holds

\* The sweep, and the placement after it, together are one move.
LEMMA TickMove ==
  ASSUME TypeOK, RowStory, Seated, Tick, NEW t \in Tasks
  PROVE  RowMove(task[t], task'[t])
<1>1. PICK unseen \in SUBSET Unreadable, place \in [Tasks -> Workers \cup {0}] :
        Admit([u \in Tasks |-> SweptTask(u, unseen)], SweptAttempts(unseen), place)
  BY DEF Tick
<1> DEFINE row == SweptTask(t, unseen)
<1>2. /\ TaskTyped(row) /\ task[t] \in TaskRow /\ SeatedRow(task[t])
      /\ task[t].intent # "Run" => SweptIntent(t) # "Run"
  BY SweptTaskTyped DEF TypeOK, Seated, SweptIntent
<1>3. RowMove(task[t], row) /\ (row.status = "Pending" /\ row.intent = "Run" =>
          (Holds(task[t]) \/ task[t].status = "Pending") /\ task[t].intent = "Run")
  <2> HIDE DEF row
  <2>1. CASE Holds(task[t])
    BY <1>2, <2>1, SweptCases
       DEF row, RowMove, EndedAs, SentBack, Holds, SeatedRow, Terminal, Open, Present
  <2>2. CASE task[t].status = "Pending"
    BY <1>2, <2>2, SweptCases
       DEF row, RowMove, EndedAs, SentBack, Holds, SeatedRow, Terminal, Open, Present
  <2>3. CASE task[t].status \notin {"Pending", "Scheduled", "Running"}
    BY <2>3, SweptCases DEF row, RowMove, Holds
  <2> QED
    BY <2>1, <2>2, <2>3 DEF Holds
<1>4. CASE place[t] = 0
  <2>1. task'[t] = row
    BY <1>1, <1>4 DEF Admit
  <2> QED
    BY <1>3, <2>1
<1>5. CASE place[t] # 0
  <2>1. task'[t] = [row EXCEPT !.status = "Scheduled", !.current = NextNumber(t)]
    BY <1>1, <1>5 DEF Admit
  <2>2. row.status = "Pending" /\ row.intent = "Run" /\ NextNumber(t) <= MaxRows
    BY <1>1, <1>5 DEF Admit, IsSchedule, Placeable, Ready
  <2>3. NextNumber(t) # 0
    BY <2>2, NextNumberTyped DEF Numbers
  <2> HIDE DEF row
  <2>4. Holds(task'[t]) /\ task'[t].current # 0 /\ task'[t].intent = "Run"
    BY <1>2, <2>1, <2>2, <2>3 DEF Holds, TaskTyped, TaskRow
  <2> QED
    BY <1>3, <2>2, <2>4 DEF RowMove, Holds
<1> QED
  BY <1>4, <1>5

LEMMA VerdictMove ==
  ASSUME TypeOK, Seated, NEW u \in Tasks, SettleValidated(u), NEW t \in Tasks
  PROVE  RowMove(task[t], task'[t])
<1> DEFINE kind == IF check[t].stage = "confirmed" THEN "none" ELSE "validation"
           new == Settled(t, task[t], attempt[Checked(t)], kind)
<1>1. task \in [Tasks -> TaskRow] /\ TaskTyped(task[t]) /\ SeatedRow(task[t])
  BY DEF TypeOK, Seated, TaskTyped
<1>2. CASE task'[t] = task[t]
  BY <1>2 DEF RowMove
<1>3. CASE task'[t] # task[t]
  <2>1. u = t /\ VerdictApplies(t) /\ task'[t] = new
    BY <1>1, <1>3 DEF SettleValidated, VerdictRow
  <2>2. AttemptTyped(attempt[Checked(t)]) /\ check[t].number # 0
    BY <2>1, CheckedTyped DEF SettleValidated, Numbers
  <2>3. Holds(task[t])
    BY <1>1, <2>1, <2>2
       DEF VerdictApplies, Open, Present, Holds, SeatedRow, Terminal, TaskTyped, TaskRow
  <2>4. kind # "not_started"
    OBVIOUS
  <2> HIDE DEF kind
  <2>5. \/ EndedAs(task[t].intent, kind, new) /\ new.current = task[t].current
        \/ SentBack(t, kind, new) /\ task[t].intent = "Run"
    BY <1>1, <2>2, SettledCases
  <2> HIDE DEF new
  <2> QED
    BY <1>1, <2>1, <2>3, <2>5 DEF RowMove, EndedAs, SentBack, Terminal
<1> QED
  BY <1>2, <1>3

LEMMA NextMove ==
  ASSUME TypeOK, RowStory, Seated, [Next]_vars, NEW t \in Tasks
  PROVE  RowMove(task[t], task'[t])
<1>1. CASE \/ UNCHANGED vars
           \/ \E u \in Tasks : Prevalidate(u) \/ Recheck(u) \/ ValidationFault(u)
           \/ ManagerCrash \/ ClockTick
           \/ \E w \in Workers : Register(w) \/ WorkerTick(w)
           \/ \E b \in Attempts : Resolve(b) \/ ArtifactDamaged(b)
           \/ \E p \in Procs : RunnerStep(p) \/ Heartbeat(p) \/ RunnerCrash(p)
  <2>1. UNCHANGED task
    BY <1>1
       DEF Prevalidate, Recheck, ValidationFault, ManagerCrash, ClockTick, Register,
           WorkerTick, Resolve, ArtifactDamaged, RunnerStep, Claim, CheckpointStop, Proceed,
           Announce, StartWarmup, StartRequest, Answer, RequestFails, WorkFails, Publish,
           Finish,
           Heartbeat, RunnerCrash, RunnerOnly, vars
  <2> QED
    BY <2>1 DEF RowMove
<1> QED
  BY <1>1, SubmitMove, CancelMove, TickMove, VerdictMove DEF Next, Validate

LEMMA NextSeated == TypeOK /\ RowStory /\ Seated /\ [Next]_vars => Seated'
<1> SUFFICES ASSUME TypeOK, RowStory, Seated, [Next]_vars, NEW t \in Tasks
             PROVE  SeatedRow(task'[t])
  BY DEF Seated, SeatedRow, Holds
<1>1. SeatedRow(task[t]) /\ RowMove(task[t], task'[t])
  BY NextMove DEF Seated
<1> QED
  BY <1>1 DEF RowMove, SeatedRow, Holds

\* Each of these moves is one that the contract allows.
LEMMA MoveAllowed ==
  ASSUME TypeOK, TypeOK', Seated, NEW t \in Tasks, RowMove(task[t], task'[t])
  PROVE  Contract!Move(t)
<1>1. /\ task[t].status \in {"Absent", "Pending", "Scheduled", "Running"} \cup Terminal
      /\ task'[t].status \in {"Absent", "Pending", "Scheduled", "Running"} \cup Terminal
  BY DEF TypeOK, TaskRow
<1>2. /\ Phase[t] = PhaseOf(task[t].status) /\ Phase'[t] = PhaseOf(task'[t].status)
      /\ Stopped[t] = (task[t].intent # "Run") /\ Stopped'[t] = (task'[t].intent # "Run")
  BY DEF Phase, Stopped
<1>3. CASE task'[t] = task[t]
  <2>1. Contract!Stays(t)
    BY <1>2, <1>3 DEF Contract!Stays
  <2> QED
    BY <2>1 DEF Contract!Move
<1>4. CASE task[t].status = "Absent" /\ task'[t].status = "Pending" /\ task'[t].intent = "Run"
  <2>1. Contract!Accept(t)
    BY <1>2, <1>4 DEF Contract!Accept, Seated, SeatedRow, PhaseOf
  <2> QED
    BY <2>1 DEF Contract!Move
<1>5. CASE /\ Holds(task[t]) /\ Holds(task'[t])
           /\ task[t].intent # "Run" => task'[t].intent # "Run"
  <2>1. Phase[t] = "holding" /\ Phase'[t] = "holding"
    BY <1>2, <1>5 DEF PhaseOf, Holds
  <2>2. Contract!Stays(t) \/ Contract!StopNow(t)
    BY <1>2, <1>5, <2>1 DEF Contract!Stays, Contract!StopNow
  <2> QED
    BY <2>2 DEF Contract!Move
<1>6. CASE /\ task[t].status = "Pending" /\ Holds(task'[t])
           /\ task[t].intent = "Run" /\ task'[t].intent = "Run"
  <2>1. Contract!Grant(t)
    BY <1>2, <1>6 DEF Contract!Grant, PhaseOf, Holds
  <2> QED
    BY <2>1 DEF Contract!Move
<1>7. CASE /\ Holds(task[t]) \/ task[t].status = "Pending"
           /\ task'[t].status = "Pending"
           /\ task[t].intent = "Run" /\ task'[t].intent = "Run"
  <2>1. Contract!GiveBack(t) \/ Contract!Stays(t)
    BY <1>2, <1>7 DEF Contract!GiveBack, Contract!Stays, PhaseOf, Holds
  <2> QED
    BY <2>1 DEF Contract!Move
<1>8. CASE /\ Holds(task[t]) \/ task[t].status = "Pending"
           /\ task'[t].status \in {"Failed", "Cancelled"}
           /\ task[t].intent # "Run" => task'[t].intent # "Run"
           /\ task'[t].status = "Cancelled" => task'[t].intent # "Run"
  <2>1. Phase[t] \in {"waiting", "holding"}
    BY <1>2, <1>8 DEF PhaseOf, Holds
  <2>2. Contract!Fail(t) \/ Contract!StopNow(t)
    BY <1>2, <1>8, <2>1 DEF Contract!Fail, Contract!StopNow, PhaseOf
  <2> QED
    BY <2>2 DEF Contract!Move
<1>9. CASE /\ Holds(task[t]) /\ task'[t].status = "Succeeded"
           /\ task[t].intent = "Run" /\ task'[t].intent = "Run"
  <2>1. Contract!Succeed(t)
    BY <1>2, <1>9 DEF Contract!Succeed, PhaseOf, Holds
  <2> QED
    BY <2>1 DEF Contract!Move
<1> QED
  BY <1>3, <1>4, <1>5, <1>6, <1>7, <1>8, <1>9 DEF RowMove

\* The tasks that hold a slot are no more than the reservations.
LEMMA HoldersBound ==
  ASSUME NEW T, NEW A,
         \A t \in Tasks : Holds(T[t]) => T[t].current \in Numbers,
         \A a \in Attempts : A[a].reserved <=> T[a[1]].current = a[2] /\ Holds(T[a[1]]),
         Cardinality(ReservedIn(A)) <= MaxActive
  PROVE  Cardinality({t \in Tasks : Holds(T[t])}) <= MaxActive
<1> DEFINE R == ReservedIn(A)
           H == {t \in Tasks : Holds(T[t])}
           I == {a[1] : a \in R}
<1>1. IsFiniteSet(R)
  BY AttemptsFinite, FS_Subset DEF ReservedIn
<1>2. IsFiniteSet(I) /\ Cardinality(I) <= Cardinality(R)
  <2> DEFINE f == [a \in R |-> a[1]]
  <2>1. f \in Surjection(R, I)
    BY DEF Surjection
  <2> QED
    BY <1>1, <2>1, FS_Surjection
<1>3. H \subseteq I
  <2> SUFFICES ASSUME NEW t \in H PROVE t \in I
    OBVIOUS
  <2>1. <<t, T[t].current>> \in R
    BY DEF Attempts, ReservedIn
  <2> QED
    BY <2>1
<1>4. IsFiniteSet(H) /\ Cardinality(H) <= Cardinality(I)
  BY <1>2, <1>3, FS_Subset
<1>5. /\ Cardinality(H) \in Nat /\ Cardinality(I) \in Nat /\ Cardinality(R) \in Nat
      /\ MaxActive \in Nat
  BY <1>1, <1>2, <1>4, FS_CardinalityType, ConstantsAssumption
<1> QED
  BY <1>2, <1>4, <1>5

LEMMA ContractInit == Init => Contract!Init
<1> SUFFICES ASSUME Init PROVE Contract!Init
  OBVIOUS
<1>1. \A t \in Tasks : task[t].status = "Absent" /\ task[t].intent = "Run"
  BY DEF Init, NoTask
<1>2. PhaseOf("Absent") = "absent"
  BY DEF PhaseOf
<1> QED
  BY <1>1, <1>2 DEF Contract!Init, Phase, Stopped

LEMMA ContractStep ==
  ASSUME TypeOK, RowStory, Seated, [Next]_vars,
         TypeOK', Seated', SlotsMatchTasks', CapacityBound'
  PROVE  Contract!Next
<1>1. Phase' \in [Tasks -> Contract!Phases] /\ Stopped' \in [Tasks -> BOOLEAN]
  <2>1. ASSUME NEW t \in Tasks PROVE PhaseOf(task'[t].status) \in Contract!Phases
    BY <2>1 DEF PhaseOf, Contract!Phases, TypeOK, TaskRow, Terminal
  <2> QED
    BY <2>1 DEF Phase, Stopped
<1>2. \A t \in Tasks : Contract!Move(t)
  BY NextMove, MoveAllowed
<1>3. Cardinality(Contract!Holding') <= MaxActive
  <2>1. Contract!Holding' = {t \in Tasks : Holds(task'[t])}
    <3>1. ASSUME NEW t \in Tasks PROVE Phase'[t] = "holding" <=> Holds(task'[t])
      <4>1. task'[t].status \in {"Absent", "Pending", "Scheduled", "Running"} \cup Terminal
        BY DEF TypeOK, TaskRow
      <4> QED
        BY <4>1 DEF Phase, PhaseOf, Holds, Terminal
    <3> QED
      BY <3>1 DEF Contract!Holding
  <2>2. \A t \in Tasks : Holds(task'[t]) => task'[t].current \in Numbers
    BY DEF Seated, SeatedRow, Holds, TypeOK
  <2>3. \A a \in Attempts :
          attempt'[a].reserved <=> task'[a[1]].current = a[2] /\ Holds(task'[a[1]])
    BY DEF SlotsMatchTasks, Holds
  <2>4. Cardinality(ReservedIn(attempt')) <= MaxActive
    BY DEF CapacityBound, Reserved, ReservedIn
  <2> QED
    BY <2>1, <2>2, <2>3, <2>4, HoldersBound
<1>4. \A S : Contract!Cardinality(S) = Cardinality(S)
  BY DEF Contract!Cardinality, Cardinality
<1> QED
  BY <1>1, <1>2, <1>3, <1>4 DEF Contract!Next

\* Every behaviour of the store, the manager, the workers and the runners is one
\* the contract allows: for any number of tasks, each ends once, no more than
\* max_active hold a slot at a time, and a stop is never undone and wins over a
\* success that is not settled (schedule, settle, cancel, tick).
THEOREM ContractImplemented == Spec => ImplementsContract
<1> DEFINE Inv == History /\ CapacityBound /\ Seated
<1>1. Init => Inv
  <2>1. Init => Seated
    BY DEF Init, Seated, SeatedRow, NoTask, Holds
  <2> QED
    BY <2>1, InitHistory, InitSafe
<1>2. Inv /\ [Next]_vars => Inv'
  <2>1. Inv /\ [Next]_vars => History' /\ Seated'
    BY NextHistory, NextSeated DEF History, Safe
  <2>2. Inv /\ [Next]_vars => CapacityBound'
    BY NextCapacity DEF History, Safe
  <2> QED
    BY <2>1, <2>2
<1>3. Inv /\ Inv' /\ [Next]_vars => [Contract!Next]_<<Phase, Stopped>>
  BY ContractStep DEF History, Safe
<1> QED
  BY <1>1, <1>2, <1>3, ContractInit, PTL DEF Spec, ImplementsContract, Contract!Spec

----------------------------------------------------------------------------
\* The discipline of retries

\* the rows of a task before its current one that count as executions
Tried(t, row, A) ==
  {n \in Numbers : /\ n # row.current /\ A[<<t, n>>].state # "None"
                   /\ A[<<t, n>>].kind # "not_started"}

\* Every earlier row of a task is a confirmed non-start or one its policy
\* replays, there is room for one more execution, and the current row is last.
Disciplined(t, row, A) ==
  /\ Cardinality(Tried(t, row, A)) < SpecOf[t].maxAttempts
  /\ \A n \in Numbers : n # row.current /\ A[<<t, n>>].state # "None" =>
       A[<<t, n>>].kind = "not_started" \/ Replays(t, A[<<t, n>>].kind)
  /\ row.current # 0 => \A n \in Numbers : A[<<t, n>>].state # "None" => n <= row.current

Discipline == \A t \in Tasks : Disciplined(t, task[t], attempt)

\* While the current row stays, only it may change.
LEMMA CurrentOnly ==
  ASSUME NEW t \in Tasks, NEW row, NEW A, Disciplined(t, row, A),
         NEW new, new.current = row.current,
         NEW B, \A n \in Numbers : n # row.current => B[<<t, n>>] = A[<<t, n>>]
  PROVE  Disciplined(t, new, B)
<1>1. Tried(t, new, B) = Tried(t, row, A)
  BY DEF Tried
<1>2. ASSUME row.current # 0, NEW n \in Numbers, B[<<t, n>>].state # "None"
      PROVE  n <= row.current
  <2>1. CASE n = row.current
    BY <2>1 DEF Numbers
  <2>2. CASE n # row.current
    BY <1>2, <2>2 DEF Disciplined
  <2> QED
    BY <2>1, <2>2
<1> QED
  BY <1>1, <1>2 DEF Disciplined

\* settle gives a task back only after a confirmed non-start, or a failure its
\* policy replays while it has executions left.
LEMMA BackDisciplined ==
  ASSUME NEW t \in Tasks, NEW row, NEW A, Disciplined(t, row, A),
         NEW new, new.current = 0, row.current \in Numbers,
         NEW B, \A n \in Numbers : n # row.current => B[<<t, n>>] = A[<<t, n>>],
         LET kind == B[<<t, row.current>>].kind IN
           \/ kind = "not_started"
           \/ /\ Replays(t, kind)
              /\ Cardinality(Tried(t, new, A)) < SpecOf[t].maxAttempts
              /\ A[<<t, row.current>>].state # "None"
              /\ A[<<t, row.current>>].kind # "not_started"
  PROVE  Disciplined(t, new, B)
<1> DEFINE c == row.current
<1>1. \A n \in Numbers : n # c /\ B[<<t, n>>].state # "None" =>
        B[<<t, n>>].kind = "not_started" \/ Replays(t, B[<<t, n>>].kind)
  BY DEF Disciplined
<1>2. B[<<t, c>>].kind = "not_started" \/ Replays(t, B[<<t, c>>].kind)
  OBVIOUS
<1>3. Cardinality(Tried(t, new, B)) < SpecOf[t].maxAttempts
  <2>1. CASE B[<<t, c>>].kind = "not_started"
    <3>1. Tried(t, new, B) = Tried(t, row, A)
      BY <2>1 DEF Tried, Numbers
    <3> QED
      BY <3>1 DEF Disciplined
  <2>2. CASE /\ Cardinality(Tried(t, new, A)) < SpecOf[t].maxAttempts
             /\ A[<<t, c>>].state # "None" /\ A[<<t, c>>].kind # "not_started"
    <3>1. Tried(t, new, B) \subseteq Tried(t, new, A)
      BY <2>2 DEF Tried
    <3>2. IsFiniteSet(Tried(t, new, A))
      <4>1. IsFiniteSet(Numbers)
        BY FS_Interval, ConstantsAssumption DEF Numbers
      <4> QED
        BY <4>1, FS_Subset DEF Tried
    <3>3. /\ Cardinality(Tried(t, new, B)) <= Cardinality(Tried(t, new, A))
          /\ Cardinality(Tried(t, new, B)) \in Nat /\ Cardinality(Tried(t, new, A)) \in Nat
      BY <3>1, <3>2, FS_Subset, FS_CardinalityType
    <3>4. SpecOf[t].maxAttempts \in Nat
      BY ConstantsAssumption DEF SpecForm
    <3> QED
      BY <2>2, <3>3, <3>4
  <2> QED
    BY <2>1, <2>2
<1> QED
  BY <1>1, <1>2, <1>3 DEF Disciplined

\* schedule fills the next row of a task that waits.
LEMMA AdmitDisciplined ==
  ASSUME NEW t \in Tasks, NEW row, NEW A, Disciplined(t, row, A), row.current = 0,
         NEW new, new.current \in Numbers,
         A[<<t, new.current>>].state = "None",
         \A n \in Numbers : A[<<t, n>>].state # "None" => n < new.current,
         NEW B, \A n \in Numbers : n # new.current => B[<<t, n>>] = A[<<t, n>>]
  PROVE  Disciplined(t, new, B)
<1>1. Tried(t, new, B) = Tried(t, row, A)
  BY DEF Tried, Numbers
<1>2. \A n \in Numbers : B[<<t, n>>].state # "None" => n <= new.current
  BY DEF Numbers
<1>3. \A n \in Numbers : n # new.current /\ B[<<t, n>>].state # "None" =>
        B[<<t, n>>].kind = "not_started" \/ Replays(t, B[<<t, n>>].kind)
  BY DEF Disciplined, Numbers
<1> QED
  BY <1>1, <1>2, <1>3 DEF Disciplined

\* The steps that are neither a tick nor a verdict touch current rows only.
LEMMA OtherRows ==
  ASSUME History, Seated, [Next]_vars, ~Tick, \A u \in Tasks : ~SettleValidated(u),
         NEW t \in Tasks
  PROVE  /\ task'[t].current = task[t].current
         /\ \A n \in Numbers : n # task[t].current => attempt'[<<t, n>>] = attempt[<<t, n>>]
<1>1. TypeOK /\ RowsInOrder /\ SlotsMatchTasks /\ \A b \in Attempts : LiveHeld(b)
  BY ExecutionParts DEF History, Safe
<1>2. task'[t].current = task[t].current
  <2>1. CASE UNCHANGED task
    BY <2>1
  <2>2. ASSUME NEW k \in Keys, NEW u \in Tasks, Submit(k, u)
        PROVE  task'[t].current = task[t].current
    <3>1. task \in [Tasks -> TaskRow] /\ SeatedRow(task[t])
      BY <1>1 DEF TypeOK, Seated
    <3> QED
      BY <2>2, <3>1 DEF Submit, Present, SeatedRow, NoTask
  <2>3. ASSUME NEW k \in Keys, NEW u \in Tasks, Cancel(k, u)
        PROVE  task'[t].current = task[t].current
    <3>1. task \in [Tasks -> TaskRow] /\ CancelledRow(task[t]).current = task[t].current
      BY <1>1 DEF TypeOK, CancelledRow, TaskRow
    <3> QED
      BY <2>3, <3>1 DEF Cancel
  <2>4. CASE \/ \E u \in Tasks : Prevalidate(u) \/ Recheck(u) \/ ValidationFault(u)
             \/ ManagerCrash \/ ClockTick
             \/ \E w \in Workers : Register(w) \/ WorkerTick(w)
             \/ \E b \in Attempts : Resolve(b) \/ ArtifactDamaged(b)
             \/ \E p \in Procs : RunnerStep(p) \/ Heartbeat(p) \/ RunnerCrash(p)
    BY <2>1, <2>4
       DEF Prevalidate, Recheck, ValidationFault, ManagerCrash, ClockTick, Register,
           WorkerTick, Resolve, ArtifactDamaged, RunnerStep, Claim, CheckpointStop, Proceed,
           Announce, StartWarmup, StartRequest, Answer, RequestFails, WorkFails, Publish,
           Finish,
           Heartbeat, RunnerCrash, RunnerOnly
  <2> QED
    BY <2>1, <2>2, <2>3, <2>4 DEF Next, Validate, vars
<1>3. ASSUME NEW n \in Numbers, attempt'[<<t, n>>] # attempt[<<t, n>>]
      PROVE  n = task[t].current
  <2> DEFINE a == <<t, n>>
  <2>1. a \in Attempts /\ a[1] = t /\ a[2] = n
    BY DEF Attempts
  <2>2. CASE attempt[a].state \in Live
    BY <1>1, <2>1, <2>2 DEF LiveHeld, SlotsMatchTasks
  <2>3. ASSUME NEW p \in Procs, NEW state, a = Of(p), Accepted(p, state)
        PROVE  n = task[t].current
    BY <2>1, <2>3 DEF Accepted, Of
  <2>4. ResolvedTo(a) \/ ClaimedTo(a) \/ ReportedTo(a)
    <3>1. CASE \/ \E k \in Keys, u \in Tasks : Submit(k, u) \/ Cancel(k, u)
               \/ \E u \in Tasks : Prevalidate(u) \/ Recheck(u) \/ ValidationFault(u)
               \/ ManagerCrash \/ ClockTick
               \/ \E w \in Workers : Register(w) \/ WorkerTick(w)
               \/ \E b \in Attempts : ArtifactDamaged(b)
               \/ UNCHANGED vars
               \/ \E p \in Procs : \/ CheckpointStop(p) \/ Proceed(p) \/ StartWarmup(p)
                                   \/ StartRequest(p)
                                  \/ Answer(p) \/ RequestFails(p) \/ WorkFails(p)
                                  \/ Publish(p) \/ RunnerCrash(p)
      BY <1>3, <3>1
         DEF Submit, Cancel, Prevalidate, Recheck, ValidationFault, ManagerCrash, ClockTick,
             Register, WorkerTick, ArtifactDamaged, CheckpointStop, Proceed, StartWarmup,
             StartRequest, Answer, RequestFails, WorkFails, Publish, RunnerCrash, vars
    <3>2. ASSUME NEW b \in Attempts, Resolve(b) PROVE ResolvedTo(a)
      BY <1>1, <1>3, <2>1, <3>2 DEF Resolve, ResolvedTo, TypeOK
    <3> QED
      BY <1>1, <1>3, <2>1, <3>1, <3>2, ClaimRows, ReportRows DEF Next, Validate, RunnerStep
  <2> QED
    BY <2>2, <2>3, <2>4 DEF ResolvedTo, ClaimedTo, ReportedTo, Live
<1> QED
  BY <1>2, <1>3

\* The verdict of a validation keeps the discipline of its task.
LEMMA VerdictDisciplined ==
  ASSUME History, Seated, Discipline, NEW u \in Tasks, SettleValidated(u), NEW t \in Tasks
  PROVE  Disciplined(t, task'[t], attempt')
<1> DEFINE att == attempt[Checked(t)]
           kind == IF check[t].stage = "confirmed" THEN "none" ELSE "validation"
           new == Settled(t, task[t], att, kind)
           judged == Judged(att, task[t].intent, kind)
<1>1. /\ TypeOK /\ task \in [Tasks -> TaskRow] /\ attempt \in [Attempts -> AttemptRow]
      /\ TaskTyped(task[t]) /\ Disciplined(t, task[t], attempt)
  BY DEF History, Safe, TypeOK, TaskTyped, Discipline
<1>2. CASE u # t \/ UNCHANGED <<task, attempt>>
  <2>1. task'[t] = task[t]
    BY <1>1, <1>2 DEF SettleValidated
  <2>2. \A n \in Numbers : attempt'[<<t, n>>] = attempt[<<t, n>>]
    BY <1>1, <1>2, CheckedTyped DEF SettleValidated, Attempts, Checked
  <2> QED
    BY <1>1, <2>1, <2>2, CurrentOnly
<1>3. CASE u = t /\ ~UNCHANGED <<task, attempt>>
  <2>1. /\ VerdictApplies(t) /\ check[t].stage # "none"
        /\ task' = [task EXCEPT ![t] = new] /\ attempt' = [attempt EXCEPT ![Checked(t)] = judged]
    BY <1>3 DEF SettleValidated, VerdictRow
  <2>2. /\ Checked(t) \in Attempts /\ AttemptTyped(att) /\ check[t].number \in Numbers
        /\ task[t].current = check[t].number /\ att.state = "Succeeded"
    BY <1>1, <2>1, CheckedTyped DEF VerdictApplies, Validates
  <2>3. task'[t] = new /\ attempt'[Checked(t)] = judged /\ Checked(t) = <<t, task[t].current>>
    BY <1>1, <2>1, <2>2 DEF Checked
  <2>4. \A n \in Numbers : n # task[t].current => attempt'[<<t, n>>] = attempt[<<t, n>>]
    BY <1>1, <2>1, <2>2, <2>3 DEF Attempts
  <2>5. kind \in {"none", "validation"}
    OBVIOUS
  <2> HIDE DEF kind
  <2>6. \/ new.current = task[t].current
        \/ SentBack(t, kind, new) /\ task[t].intent = "Run"
    BY <1>1, <2>2, SettledCases
  <2>7. att.kind # "not_started" /\ (task[t].intent = "Run" => judged.kind = kind)
    BY <2>2, <2>5 DEF AttemptTyped, AttemptRow, Judged, SettledAttempt
  <2> HIDE DEF new, att, judged
  <2>8. CASE new.current = task[t].current
    BY <1>1, <2>3, <2>4, <2>8, CurrentOnly
  <2>9. CASE SentBack(t, kind, new) /\ task[t].intent = "Run"
    <3>1. /\ new.current = 0 /\ Replays(t, kind) /\ Executions(t) < SpecOf[t].maxAttempts
          /\ attempt'[<<t, task[t].current>>].kind = kind
      BY <2>3, <2>5, <2>7, <2>9 DEF SentBack
    <3>2. Tried(t, new, attempt) =
            {n \in Numbers : attempt[<<t, n>>].state # "None" /\ attempt[<<t, n>>].kind # "not_started"}
      BY <3>1 DEF Tried, Numbers
    <3>3. Cardinality(Tried(t, new, attempt)) < SpecOf[t].maxAttempts
      BY <3>1, <3>2 DEF Executions
    <3>4. attempt[<<t, task[t].current>>] = att
      BY <2>3 DEF att
    <3> QED
      BY <1>1, <2>2, <2>3, <2>4, <2>7, <3>1, <3>3, <3>4, BackDisciplined
  <2> QED
    BY <2>6, <2>8, <2>9
<1> QED
  BY <1>2, <1>3

\* The sweep keeps it too.
LEMMA SweptDisciplined ==
  ASSUME History, Seated, Discipline, NEW unseen, NEW t \in Tasks
  PROVE  Disciplined(t, SweptTask(t, unseen), SweptAttempts(unseen))
<1> DEFINE att == attempt[Current(t)]
           seen == Inspected(t, unseen)
           new == SweptTask(t, unseen)
           B == SweptAttempts(unseen)
           c == task[t].current
<1> SUFFICES Disciplined(t, new, B)
  OBVIOUS
<1>1. /\ TypeOK /\ RowStory /\ TaskTyped(task[t]) /\ SeatedRow(task[t])
      /\ Disciplined(t, task[t], attempt)
  BY DEF History, Safe, TypeOK, TaskTyped, Discipline, Seated
<1>2. \A n \in Numbers : n # c => B[<<t, n>>] = attempt[<<t, n>>]
  BY DEF SweptAttempts, Attempts, Current
<1>3. CASE new.current = c
  BY <1>1, <1>2, <1>3, CurrentOnly
<1>4. CASE new.current # c
  <2>1. /\ Holds(task[t]) /\ HasCurrent(t) /\ SettlesNow(seen) /\ seen.kind # "none"
        /\ SentBack(t, seen.kind, new) /\ SweptIntent(t) = "Run"
    BY <1>1, <1>4, SweptCases
  <2>2. /\ Current(t) \in Attempts /\ att \in AttemptRow /\ Storied(att)
        /\ c \in Numbers /\ AttemptTyped(seen)
    BY <1>1, <2>1, CurrentTyped, InspectedTyped
       DEF AttemptTyped, RowStory, HasCurrent, TaskTyped
  <2>3. Swept(t)
    BY <2>1 DEF Swept, Open, Present, Holds, Terminal
  <2>4. B[<<t, c>>] = SettledAttempt(seen)
    BY <2>1, <2>2, <2>3 DEF SweptAttempts, Current
  <2>5. B[<<t, c>>].kind = seen.kind
    BY <2>2, <2>4 DEF SettledAttempt, AttemptTyped, AttemptRow
  <2>6. seen \in Seen(att)
    BY InspectedCases DEF Seen
  <2>7. new.current = 0
    BY <2>1 DEF SentBack
  <2> HIDE DEF new, B, seen
  <2>8. CASE seen.kind = "not_started"
    BY <1>1, <1>2, <2>2, <2>5, <2>7, <2>8, BackDisciplined
  <2>9. CASE seen.kind # "not_started"
    <3>1. Replays(t, seen.kind) /\ Executions(t) < SpecOf[t].maxAttempts
      BY <2>1, <2>9 DEF SentBack
    <3>2. seen.kind \in {"transient", "validation"}
      BY <3>1, ConstantsAssumption DEF Replays, SpecForm
    <3>3. seen = att
      <4>1. \A k : Unstarted(att, k).kind = k /\ Lost(att).kind = "unknown"
        BY <2>2 DEF Unstarted, Lost, AttemptRow
      <4> QED
        BY <2>6, <3>2, <4>1 DEF Seen
    <3>4. Tried(t, new, attempt) =
            {n \in Numbers : attempt[<<t, n>>].state # "None" /\ attempt[<<t, n>>].kind # "not_started"}
      BY <2>7 DEF Tried, Numbers
    <3>5. Cardinality(Tried(t, new, attempt)) < SpecOf[t].maxAttempts
      BY <3>1, <3>4 DEF Executions
    <3>6. attempt[<<t, c>>].state # "None" /\ attempt[<<t, c>>].kind # "not_started"
      BY <2>1, <2>9, <3>3 DEF Current, SettlesNow
    <3> QED
      BY <1>1, <1>2, <2>2, <2>5, <2>7, <3>1, <3>5, <3>6, BackDisciplined
  <2> QED
    BY <2>8, <2>9
<1> QED
  BY <1>3, <1>4

LEMMA TickDisciplined ==
  ASSUME History, Seated, Discipline, Tick, NEW t \in Tasks
  PROVE  Disciplined(t, task'[t], attempt')
<1>1. PICK unseen \in SUBSET Unreadable, place \in [Tasks -> Workers \cup {0}] :
        Admit([u \in Tasks |-> SweptTask(u, unseen)], SweptAttempts(unseen), place)
  BY DEF Tick
<1> DEFINE row == SweptTask(t, unseen)
           A == SweptAttempts(unseen)
           N == NextNumber(t)
<1>2. Disciplined(t, row, A) /\ TypeOK /\ RowStory /\ RowsInOrder /\ SeatedRow(task[t])
  BY SweptDisciplined DEF History, Safe, Seated
<1>3. CASE place[t] = 0
  <2>1. task'[t] = row /\ \A n \in Numbers : attempt'[<<t, n>>] = A[<<t, n>>]
    BY <1>1, <1>3 DEF Admit, Attempts
  <2> QED
    BY <1>2, <2>1, CurrentOnly
<1>4. CASE place[t] # 0
  <2>1. task'[t] = [row EXCEPT !.status = "Scheduled", !.current = N]
    BY <1>1, <1>4 DEF Admit
  <2>2. \A n \in Numbers : n # N => attempt'[<<t, n>>] = A[<<t, n>>]
    BY <1>1, <1>4 DEF Admit, Attempts
  <2>3. row.status = "Pending" /\ N <= MaxRows
    BY <1>1, <1>4 DEF Admit, IsSchedule, Placeable, Ready
  <2>4. N \in Numbers /\ TaskTyped(row)
    BY <1>2, <2>3, NextNumberTyped, SweptTaskTyped
  <2> HIDE DEF row, A, N
  <2>5. row.current = 0
    BY <1>2, <2>3, SweptCases
       DEF row, SeatedRow, EndedAs, SentBack, Holds, Terminal, Open, Present
  <2>6. \A n \in Numbers : attempt[<<t, n>>].state = "None" <=> A[<<t, n>>].state = "None"
    <3> SUFFICES ASSUME NEW n \in Numbers
                 PROVE  attempt[<<t, n>>].state = "None" <=> A[<<t, n>>].state = "None"
      OBVIOUS
    <3>1. <<t, n>> \in Attempts /\ attempt[<<t, n>>] \in AttemptRow /\ Storied(attempt[<<t, n>>])
      BY <1>2 DEF Attempts, TypeOK, RowStory
    <3>2. CASE ~(Swept(t) /\ <<t, n>> = Current(t))
      BY <3>1, <3>2 DEF A, SweptAttempts
    <3>3. CASE Swept(t) /\ <<t, n>> = Current(t)
      <4> DEFINE seen == Inspected(t, unseen)
      <4>1. A[<<t, n>>] = IF SettlesNow(seen) THEN SettledAttempt(seen) ELSE seen
        BY <3>1, <3>3 DEF A, SweptAttempts
      <4>2. seen \in Seen(attempt[<<t, n>>])
        BY <3>3, InspectedCases DEF Seen
      <4> HIDE DEF seen
      <4>3. /\ seen \in AttemptRow /\ Storied(seen)
            /\ seen # attempt[<<t, n>>] => seen.state \in {"Cancelled", "Unknown"}
        BY <1>2, <3>1, <4>2, SeenStory
      <4>4. A[<<t, n>>].state = seen.state
        BY <4>1, <4>3, SettledStory
      <4> QED
        BY <4>2, <4>3, <4>4 DEF Seen
    <3> QED
      BY <3>2, <3>3
  <2>7. /\ attempt[<<t, N>>].state = "None"
        /\ \A n \in Numbers : attempt[<<t, n>>].state # "None" => n < N
    <3>1. attempt[<<t, N>>].state = "None"
      BY <1>2, <2>4, NextRow DEF N
    <3> QED
      BY <1>2, <2>4, <3>1 DEF RowsInOrder, Numbers
  <2>8. task'[t].current = N
    BY <2>1, <2>4 DEF TaskTyped, TaskRow
  <2> QED
    BY <1>2, <2>2, <2>4, <2>5, <2>6, <2>7, <2>8, AdmitDisciplined
<1> QED
  BY <1>3, <1>4

LEMMA NextDiscipline == History /\ Seated /\ Discipline /\ [Next]_vars => Discipline'
<1> SUFFICES ASSUME History, Seated, Discipline, [Next]_vars, NEW t \in Tasks
             PROVE  Disciplined(t, task'[t], attempt')
  BY DEF Discipline, Disciplined, Tried, Replays
<1>1. CASE Tick
  BY <1>1, TickDisciplined
<1>2. CASE \E u \in Tasks : SettleValidated(u)
  BY <1>2, VerdictDisciplined
<1>3. CASE ~Tick /\ \A u \in Tasks : ~SettleValidated(u)
  BY <1>3, OtherRows, CurrentOnly DEF Discipline
<1> QED
  BY <1>1, <1>2, <1>3

LEMMA DisciplineBounds ==
  ASSUME TypeOK, RowsInOrder, Discipline, NEW t \in Tasks
  PROVE  /\ Executions(t) <= SpecOf[t].maxAttempts
         /\ \A m, n \in Numbers :
              m < n /\ attempt[<<t, n>>].state # "None" =>
                \/ attempt[<<t, m>>].kind = "not_started"
                \/ SpecOf[t].replaySafe /\ attempt[<<t, m>>].kind \in SpecOf[t].on
<1> DEFINE c == task[t].current
           E == {n \in Numbers : attempt[<<t, n>>].state # "None"
                                 /\ attempt[<<t, n>>].kind # "not_started"}
           D == Tried(t, task[t], attempt)
<1>1. Disciplined(t, task[t], attempt)
  BY DEF Discipline
<1>2. Executions(t) <= SpecOf[t].maxAttempts
  <2>1. IsFiniteSet(D)
    <3>1. IsFiniteSet(Numbers)
      BY FS_Interval, ConstantsAssumption DEF Numbers
    <3> QED
      BY <3>1, FS_Subset DEF Tried
  <2>2. E \subseteq D \cup {c}
    BY DEF Tried
  <2> HIDE DEF D, E
  <2>3. /\ IsFiniteSet(D \cup {c}) /\ Cardinality(D) \in Nat
        /\ Cardinality(D \cup {c}) <= Cardinality(D) + 1
    <3>1. Cardinality(D) \in Nat
      BY <2>1, FS_CardinalityType
    <3>2. /\ IsFiniteSet(D \cup {c})
          /\ Cardinality(D \cup {c}) = IF c \in D THEN Cardinality(D) ELSE Cardinality(D) + 1
      BY <2>1, FS_AddElement
    <3> QED
      BY <3>1, <3>2
  <2>4. Cardinality(E) <= Cardinality(D \cup {c}) /\ Cardinality(E) \in Nat
        /\ Cardinality(D \cup {c}) \in Nat
    BY <2>2, <2>3, FS_Subset, FS_CardinalityType
  <2>5. Cardinality(D) < SpecOf[t].maxAttempts /\ SpecOf[t].maxAttempts \in Nat
    BY <1>1, ConstantsAssumption DEF Disciplined, SpecForm, D
  <2>6. Executions(t) = Cardinality(E)
    BY DEF Executions, E
  <2> QED
    BY <2>3, <2>4, <2>5, <2>6
<1>3. ASSUME NEW m \in Numbers, NEW n \in Numbers, m < n, attempt[<<t, n>>].state # "None"
      PROVE  attempt[<<t, m>>].kind = "not_started" \/ Replays(t, attempt[<<t, m>>].kind)
  <2>1. attempt[<<t, m>>].state # "None"
    BY <1>3 DEF RowsInOrder
  <2>2. m # c
    BY <1>1, <1>3 DEF Disciplined, Numbers
  <2> QED
    BY <1>1, <2>1, <2>2 DEF Disciplined
<1> QED
  BY <1>2, <1>3 DEF Replays

\* Work is repeated only when that is safe: after a confirmed non-start, or
\* after a failure that the replay-safe policy of the task names, and never more
\* than max_attempts times, whatever is lost, late or repeated (settle,
\* executions, schedule).
THEOREM RetriesDisciplined == Spec => []RetryDiscipline
<1> DEFINE Inv == History /\ Seated /\ Discipline
<1>1. Init => Inv
  <2>1. Init => Seated
    BY DEF Init, Seated, SeatedRow, NoTask, Holds
  <2>2. Init => Discipline
    <3> SUFFICES ASSUME Init, NEW t \in Tasks PROVE Disciplined(t, task[t], attempt)
      BY DEF Discipline
    <3>1. \A n \in Numbers : attempt[<<t, n>>].state = "None"
      BY DEF Init, NoAttempt, Attempts
    <3>2. task[t].current = 0
      BY DEF Init, NoTask
    <3>3. Tried(t, task[t], attempt) = {}
      BY <3>1 DEF Tried
    <3>4. SpecOf[t].maxAttempts \in Nat \ {0}
      BY ConstantsAssumption DEF SpecForm
    <3> QED
      BY <3>1, <3>2, <3>3, <3>4, FS_EmptySet DEF Disciplined
  <2> QED
    BY <2>1, <2>2, InitHistory
<1>2. Inv /\ [Next]_vars => Inv'
  BY NextHistory, NextSeated, NextDiscipline DEF History, Safe
<1>3. Inv => RetryDiscipline
  BY DisciplineBounds DEF RetryDiscipline, History, Safe
<1> QED
  BY <1>1, <1>2, <1>3, PTL DEF Spec

----------------------------------------------------------------------------
\* What a task is charged

\* the rows of a task that have been settled, and what they used together
PaidRows(t, A) == {n \in Numbers : A[<<t, n>>].settled}
Paid(t, A) == SumFunctionOnSet([n \in Numbers |-> A[<<t, n>>].known], PaidRows(t, A))

\* A task row counts the usage of its settled attempts, which are all but the
\* current one; a task that was not submitted has used nothing.
Ledger(t, row, A) ==
  /\ row.tokensUsed = Paid(t, A)
  /\ row.usageUnknown <=> \E n \in PaidRows(t, A) : ~A[<<t, n>>].usageKnown
  /\ \A n \in Numbers : n # row.current /\ A[<<t, n>>].state # "None" => A[<<t, n>>].settled
  /\ row.status = "Absent" => row.tokensUsed = 0 /\ ~row.usageUnknown

Ledgers == \A t \in Tasks : Ledger(t, task[t], attempt)

Rows(A) == \A a \in Attempts : A[a] \in AttemptRow

LEMMA PaidFinite ==
  ASSUME NEW t \in Tasks, NEW A, Rows(A)
  PROVE  /\ IsFiniteSet(PaidRows(t, A))
         /\ \A n \in Numbers : <<t, n>> \in Attempts /\ A[<<t, n>>].known \in Nat
                               /\ [m \in Numbers |-> A[<<t, m>>].known][n] = A[<<t, n>>].known
<1>1. IsFiniteSet(Numbers)
  BY FS_Interval, ConstantsAssumption DEF Numbers
<1> QED BY <1>1, FS_Subset DEF PaidRows, Rows, Attempts, AttemptRow

\* While no attempt is settled, the ledger of a task stands.
LEMMA LedgerStands ==
  ASSUME NEW t \in Tasks, NEW row, NEW A, Rows(A), NEW B, Rows(B), Ledger(t, row, A),
         NEW new, new.tokensUsed = row.tokensUsed, new.usageUnknown = row.usageUnknown,
         \/ new.current = row.current
            /\ \A n \in Numbers : n # row.current => B[<<t, n>>] = A[<<t, n>>]
         \/ row.current = 0
            /\ \A n \in Numbers : n # new.current => B[<<t, n>>] = A[<<t, n>>],
         new.status = "Absent" => row.status = "Absent",
         \A n \in Numbers : /\ A[<<t, n>>].settled <=> B[<<t, n>>].settled
                            /\ A[<<t, n>>].settled => B[<<t, n>>] = A[<<t, n>>]
  PROVE  Ledger(t, new, B)
<1>1. PaidRows(t, B) = PaidRows(t, A)
  BY DEF PaidRows
<1>2. Paid(t, B) = Paid(t, A)
  <2> DEFINE f == [n \in Numbers |-> A[<<t, n>>].known]
             g == [n \in Numbers |-> B[<<t, n>>].known]
  <2>1. IsFiniteSet(PaidRows(t, A)) /\ \A n \in PaidRows(t, A) : f[n] = g[n]
    BY PaidFinite DEF PaidRows
  <2> HIDE DEF f, g
  <2>2. SumFunctionOnSet(f, PaidRows(t, A)) = SumFunctionOnSet(g, PaidRows(t, A))
    BY <2>1, SumSame
  <2> QED BY <1>1, <2>2 DEF Paid, f, g
<1>3. (\E n \in PaidRows(t, B) : ~B[<<t, n>>].usageKnown)
        <=> \E n \in PaidRows(t, A) : ~A[<<t, n>>].usageKnown
  BY <1>1 DEF PaidRows
<1>4. \A n \in Numbers : n # new.current /\ B[<<t, n>>].state # "None" => B[<<t, n>>].settled
  BY DEF Ledger, Numbers
<1> QED BY <1>2, <1>3, <1>4 DEF Ledger

\* Settling its current attempt charges a task for it, once.
LEMMA LedgerCharged ==
  ASSUME NEW t \in Tasks, NEW row, NEW A, Rows(A), NEW B, Rows(B), Ledger(t, row, A),
         row.current \in Numbers, row.usageUnknown \in BOOLEAN,
         ~A[<<t, row.current>>].settled, B[<<t, row.current>>].settled,
         \A n \in Numbers : n # row.current => B[<<t, n>>] = A[<<t, n>>],
         NEW new, new.tokensUsed = row.tokensUsed + B[<<t, row.current>>].known,
         new.usageUnknown = (row.usageUnknown \/ ~B[<<t, row.current>>].usageKnown),
         new.status # "Absent"
  PROVE  Ledger(t, new, B)
<1> DEFINE c == row.current
           S == PaidRows(t, A)
           f == [n \in Numbers |-> A[<<t, n>>].known]
           g == [n \in Numbers |-> B[<<t, n>>].known]
<1>1. PaidRows(t, B) = S \cup {c} /\ c \notin S
  BY DEF PaidRows
<1>2. /\ IsFiniteSet(S) /\ \A n \in S : f[n] = g[n]
      /\ \A n \in S \cup {c} : g[n] \in Nat
      /\ g[c] = B[<<t, c>>].known
  BY PaidFinite DEF PaidRows
<1>3. Paid(t, A) = SumFunctionOnSet(f, S) /\ Paid(t, B) = SumFunctionOnSet(g, PaidRows(t, B))
  BY DEF Paid
<1> HIDE DEF f, g, S, c
<1>4. SumFunctionOnSet(g, S \cup {c}) = g[c] + SumFunctionOnSet(g, S)
  BY <1>1, <1>2, SumAdd
<1>5. SumFunctionOnSet(f, S) = SumFunctionOnSet(g, S) /\ SumFunctionOnSet(g, S) \in Nat
  BY <1>2, SumSame, SumRemove
<1>6. g[c] \in Nat
  BY <1>2
<1>7. new.tokensUsed = Paid(t, B)
  BY <1>1, <1>2, <1>3, <1>4, <1>5, <1>6 DEF Ledger, c
<1>8. new.usageUnknown <=> \E n \in PaidRows(t, B) : ~B[<<t, n>>].usageKnown
  <2>1. (\E n \in S : ~B[<<t, n>>].usageKnown) <=> \E n \in S : ~A[<<t, n>>].usageKnown
    BY <1>1 DEF S, PaidRows, c
  <2>2. row.usageUnknown <=> \E n \in S : ~A[<<t, n>>].usageKnown
    BY DEF Ledger, S
  <2> QED BY <1>1, <2>1, <2>2 DEF c
<1>9. \A n \in Numbers : n # new.current /\ B[<<t, n>>].state # "None" => B[<<t, n>>].settled
  BY DEF Ledger
<1> QED BY <1>7, <1>8, <1>9 DEF Ledger

\* settle charges the task for its attempt, whatever it decides.
LEMMA SettledPays ==
  ASSUME NEW t \in Tasks, NEW row, TaskTyped(row), NEW att, AttemptTyped(att), NEW kind
  PROVE  LET new == Settled(t, row, att, kind) IN
         /\ new.tokensUsed = row.tokensUsed + att.known
         /\ new.usageUnknown = (row.usageUnknown \/ ~att.usageKnown)
         /\ new.status # "Absent"
<1> DEFINE paid == Charged(row, att)
           new == Settled(t, row, att, kind)
           Pays(r) == /\ r.tokensUsed = row.tokensUsed + att.known
                      /\ r.usageUnknown = (row.usageUnknown \/ ~att.usageKnown)
<1>1. TaskTyped(paid)
  BY ChargedTyped
<1>2. Pays(paid)
  BY DEF Charged, TaskTyped, TaskRow
<1> HIDE DEF paid
<1>3. ASSUME NEW s PROVE Pays([paid EXCEPT !.status = s]) /\ [paid EXCEPT !.status = s].status = s
  BY <1>1, <1>2 DEF TaskTyped, TaskRow
<1>4. ASSUME NEW at PROVE Pays(Requeued(paid, at)) /\ Requeued(paid, at).status = "Pending"
  BY <1>1, <1>2 DEF TaskTyped, TaskRow, Requeued
<1>5. \/ \E s \in Terminal : new = [paid EXCEPT !.status = s]
      \/ \E at : new = Requeued(paid, at)
  <2>1. Outcome(row.intent) \in Terminal
    BY DEF Outcome, Terminal
  <2>2. CASE row.intent # "Run"
    <3>1. new = [paid EXCEPT !.status = Outcome(row.intent)]
      BY <2>2 DEF Settled, paid
    <3> QED BY <2>1, <3>1
  <2>3. CASE row.intent = "Run" /\ kind = "not_started"
    <3>1. new = Requeued(paid, now)
      BY <2>3 DEF Settled, paid
    <3> QED BY <3>1
  <2>4. CASE row.intent = "Run" /\ kind = "none"
    <3>1. new = [paid EXCEPT !.status = "Succeeded"]
      BY <2>4 DEF Settled, paid
    <3> QED BY <3>1 DEF Terminal
  <2>5. CASE row.intent = "Run" /\ kind \notin {"none", "not_started"}
    <3>1. new = IF Retryable(t, kind, paid)
                THEN Requeued(paid, now + Delay(t, Executions(t)))
                ELSE [paid EXCEPT !.status = "Failed"]
      BY <2>5 DEF Settled, paid
    <3> QED BY <3>1 DEF Terminal
  <2> QED BY <2>2, <2>3, <2>4, <2>5
<1> HIDE DEF new
<1>6. Pays(new) /\ new.status # "Absent"
  BY <1>3, <1>4, <1>5 DEF Terminal
<1> QED BY <1>6 DEF new

\* The sweep charges a task when it settles its attempt, and only then.
LEMMA SweptPays ==
  ASSUME TypeOK, NEW t \in Tasks, NEW unseen
  PROVE  LET new  == SweptTask(t, unseen)
             seen == Inspected(t, unseen)
         IN
         /\ Swept(t) /\ SettlesNow(seen) =>
              /\ new.tokensUsed = task[t].tokensUsed + seen.known
              /\ new.usageUnknown = (task[t].usageUnknown \/ ~seen.usageKnown)
              /\ new.status # "Absent"
         /\ ~(Swept(t) /\ SettlesNow(seen)) =>
              /\ new.tokensUsed = task[t].tokensUsed /\ new.usageUnknown = task[t].usageUnknown
              /\ new.status = "Absent" => task[t].status = "Absent"
<1> DEFINE row == [task[t] EXCEPT !.intent = SweptIntent(t)]
           seen == Inspected(t, unseen)
           new == SweptTask(t, unseen)
<1>1. TaskTyped(task[t]) /\ SweptIntent(t) \in Intents
  BY DEF TypeOK, TaskTyped, SweptIntent, TaskRow, Intents
<1>2. /\ TaskTyped(row) /\ row.status = task[t].status
      /\ row.tokensUsed = task[t].tokensUsed /\ row.usageUnknown = task[t].usageUnknown
      /\ \A s : LET end == [row EXCEPT !.status = s] IN
            /\ end.status = s
            /\ end.tokensUsed = row.tokensUsed /\ end.usageUnknown = row.usageUnknown
  BY <1>1 DEF TaskTyped, TaskRow
<1>3. Outcome(row.intent) # "Absent"
  BY DEF Outcome
<1> HIDE DEF row, seen
<1>4. new = IF ~Open(t) THEN task[t]
        ELSE IF row.status = "Pending"
          THEN IF row.intent = "Run" THEN row ELSE [row EXCEPT !.status = Outcome(row.intent)]
        ELSE IF ~HasCurrent(t) THEN row
        ELSE IF SettlesNow(seen) THEN Settled(t, row, seen, seen.kind)
        ELSE IF seen.state = "Running" THEN [row EXCEPT !.status = "Running"] ELSE row
  BY DEF SweptTask, row, seen
<1> HIDE DEF new
<1>5. CASE Swept(t) /\ SettlesNow(seen)
  <2>1. AttemptTyped(seen)
    BY <1>5, CurrentTyped, InspectedTyped DEF Swept, seen
  <2>2. new = Settled(t, row, seen, seen.kind)
    BY <1>2, <1>4, <1>5 DEF Swept
  <2> QED BY <1>2, <1>5, <2>1, <2>2, SettledPays DEF seen, new
<1>6. CASE ~(Swept(t) /\ SettlesNow(seen))
  <2>1. \/ new = task[t] \/ new = row
        \/ new = [row EXCEPT !.status = Outcome(row.intent)] \/ new = [row EXCEPT !.status = "Running"]
    BY <1>2, <1>4, <1>6 DEF Swept
  <2> DEFINE Uncharged(next) ==
        /\ next.tokensUsed = task[t].tokensUsed /\ next.usageUnknown = task[t].usageUnknown
        /\ next.status = "Absent" => task[t].status = "Absent"
  <2>2. Uncharged(task[t]) /\ Uncharged(row)
    BY <1>2
  <2>3. \A s : s # "Absent" => Uncharged([row EXCEPT !.status = s])
    BY <1>2
  <2> HIDE DEF Uncharged
  <2>4. Uncharged(new)
    BY <1>3, <2>1, <2>2, <2>3
  <2> QED BY <1>6, <2>4 DEF seen, new, Uncharged
<1> QED BY <1>5, <1>6

\* The verdict of a validation charges its task for the attempt it settles.
LEMMA VerdictLedger ==
  ASSUME History, Ledgers, NEW u \in Tasks, SettleValidated(u), Rows(attempt'), NEW t \in Tasks
  PROVE  Ledger(t, task'[t], attempt')
<1> DEFINE att == attempt[Checked(t)]
           kind == IF check[t].stage = "confirmed" THEN "none" ELSE "validation"
           new == Settled(t, task[t], att, kind)
           judged == Judged(att, task[t].intent, kind)
<1>1. /\ TypeOK /\ task \in [Tasks -> TaskRow] /\ attempt \in [Attempts -> AttemptRow]
      /\ TaskTyped(task[t]) /\ Ledger(t, task[t], attempt) /\ Rows(attempt)
  BY DEF History, Safe, TypeOK, TaskTyped, Ledgers, Rows
<1>2. CASE u # t \/ UNCHANGED <<task, attempt>>
  <2>1. task'[t] = task[t]
    BY <1>1, <1>2 DEF SettleValidated
  <2>2. \A n \in Numbers : attempt'[<<t, n>>] = attempt[<<t, n>>]
    BY <1>1, <1>2, CheckedTyped DEF SettleValidated, Attempts, Checked
  <2> QED BY <1>1, <2>1, <2>2, LedgerStands
<1>3. CASE u = t /\ ~UNCHANGED <<task, attempt>>
  <2>1. /\ VerdictApplies(t) /\ check[t].stage # "none"
        /\ task' = [task EXCEPT ![t] = new] /\ attempt' = [attempt EXCEPT ![Checked(t)] = judged]
    BY <1>3 DEF SettleValidated, VerdictRow
  <2>2. /\ Checked(t) \in Attempts /\ AttemptTyped(att) /\ check[t].number \in Numbers
        /\ task[t].current = check[t].number /\ ~att.settled
    BY <1>1, <2>1, CheckedTyped DEF VerdictApplies, Validates
  <2>3. task'[t] = new /\ attempt'[Checked(t)] = judged /\ Checked(t) = <<t, task[t].current>>
    BY <1>1, <2>1, <2>2 DEF Checked
  <2>4. \A n \in Numbers : n # task[t].current => attempt'[<<t, n>>] = attempt[<<t, n>>]
    BY <1>1, <2>1, <2>2, <2>3 DEF Attempts
  <2> HIDE DEF kind
  <2>5. judged.settled /\ judged.known = att.known /\ judged.usageKnown = att.usageKnown
    BY <2>2 DEF AttemptTyped, AttemptRow, Judged, SettledAttempt
  <2>6. /\ new.tokensUsed = task[t].tokensUsed + att.known
        /\ new.usageUnknown = (task[t].usageUnknown \/ ~att.usageKnown) /\ new.status # "Absent"
    BY <1>1, <2>2, SettledPays
  <2>7. attempt[<<t, task[t].current>>] = att /\ task[t].usageUnknown \in BOOLEAN
    BY <1>1, <2>3 DEF TaskRow
  <2> HIDE DEF new, att, judged
  <2> QED BY <1>1, <2>2, <2>3, <2>4, <2>5, <2>6, <2>7, LedgerCharged
<1> QED BY <1>2, <1>3

\* The sweep of the rows of one task.
LEMMA SweptLedger ==
  ASSUME TypeOK, RowStory, Ledgers, NEW unseen, NEW t \in Tasks, Rows(SweptAttempts(unseen))
  PROVE  Ledger(t, SweptTask(t, unseen), SweptAttempts(unseen))
<1> DEFINE att == attempt[Current(t)]
           seen == Inspected(t, unseen)
           new == SweptTask(t, unseen)
           B == SweptAttempts(unseen)
           c == task[t].current
<1> SUFFICES Ledger(t, new, B)
  OBVIOUS
<1>1. /\ TaskTyped(task[t]) /\ task[t].usageUnknown \in BOOLEAN
      /\ Ledger(t, task[t], attempt) /\ Rows(attempt) /\ Rows(B)
  BY DEF TypeOK, TaskTyped, TaskRow, Ledgers, Rows
<1>2. \A n \in Numbers : n # c => B[<<t, n>>] = attempt[<<t, n>>]
  BY DEF SweptAttempts, Attempts, Current
<1>3. CASE Swept(t) /\ SettlesNow(seen)
  <2>1. /\ Current(t) \in Attempts /\ att \in AttemptRow /\ c \in Numbers /\ seen \in AttemptRow
    BY <1>1, <1>3, CurrentTyped, InspectedTyped DEF AttemptTyped, TaskTyped, HasCurrent, Swept
  <2>2. B[<<t, c>>] = SettledAttempt(seen)
    BY <1>3, <2>1 DEF SweptAttempts, Current
  <2>3. /\ B[<<t, c>>].settled /\ B[<<t, c>>].known = seen.known
        /\ B[<<t, c>>].usageKnown = seen.usageKnown
    BY <2>1, <2>2 DEF SettledAttempt, AttemptRow
  <2>4. seen \in Seen(att)
    BY InspectedCases DEF Seen
  <2>5. ~attempt[<<t, c>>].settled
    <3>1. att.state \in {"Queued", "Launching", "Running"} \/ seen = att
      BY <2>4 DEF Seen
    <3> QED BY <1>3, <2>1, <3>1 DEF SettlesNow, RowStory, Storied, Current
  <2>6. /\ new.tokensUsed = task[t].tokensUsed + seen.known
        /\ new.usageUnknown = (task[t].usageUnknown \/ ~seen.usageKnown)
        /\ new.status # "Absent"
    BY <1>3, SweptPays
  <2> HIDE DEF new, B, seen
  <2> QED BY <1>1, <1>2, <2>1, <2>3, <2>5, <2>6, LedgerCharged
<1>4. CASE ~(Swept(t) /\ SettlesNow(seen))
  <2>1. /\ new.tokensUsed = task[t].tokensUsed /\ new.usageUnknown = task[t].usageUnknown
        /\ new.status = "Absent" => task[t].status = "Absent"
    BY <1>4, SweptPays
  <2>2. new.current = c
    <3>1. ASSUME SettlesNow(seen), HasCurrent(t), Holds(task[t]) PROVE FALSE
      BY <1>4, <3>1 DEF Swept, Open, Present, Holds, Terminal
    <3> HIDE DEF new, seen
    <3> QED BY <3>1, SweptCases DEF new, seen
  <2>3. ASSUME NEW n \in Numbers
        PROVE  /\ attempt[<<t, n>>].settled <=> B[<<t, n>>].settled
               /\ attempt[<<t, n>>].settled => B[<<t, n>>] = attempt[<<t, n>>]
    <3>1. CASE ~(Swept(t) /\ n = c)
      BY <2>3, <3>1 DEF SweptAttempts, Attempts, Current
    <3>2. CASE Swept(t) /\ n = c
      <4>1. Current(t) \in Attempts /\ Storied(att) /\ att \in AttemptRow
        BY <3>2, CurrentTyped DEF Swept, RowStory, AttemptTyped
      <4>2. B[<<t, n>>] = seen /\ attempt[<<t, n>>] = att
        BY <1>4, <3>2, <4>1 DEF SweptAttempts, Current
      <4>3. seen \in Seen(att)
        BY InspectedCases DEF Seen
      <4> HIDE DEF B, seen, att
      <4>4. seen # att => Storied(seen) /\ ~att.settled
                          /\ (seen = Lost(att) \/ \E k : seen = Unstarted(att, k))
        BY <4>1, <4>3, SeenStory DEF Seen, Storied
      <4>5. ~att.settled => ~Lost(att).settled /\ \A k : ~Unstarted(att, k).settled
        BY <4>1 DEF Lost, Unstarted, AttemptRow
      <4> QED BY <4>2, <4>4, <4>5
    <3> QED BY <3>1, <3>2
  <2> HIDE DEF new, B, seen
  <2> QED BY <1>1, <1>2, <2>1, <2>2, <2>3, LedgerStands
<1> QED BY <1>3, <1>4

LEMMA TickLedger ==
  ASSUME History, Seated, Ledgers, Tick, NEW t \in Tasks, Rows(attempt')
  PROVE  Ledger(t, task'[t], attempt')
<1>1. PICK unseen \in SUBSET Unreadable, place \in [Tasks -> Workers \cup {0}] :
        Admit([u \in Tasks |-> SweptTask(u, unseen)], SweptAttempts(unseen), place)
  BY DEF Tick
<1> DEFINE row == SweptTask(t, unseen)
           A == SweptAttempts(unseen)
           N == NextNumber(t)
<1>2. /\ TypeOK /\ RowStory /\ RowsInOrder /\ SeatedRow(task[t]) /\ TaskTyped(row)
      /\ attempt \in [Attempts -> AttemptRow]
  BY SweptTaskTyped DEF History, Safe, Seated, TypeOK
<1>3. Rows(A)
  BY <1>2, SweptAttemptTyped DEF Rows, AttemptTyped
<1>4. Ledger(t, row, A)
  BY <1>2, <1>3, SweptLedger
<1>5. CASE place[t] = 0
  <2>1. task'[t] = row /\ \A n \in Numbers : attempt'[<<t, n>>] = A[<<t, n>>]
    BY <1>1, <1>5 DEF Admit, Attempts
  <2> HIDE DEF row, A
  <2> QED BY <1>3, <1>4, <2>1, LedgerStands
<1>6. CASE place[t] # 0
  <2>1. task'[t] = [row EXCEPT !.status = "Scheduled", !.current = N]
    BY <1>1, <1>6 DEF Admit
  <2>2. \A n \in Numbers : n # N => attempt'[<<t, n>>] = A[<<t, n>>]
    BY <1>1, <1>6 DEF Admit, Attempts
  <2>3. row.status = "Pending" /\ N <= MaxRows
    BY <1>1, <1>6 DEF Admit, IsSchedule, Placeable, Ready
  <2>4. N \in Numbers
    BY <1>2, <2>3, NextNumberTyped
  <2>5. attempt'[<<t, N>>] = Queued(place[t])
    BY <1>1, <1>6, <2>4 DEF Admit, Attempts
  <2>6. ~attempt'[<<t, N>>].settled
    BY <2>5 DEF Queued, NoAttempt
  <2>7. /\ task'[t].current = N /\ task'[t].status = "Scheduled"
        /\ task'[t].tokensUsed = row.tokensUsed /\ task'[t].usageUnknown = row.usageUnknown
    BY <1>2, <2>1 DEF TaskTyped, TaskRow
  <2>8. row.current = 0
    <3> HIDE DEF row
    <3> QED BY <1>2, <2>3, SweptCases
       DEF row, SeatedRow, EndedAs, SentBack, Holds, Terminal, Open, Present
  <2>9. ~A[<<t, N>>].settled
    <3>1. attempt[<<t, N>>].state = "None"
      BY <1>2, <2>4, NextRow
    <3>2. <<t, N>> \in Attempts /\ Storied(attempt[<<t, N>>])
      BY <1>2, <2>4 DEF Attempts, RowStory
    <3>3. ~attempt[<<t, N>>].settled
      BY <3>1, <3>2 DEF Storied
    <3>4. A[<<t, N>>] = attempt[<<t, N>>] \/ A[<<t, N>>] = attempt[<<t, N>>]
      <4>1. CASE ~(Swept(t) /\ <<t, N>> = Current(t))
        BY <3>2, <4>1 DEF SweptAttempts
      <4>2. CASE Swept(t) /\ <<t, N>> = Current(t)
        <5>1. A[<<t, N>>] = LET seen == Inspected(t, unseen)
                            IN IF SettlesNow(seen) THEN SettledAttempt(seen) ELSE seen
          BY <3>2, <4>2 DEF SweptAttempts
        <5>2. Inspected(t, unseen) \in Seen(attempt[<<t, N>>])
          BY <4>2, InspectedCases DEF Seen
        <5>3. Inspected(t, unseen) = attempt[<<t, N>>]
          BY <3>1, <5>2 DEF Seen
        <5> QED BY <3>1, <5>1, <5>3 DEF SettlesNow
      <4> QED BY <4>1, <4>2
    <3> QED BY <3>3, <3>4
  <2> HIDE DEF row, A, N
  <2> QED BY <1>3, <1>4, <2>2, <2>4, <2>6, <2>7, <2>8, <2>9, LedgerStands
<1> QED BY <1>5, <1>6

\* The steps that are neither a tick nor a verdict charge nothing.
SameCharges(old, new) ==
  /\ new.tokensUsed = old.tokensUsed /\ new.usageUnknown = old.usageUnknown
  /\ new.status = "Absent" => old.status = "Absent"

LEMMA OtherCharges ==
  ASSUME TypeOK, Ledgers, [Next]_vars, ~Tick, \A u \in Tasks : ~SettleValidated(u),
         NEW t \in Tasks
  PROVE  SameCharges(task[t], task'[t])
<1>1. Ledger(t, task[t], attempt) /\ task \in [Tasks -> TaskRow]
  BY DEF TypeOK, Ledgers
<1>2. CASE UNCHANGED task
  BY <1>2 DEF SameCharges
<1>3. ASSUME NEW k \in Keys, NEW u \in Tasks, Submit(k, u), t = u
      PROVE  SameCharges(task[t], task'[t])
  <2>1. task[t].tokensUsed = 0 /\ task[t].usageUnknown = FALSE
    BY <1>1, <1>3 DEF Ledger, Submit, Present, TaskRow
  <2>2. task'[t].tokensUsed = 0 /\ task'[t].usageUnknown = FALSE /\ task'[t].status = "Pending"
    BY <1>1, <1>3 DEF Submit, NoTask
  <2> QED
    BY <2>1, <2>2 DEF SameCharges
<1>4. ASSUME NEW k \in Keys, NEW u \in Tasks, Cancel(k, u), t = u
      PROVE  SameCharges(task[t], task'[t])
  <2>1. task'[t] = CancelledRow(task[t]) /\ task[t] \in TaskRow /\ task[t].status # "Absent"
    BY <1>1, <1>4 DEF Cancel, Present
  <2> QED
    BY <2>1 DEF CancelledRow, TaskRow, SameCharges
<1>5. CASE \E k \in Keys, u \in Tasks : u # t /\ (Submit(k, u) \/ Cancel(k, u))
  BY <1>1, <1>5 DEF Submit, Cancel, SameCharges
<1>6. CASE \/ \E u \in Tasks : Prevalidate(u) \/ Recheck(u) \/ ValidationFault(u)
           \/ ManagerCrash \/ ClockTick
           \/ \E w \in Workers : Register(w) \/ WorkerTick(w)
           \/ \E b \in Attempts : Resolve(b) \/ ArtifactDamaged(b)
           \/ \E p \in Procs : RunnerStep(p) \/ Heartbeat(p) \/ RunnerCrash(p)
  BY <1>2, <1>6
     DEF Prevalidate, Recheck, ValidationFault, ManagerCrash, ClockTick, Register,
         WorkerTick, Resolve, ArtifactDamaged, RunnerStep, Claim, CheckpointStop, Proceed,
         Announce, StartWarmup, StartRequest, Answer, RequestFails, WorkFails, Publish, Finish,
         Heartbeat, RunnerCrash, RunnerOnly
<1> QED
  BY <1>2, <1>3, <1>4, <1>5, <1>6 DEF Next, Validate, vars

\* No other step settles an attempt or charges a task.
LEMMA OtherLedger ==
  ASSUME History, Seated, Ledgers, [Next]_vars, ~Tick, \A u \in Tasks : ~SettleValidated(u),
         NEW t \in Tasks, Rows(attempt')
  PROVE  Ledger(t, task'[t], attempt')
<1>1. /\ TypeOK /\ RowStory /\ Ledger(t, task[t], attempt) /\ Rows(attempt)
      /\ task \in [Tasks -> TaskRow]
  BY DEF History, Safe, TypeOK, Ledgers, Rows
<1>2. /\ task'[t].current = task[t].current
      /\ \A n \in Numbers : n # task[t].current => attempt'[<<t, n>>] = attempt[<<t, n>>]
  BY OtherRows
<1>3. SameCharges(task[t], task'[t])
  BY <1>1, OtherCharges
<1>4. ASSUME NEW n \in Numbers
      PROVE  /\ attempt[<<t, n>>].settled <=> attempt'[<<t, n>>].settled
             /\ attempt[<<t, n>>].settled => attempt'[<<t, n>>] = attempt[<<t, n>>]
  <2> DEFINE a == <<t, n>>
  <2>1. a \in Attempts /\ a[1] = t /\ attempt[a] \in AttemptRow /\ Storied(attempt[a])
    BY <1>1 DEF Attempts, RowStory, Rows
  <2>2. \/ attempt'[a] = attempt[a]
        \/ ResolvedTo(a) \/ ClaimedTo(a) \/ ReportedTo(a)
    <3>1. CASE \/ \E k \in Keys, u \in Tasks : Submit(k, u) \/ Cancel(k, u)
               \/ \E u \in Tasks : Prevalidate(u) \/ Recheck(u) \/ ValidationFault(u)
               \/ ManagerCrash \/ ClockTick
               \/ \E w \in Workers : Register(w) \/ WorkerTick(w)
               \/ \E b \in Attempts : ArtifactDamaged(b)
               \/ UNCHANGED vars
               \/ \E p \in Procs : \/ CheckpointStop(p) \/ Proceed(p) \/ StartWarmup(p)
                                   \/ StartRequest(p)
                                  \/ Answer(p) \/ RequestFails(p) \/ WorkFails(p)
                                  \/ Publish(p) \/ RunnerCrash(p)
      BY <3>1
         DEF Submit, Cancel, Prevalidate, Recheck, ValidationFault, ManagerCrash, ClockTick,
             Register, WorkerTick, ArtifactDamaged, CheckpointStop, Proceed, StartWarmup,
             StartRequest, Answer, RequestFails, WorkFails, Publish, RunnerCrash, vars
    <3>2. ASSUME NEW b \in Attempts, Resolve(b)
          PROVE  attempt'[a] = attempt[a] \/ ResolvedTo(a)
      BY <1>1, <2>1, <3>2 DEF Resolve, ResolvedTo, TypeOK
    <3> QED
      BY <1>1, <2>1, <3>1, <3>2, ClaimRows, ReportRows DEF Next, Validate, RunnerStep
  <2>3. CASE ResolvedTo(a)
    BY <2>1, <2>3 DEF ResolvedTo, Resolved, Storied, AttemptRow
  <2>4. CASE ClaimedTo(a)
    BY <2>1, <2>4 DEF ClaimedTo, ClaimedBy, Refused, Storied, AttemptRow
  <2>5. CASE ReportedTo(a)
    <3>1. PICK p \in Procs : /\ a = Of(p) /\ attempt[a].state \in {"Launching", "Running", "Unknown"}
                             /\ \E kind, total, state : attempt'[a] = Observed(p, state, kind, total)
      BY <2>5 DEF ReportedTo, Accepted, Moves
    <3>2. attempt'[a].settled = attempt[a].settled
      BY <2>1, <3>1 DEF Observed, AttemptRow
    <3> QED BY <2>1, <3>1, <3>2 DEF Storied
  <2> QED BY <2>2, <2>3, <2>4, <2>5
<1> QED BY <1>1, <1>2, <1>3, <1>4, LedgerStands DEF SameCharges

LEMMA NextLedgers == History /\ Seated /\ Ledgers /\ [Next]_vars => Ledgers'
<1> SUFFICES ASSUME History, Seated, Ledgers, [Next]_vars, NEW t \in Tasks
             PROVE  Ledger(t, task'[t], attempt')
  BY DEF Ledgers, Ledger, Paid, PaidRows
<1>1. Rows(attempt')
  BY NextTyped DEF History, Safe, TypeOK, Rows
<1> QED BY <1>1, TickLedger, VerdictLedger, OtherLedger

Inv == History /\ Seated /\ Ledgers

LEMMA InitLedgers == Init => Ledgers
<1> SUFFICES ASSUME Init, NEW t \in Tasks PROVE Ledger(t, task[t], attempt)
  BY DEF Ledgers
<1>1. \A n \in Numbers : attempt[<<t, n>>].state = "None" /\ ~attempt[<<t, n>>].settled
  BY DEF Init, NoAttempt, Attempts
<1>2. PaidRows(t, attempt) = {}
  BY <1>1 DEF PaidRows
<1>3. Paid(t, attempt) = 0
  BY <1>2, SumEmpty DEF Paid
<1> QED
  BY <1>1, <1>2, <1>3 DEF Init, NoTask, Ledger

LEMMA InitUsage == Init => Inv
<1>1. Init => Seated
  BY DEF Init, Seated, SeatedRow, NoTask, Holds
<1> QED
  BY <1>1, InitHistory, InitLedgers DEF Inv

LEMMA NextUsage == Inv /\ [Next]_vars => Inv'
  BY NextHistory, NextSeated, NextLedgers DEF Inv, History, Safe

\* However often a validation is repeated, the manager dies or the task is
\* retried, the task row counts each settled attempt once, and admits that it
\* does not know its usage exactly when one of them does not (settle).
THEOREM UsageConserved == Spec => []UsageConservation
<1>1. Inv => UsageConservation
  <2> SUFFICES ASSUME Inv, NEW t \in Tasks
               PROVE  /\ task[t].tokensUsed = Used(t, SettledRows(t))
                      /\ task[t].usageUnknown <=>
                           \E n \in SettledRows(t) : ~attempt[<<t, n>>].usageKnown
    BY DEF UsageConservation, Inv, History, Safe
  <2>1. Ledger(t, task[t], attempt)
    BY DEF Inv, Ledgers
  <2> QED
    BY <2>1 DEF Ledger, Paid, PaidRows, Used, SettledRows
<1> QED
  BY <1>1, InitUsage, NextUsage, PTL DEF Spec

----------------------------------------------------------------------------
\* What a runner may spend

\* The figures a runner read at its claim stay those of its task while it runs,
\* and a request is under way only if it was within them.
Funded(c, t, row) ==
  /\ c.spent = row.tokensUsed /\ c.blind = row.usageUnknown
  /\ c.pc = "requesting" /\ SpecOf[t].maxTokens > 0 =>
       ~c.blind /\ c.spent + c.tokens < SpecOf[t].maxTokens

Figures == \A p \in Procs : Executing(p) => Funded(proc[p], p[1], task[p[1]])

\* A task is not charged while one of its runners executes.
LEMMA HeldCharges ==
  ASSUME Inv, [Next]_vars, NEW p \in Procs, Executing(p)
  PROVE  SameCharges(task[p[1]], task'[p[1]])
<1> DEFINE t == p[1]
           att == attempt[Current(t)]
<1>1. /\ TypeOK /\ Ledgers /\ task \in [Tasks -> TaskRow] /\ t \in Tasks
      /\ att.state \in {"Launching", "Running", "Unknown"} /\ Current(t) \in Attempts
  <2>1. TypeOK /\ SlotsMatchTasks /\ ExecutionHoldsSlot /\ Ledgers /\ t \in Tasks
    BY DEF Inv, History, Safe, Procs
  <2>2. Of(p) \in Attempts
    BY <2>1, ProcTyped
  <2> QED
    BY <2>1, <2>2, ExecutionTask DEF TypeOK
<1>2. CASE Tick
  <2>1. PICK unseen \in SUBSET Unreadable, place \in [Tasks -> Workers \cup {0}] :
          Admit([u \in Tasks |-> SweptTask(u, unseen)], SweptAttempts(unseen), place)
    BY <1>2 DEF Tick
  <2> DEFINE row == SweptTask(t, unseen)
             seen == Inspected(t, unseen)
  <2>2. ~SettlesNow(seen)
    <3>1. seen \in Seen(att) /\ att \in AttemptRow
      BY <1>1, InspectedCases DEF Seen, TypeOK
    <3>2. Lost(att).state = "Unknown"
      BY <3>1 DEF Lost, AttemptRow
    <3> HIDE DEF seen, att
    <3> QED
      BY <1>1, <3>1, <3>2 DEF Seen, SettlesNow
  <2>3. SameCharges(task[t], row) /\ TaskTyped(row)
    <3> HIDE DEF row, seen
    <3> QED
      BY <1>1, <2>2, SweptPays, SweptTaskTyped DEF SameCharges, row, seen
  <2>4. task'[t] \in {row, [row EXCEPT !.status = "Scheduled", !.current = NextNumber(t)]}
    BY <1>1, <2>1 DEF Admit
  <2> HIDE DEF row
  <2> QED
    BY <2>3, <2>4 DEF SameCharges, TaskTyped, TaskRow
<1>3. ASSUME NEW u \in Tasks, SettleValidated(u) PROVE SameCharges(task[t], task'[t])
  <2>1. CASE task'[t] = task[t]
    BY <2>1 DEF SameCharges
  <2>2. CASE task'[t] # task[t]
    <3>1. VerdictApplies(u) /\ u = t
      BY <1>1, <1>3, <2>2 DEF SettleValidated
    <3> QED
      BY <1>1, <3>1 DEF VerdictApplies, Validates, Checked, Current
  <2> QED
    BY <2>1, <2>2
<1> QED
  BY <1>1, <1>2, <1>3, OtherCharges

\* A runner that executes has just claimed its attempt, or keeps its figures.
LEMMA FundsKept ==
  ASSUME TypeOK, [Next]_vars, NEW p \in Procs, Executing(p)'
  PROVE  \/ Claim(p) /\ proc'[p] = Claimant(p)
         \/ /\ Executing(p)
            /\ proc'[p].spent = proc[p].spent /\ proc'[p].blind = proc[p].blind
            /\ proc'[p].pc = "requesting" =>
                 /\ proc'[p].tokens = proc[p].tokens
                 /\ proc[p].pc = "requesting" \/ Affordable(p)
<1>1. proc \in [Procs -> ProcRow] /\ proc[p] \in ProcRow
  BY DEF TypeOK
<1>2. CASE UNCHANGED proc
  BY <1>2 DEF Executing
<1>3. CASE \/ \E k \in Keys, t \in Tasks : Submit(k, t) \/ Cancel(k, t)
           \/ Tick
           \/ \E t \in Tasks : Validate(t) \/ ValidationFault(t)
           \/ ManagerCrash \/ ClockTick
           \/ \E w \in Workers : Register(w)
           \/ \E b \in Attempts : Resolve(b) \/ ArtifactDamaged(b)
  BY <1>2, <1>3
     DEF Submit, Cancel, Tick, Validate, Prevalidate, Recheck, SettleValidated,
         ValidationFault, ManagerCrash, ClockTick, Register, Resolve, ArtifactDamaged
<1>4. ASSUME NEW w \in Workers, WorkerTick(w)
      PROVE  proc'[p] = proc[p] /\ Executing(p)
  <2>1. PICK chosen \in SUBSET Procs :
          proc' = [q \in Procs |-> IF q \in chosen THEN Idle("started") ELSE proc[q]]
    BY <1>4 DEF WorkerTick
  <2> QED
    BY <2>1 DEF Executing, Idle
<1>5. ASSUME NEW q \in Procs, RunnerStep(q) \/ Heartbeat(q) \/ RunnerCrash(q), q # p
      PROVE  proc'[p] = proc[p] /\ Executing(p)
  <2>1. \E c : proc' = [proc EXCEPT ![q] = c]
    BY <1>5
       DEF RunnerStep, Claim, CheckpointStop, Proceed, Announce, StartWarmup, StartRequest,
           Answer,
           RequestFails, WorkFails, Publish, Finish, Heartbeat, RunnerCrash, Report, Exit,
           Conclude, RefusedInWarmup
  <2> QED
    BY <1>1, <1>5, <2>1 DEF Executing
<1>6. proc' # [proc EXCEPT ![p] = Idle("exited")]
  BY <1>1 DEF Idle, Executing
<1>7. CASE Claim(p)
  BY <1>1, <1>6, <1>7 DEF Claim, Exit, Executing
<1>12. CASE Heartbeat(p) /\ RefusedInWarmup(p)
  <2>1. PICK c \in ProcRow :
          /\ proc' = [proc EXCEPT ![p] = c] /\ c.pc = "concluding"
          /\ c.spent = proc[p].spent /\ c.blind = proc[p].blind
    BY <1>12, RefusalCases
  <2> QED
    BY <1>1, <1>12, <2>1, RefusalCases
<1>8. CASE Announce(p) \/ (Heartbeat(p) /\ ~RefusedInWarmup(p)) \/ Finish(p)
  <2>1. Executing(p)
    BY <1>8 DEF Announce, Heartbeat, Finish, Executing
  <2>2. proc' = [proc EXCEPT ![p] = Reported(proc[p], "working")]
        \/ proc' = [proc EXCEPT ![p] = Reported(proc[p], proc[p].pc)]
    BY <1>6, <1>8 DEF Announce, Heartbeat, Finish, Report, Exit
  <2>3. PICK next : proc'[p] = Reported(proc[p], next) /\ next \in {"working", proc[p].pc}
    BY <1>1, <2>2
  <2>4. /\ proc'[p].spent = proc[p].spent /\ proc'[p].tokens = proc[p].tokens
        /\ proc[p].pc = "requesting" \/ proc'[p].pc # "requesting"
    BY <1>1, <2>3 DEF Reported, ProcRow
  <2>5. proc'[p].blind = proc[p].blind
    BY <1>1, <2>3 DEF Reported, ProcRow
  <2> QED
    BY <2>1, <2>4, <2>5
<1>9. CASE \/ CheckpointStop(p) \/ Proceed(p) \/ Answer(p) \/ RequestFails(p)
           \/ WorkFails(p) \/ Publish(p)
  <2>1. Executing(p)
    BY <1>9 DEF CheckpointStop, Proceed, Answer, RequestFails, WorkFails, Publish, Executing
  <2>2. /\ proc'[p].spent = proc[p].spent /\ proc'[p].blind = proc[p].blind
        /\ proc'[p].pc # "requesting"
    <3> DEFINE c == proc[p]
    <3>1. \/ \E kind : proc' = [proc EXCEPT ![p].pc = "concluding", ![p].outcome = kind]
          \/ proc' = [proc EXCEPT ![p].pc = "cleared"]
          \/ \E n : proc' = [proc EXCEPT ![p].pc = "working", ![p].tokens = @ + n]
          \/ proc' = [proc EXCEPT ![p].pc = "working", ![p].usageKnown = FALSE]
          \/ \E kind : proc' = [proc EXCEPT ![p] = Interrupted(proc[p], kind)]
      BY <1>9 DEF CheckpointStop, Proceed, Answer, RequestFails, WorkFails, Publish, Conclude
    <3>2. \/ \E kind : proc'[p] = [c EXCEPT !.pc = "concluding", !.outcome = kind]
          \/ proc'[p] = [c EXCEPT !.pc = "cleared"]
          \/ \E n : proc'[p] = [c EXCEPT !.pc = "working", !.tokens = @ + n]
          \/ proc'[p] = [c EXCEPT !.pc = "working", !.usageKnown = FALSE]
          \/ \E kind : proc'[p] = Interrupted(c, kind)
      BY <1>1, <3>1
    <3> HIDE DEF c
    <3>3. c \in ProcRow
      BY <1>1 DEF c
    <3>4. proc'[p].spent = c.spent /\ proc'[p].pc # "requesting"
      BY <3>2, <3>3 DEF Interrupted, ProcRow
    <3>5. proc'[p].blind = c.blind
      BY <3>2, <3>3 DEF Interrupted, ProcRow
    <3> QED
      BY <3>4, <3>5 DEF c
  <2> QED
    BY <2>1, <2>2
<1>10. CASE StartRequest(p)
  BY <1>1, <1>10 DEF StartRequest, Conclude, ProcRow, Executing
<1>13. CASE StartWarmup(p)
  BY <1>1, <1>13 DEF StartWarmup, Conclude, ProcRow, Executing
<1>11. CASE RunnerCrash(p)
  BY <1>6, <1>11 DEF RunnerCrash, Exit
<1> QED
  BY <1>2, <1>3, <1>4, <1>5, <1>7, <1>8, <1>9, <1>10, <1>11, <1>12, <1>13
     DEF Next, RunnerStep, vars

LEMMA NextFigures == Inv /\ Figures /\ [Next]_vars => Figures'
<1> SUFFICES ASSUME Inv, Figures, [Next]_vars, NEW p \in Procs, Executing(p)'
             PROVE  Funded(proc'[p], p[1], task'[p[1]])
  BY DEF Figures, Executing, Funded
<1>1. TypeOK /\ p[1] \in Tasks
  BY DEF Inv, History, Safe, Procs
<1>2. CASE Claim(p) /\ proc'[p] = Claimant(p)
  <2>1. task' = task
    BY <1>2 DEF Claim
  <2>2. /\ Claimant(p).spent = task[p[1]].tokensUsed
        /\ Claimant(p).blind = task[p[1]].usageUnknown /\ Claimant(p).pc = "claimed"
    BY DEF Claimant, Idle
  <2> QED
    BY <1>2, <2>1, <2>2 DEF Funded
<1>3. CASE ~(Claim(p) /\ proc'[p] = Claimant(p))
  <2>1. /\ Executing(p)
        /\ proc'[p].spent = proc[p].spent /\ proc'[p].blind = proc[p].blind
        /\ proc'[p].pc = "requesting" =>
             /\ proc'[p].tokens = proc[p].tokens
             /\ proc[p].pc = "requesting" \/ Affordable(p)
    BY <1>1, <1>3, FundsKept
  <2>2. Funded(proc[p], p[1], task[p[1]]) /\ SameCharges(task[p[1]], task'[p[1]])
    BY <2>1, HeldCharges DEF Figures
  <2> QED
    BY <2>1, <2>2 DEF Funded, SameCharges, Affordable
<1> QED
  BY <1>2, <1>3

\* The figures a runner read at its claim cannot go stale: a provider call is
\* made only while the task's attempts together are known to have used less
\* than max_tokens (Controller.request, settle).
THEOREM RequestsAffordable == Spec => []RequestWithinBudget
<1>1. Init => Figures
  BY DEF Init, Figures, Executing, Idle
<1>2. Inv /\ Figures => RequestWithinBudget
  <2> SUFFICES ASSUME Inv, Figures, NEW p \in Procs, proc[p].pc = "requesting",
                      SpecOf[p[1]].maxTokens > 0
               PROVE  LET others == {n \in Numbers : n # p[2] /\ attempt[<<p[1], n>>].state # "None"}
                      IN /\ Used(p[1], others) + proc[p].tokens < SpecOf[p[1]].maxTokens
                         /\ \A n \in others : attempt[<<p[1], n>>].usageKnown
    BY DEF RequestWithinBudget
  <2> DEFINE t == p[1]
             others == {n \in Numbers : n # p[2] /\ attempt[<<t, n>>].state # "None"}
  <2>1. /\ TypeOK /\ SlotsMatchTasks /\ ExecutionHoldsSlot /\ RowStory /\ t \in Tasks
        /\ Executing(p) /\ p[2] \in Numbers
    BY DEF Inv, History, Safe, Procs, Executing
  <2>2. task[t].current = p[2] /\ attempt[<<t, p[2]>>].state \in {"Launching", "Running", "Unknown"}
    BY <2>1, ExecutionTask DEF Of, Current
  <2>3. \A n \in Numbers : <<t, n>> \in Attempts /\ Storied(attempt[<<t, n>>])
    BY <2>1 DEF RowStory, Attempts
  <2>4. Ledger(t, task[t], attempt) /\ Funded(proc[p], t, task[t])
    BY <2>1 DEF Inv, Ledgers, Figures
  <2>5. others = PaidRows(t, attempt)
    BY <2>2, <2>3, <2>4 DEF Ledger, PaidRows, Storied
  <2>6. Used(t, others) = task[t].tokensUsed
    BY <2>4, <2>5 DEF Ledger, Paid, Used
  <2>7. \A n \in others : attempt[<<t, n>>].usageKnown
    BY <2>4, <2>5 DEF Ledger, Funded
  <2> QED
    BY <2>4, <2>6, <2>7 DEF Funded
<1> QED
  BY <1>1, <1>2, InitUsage, NextUsage, NextFigures, PTL DEF Spec
=============================================================================
