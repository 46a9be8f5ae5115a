---------------------------- MODULE SessionProofs ----------------------------
(***************************************************************************)
(* For any jobs, dependencies, sessions and callers: a run holds its       *)
(* session alone, a job runs only when it was given the results of all its *)
(* dependencies, a run given up as unknown is the last of its job, and a   *)
(* command of a warm-up is not sent while an earlier sending is in doubt.  *)
(* Together these make the lifecycle implement SessionContract.            *)
(*                                                                         *)
(* The invariant has two halves that meet in what is recorded of a session *)
(* and in its state: a run holds a session with both commands recorded,    *)
(* which is "running", or "ready" once a late warm-up has written that;    *)
(* while commands are still to be sent the session is "warming", and at    *)
(* most one caller is inside its warm-up.  A step is either a step of a    *)
(* caller (CallerStep, WarmStep, LateReady) or one of the jobs.            *)
(***************************************************************************)
EXTENDS SessionRefinement, SequenceTheorems, TLAPS

SessionRow == [state : {"absent", "new", "warming", "ready", "running", "completed", "failed",
                        "recovering"},
               step : Commands \cup {"none"},
               status : [Commands -> {"pending", "running", "succeeded"}]]
JobRow == [state : {"absent", "pending", "ready", "running", "succeeded", "failed",
                    "cancelled", "needs_operator"},
           session : Sessions \cup {None}, attempts : 0..MaxAttempts]
RunStates == {"none", "running", "succeeded", "failed", "cancelled", "unknown"}
Todos == {<<>>, <<"rpa">>, <<"compact">>, <<"compact", "rpa">>}
CallerRow == [pc : {"idle", "claim", "step", "executing", "returned", "start", "retry", "adopt"},
              session : Sessions \cup {None}, job : Jobs \cup {None}, todo : Todos,
              limited : BOOLEAN]

Waits(j) == job[j].state \in {"absent", "pending"}

\* a session with both commands recorded
Recorded(row) == \A c \in Commands : row.status[c] = "succeeded"

\* a caller that still has commands of a warm-up to send or to record
Inside(row) == row.pc \in {"step", "executing", "returned"} /\ row.todo # <<>>

\* What is left to do of a warm-up are the commands that are not recorded.
Covers(row, todo) ==
  LET done(c) == row.status[c] = "succeeded" IN
  \/ todo = <<"compact", "rpa">> /\ ~done("compact") /\ ~done("rpa")
  \/ todo = <<"rpa">> /\ done("compact") /\ ~done("rpa")
  \/ todo = <<"compact">> /\ ~done("compact") /\ done("rpa")
  \/ todo = <<>> /\ done("compact") /\ done("rpa")

\* a caller's own variables, by where it is
Placed(row) ==
  /\ row \in CallerRow
  /\ row.pc # "idle" => row.session \in Sessions
  /\ row.pc = "start" => row.job \in Jobs
  /\ row.pc \in {"executing", "returned"} => row.todo # <<>>

Types ==
  /\ session \in [Sessions -> SessionRow] /\ job \in [Jobs -> JobRow]
  /\ run \in [Jobs -> [1..MaxAttempts -> RunStates]]
  /\ transfer = [i \in Jobs |-> [j \in Jobs |-> transfer[i][j]]]
  /\ caller = [p \in Callers |-> caller[p]] /\ \A p \in Callers : Placed(caller[p])

\* the states of a session's row while a run holds it
Held == {"running", "ready"}

\* A run is its job's last, and holds the session alone.
RunsHold ==
  \A j \in Jobs, n \in 1..MaxAttempts : run[j][n] = "running" =>
    /\ job[j].state = "running" /\ job[j].attempts = n
    /\ job[j].session \in Sessions
    /\ session[job[j].session].state \in Held /\ Prepared(job[j].session)
    /\ \A k \in Jobs, m \in 1..MaxAttempts :
         run[k][m] = "running" /\ job[k].session = job[j].session => k = j /\ m = n

\* A session of a job's own exists only once the job has been released; one
\* that does not exist has nothing recorded.
OwnSession == /\ \A j \in Jobs : session[j].state # "absent" => ~Waits(j)
              /\ \A s \in Sessions : session[s].state = "absent" => ~Prepared(s)

\* what j was given of i is the result of the run of i that succeeded
Given(i, j) ==
  /\ job[i].state = "succeeded" /\ transfer[i][j].session = job[i].session
  /\ transfer[i][j].attempt \in 1..MaxAttempts /\ run[i][transfer[i][j].attempt] = "succeeded"

\* A job that waits was given nothing; one that does not, all it depends on.
ReleasedGiven ==
  \A j \in Jobs :
    IF Waits(j) THEN \A i \in Jobs : transfer[i][j] = Nothing
    ELSE /\ job[j].session \in Sessions
         /\ \A i \in Jobs : transfer[i][j] = Nothing \/ i \in Range(Deps[j])
         /\ \A i \in Range(Deps[j]) : Given(i, j)

\* A job has succeeded by its last run.
SuccessRan ==
  \A j \in Jobs : job[j].state = "succeeded" =>
    job[j].attempts \in 1..MaxAttempts /\ run[j][job[j].attempts] = "succeeded"

\* A job with an unknown run has made no other since.
UnknownLast ==
  \A j \in Jobs, n \in 1..MaxAttempts : run[j][n] = "unknown" =>
    job[j].attempts = n /\ job[j].state = "needs_operator"

\* A warm-up has one caller inside, and the row shows that it is under way.
WarmedAlone ==
  \A p \in Callers : Inside(caller[p]) =>
    /\ session[caller[p].session].state = "warming"
    /\ Covers(session[caller[p].session], caller[p].todo)
    /\ \A q \in Callers : Inside(caller[q]) /\ caller[q].session = caller[p].session => q = p

\* a row on which a sending of c in doubt leaves its mark
Blocked(row, c) == row.state \in {"warming", "recovering"} /\ row.status[c] # "succeeded"

\* A sending in doubt blocks its session until it is resolved.
DoubtBlocks ==
  \A s \in Sessions : \A c \in Commands : <<s, c>> \in doubt =>
    /\ Blocked(session[s], c)
    /\ \A p \in Callers : Inside(caller[p]) => caller[p].session # s

Inv == /\ Types /\ RunsHold /\ OwnSession /\ ReleasedGiven /\ SuccessRan /\ UnknownLast
       /\ WarmedAlone /\ DoubtBlocks

\* A sending in doubt is of a command, in a session.
DoubtType == doubt \subseteq Sessions \X Commands

\* The initial state satisfies the invariant.
LEMMA InvInit == Init => Inv
<1> SUFFICES ASSUME Init PROVE Inv
  OBVIOUS
<1>1. NoJob \in JobRow /\ NoJob.state = "absent" /\ Absent \in SessionRow /\ Absent.state = "absent"
      /\ New \in SessionRow
  BY SessionAssumption DEF NoJob, JobRow, Absent, New, SessionRow, Commands, Sessions
<1>2. Placed(Free) /\ ~Inside(Free)
  BY DEF Placed, Free, CallerRow, Todos, Inside
<1>3. Types
  BY <1>1, <1>2 DEF Init, Types, RunStates
<1>4. \A j \in Jobs : Waits(j) /\ \A i \in Jobs : transfer[i][j] = Nothing
  BY <1>1 DEF Init, Waits
<1>5. \A j \in Jobs : session[j].state = "absent"
  BY <1>1, SessionAssumption DEF Init, Sessions
<1>6. \A j \in Jobs, n \in 1..MaxAttempts : run[j][n] = "none"
  BY DEF Init
<1>7. doubt = {} /\ \A p \in Callers : ~Inside(caller[p])
  BY <1>2 DEF Init
<1>8. \A s \in Sessions : session[s].state = "absent" => ~Prepared(s)
  BY DEF Init, Prepared, Absent, New, Commands
<1> QED
  BY <1>3, <1>4, <1>5, <1>6, <1>7, <1>8
  DEF Inv, RunsHold, OwnSession, ReleasedGiven, SuccessRan, UnknownLast, WarmedAlone, DoubtBlocks, Waits

\* The steps of a warm-up that are missing cover what is not recorded.
LEMMA MissingCovers ==
  ASSUME NEW row
  PROVE  Missing(row) \in Todos /\ Covers(row, Missing(row))
<1>1. /\ <<>> \o <<>> = <<>> /\ <<>> \o <<"rpa">> = <<"rpa">>
      /\ <<"compact">> \o <<>> = <<"compact">> /\ <<"compact">> \o <<"rpa">> = <<"compact", "rpa">>
  <2>1. <<>> \in Seq(Commands) /\ <<"rpa">> \in Seq(Commands) /\ <<"compact">> \in Seq(Commands)
    BY DEF Commands
  <2> DEFINE both == <<"compact", "rpa">>
             joined == <<"compact">> \o <<"rpa">>
  <2>2. /\ both \in Seq(Commands) /\ Len(both) = 2 /\ both[1] = "compact" /\ both[2] = "rpa"
        /\ Len(<<"compact">>) = 1 /\ Len(<<"rpa">>) = 1
        /\ <<"compact">>[1] = "compact" /\ <<"rpa">>[1] = "rpa"
    BY DEF Commands
  <2> HIDE DEF both
  <2>3. joined = both
    <3>1. /\ joined \in Seq(Commands) /\ Len(joined) = 2
          /\ \A i \in 1..2 : joined[i] = IF i <= 1 THEN <<"compact">>[i] ELSE <<"rpa">>[i - 1]
      BY <2>1, <2>2, ConcatProperties
    <3> HIDE DEF joined
    <3>2. \A i \in 1..2 : joined[i] = both[i]
      BY <2>2, <3>1
    <3> QED BY <2>2, <3>1, <3>2, SeqEqual
  <2> QED BY <2>1, <2>3, ConcatEmptySeq DEF both
<1> QED BY <1>1 DEF Missing, Covers, Todos, Commands

\* One step of a warm-up is taken from the front of what is left.
LEMMA TodoFront ==
  ASSUME NEW todo \in Todos, todo # <<>>
  PROVE  /\ Head(todo) \in Commands /\ Tail(todo) \in Todos
         /\ todo = <<"compact", "rpa">> => Head(todo) = "compact" /\ Tail(todo) = <<"rpa">>
         /\ todo = <<"rpa">> => Head(todo) = "rpa" /\ Tail(todo) = <<>>
         /\ todo = <<"compact">> => Head(todo) = "compact" /\ Tail(todo) = <<>>
<1>1. Tail(<<"compact", "rpa">>) = <<"rpa">> /\ Head(<<"compact", "rpa">>) = "compact"
  OBVIOUS
<1>2. \A x : Tail(<<x>>) = <<>> /\ Head(<<x>>) = x
  OBVIOUS
<1> QED BY <1>1, <1>2 DEF Todos, Commands

\* The step at the front is of a command that is not recorded.
LEMMA HeadMissing ==
  ASSUME NEW row, NEW todo \in Todos, todo # <<>>, Covers(row, todo)
  PROVE  row.status[Head(todo)] # "succeeded"
BY TodoFront DEF Covers, Todos

----------------------------------------------------------------------------
\* Steps of a caller

\* A caller's part of the invariant, from row on, once session s has row:
\* it is inside only as the one caller of a session that is warming.
Keeps(p, s, row) ==
  /\ Placed(caller'[p]) /\ caller' = [caller EXCEPT ![p] = caller'[p]]
  /\ Inside(caller'[p]) => /\ caller'[p].session = s /\ row.state = "warming"
                           /\ Covers(row, caller'[p].todo)

\* What is in doubt of other sessions was before; doubt of s blocks it.
Doubts(p, s, row) ==
  /\ \A t \in Sessions \ {s} : \A c \in Commands : <<t, c>> \in doubt' => <<t, c>> \in doubt
  /\ \A c \in Commands : <<s, c>> \in doubt' => Blocked(row, c) /\ ~Inside(caller'[p])

\* A step that writes no row: the caller goes on inside, or leaves, or was and
\* stays outside.
LEMMA CallerStep ==
  ASSUME Inv, NEW p \in Callers, UNCHANGED <<session, job, run, transfer>>,
         Placed(caller'[p]), caller' = [caller EXCEPT ![p] = caller'[p]],
         Inside(caller'[p]) => /\ Inside(caller[p]) /\ caller'[p].session = caller[p].session
                               /\ Covers(session[caller[p].session], caller'[p].todo),
         \A s \in Sessions : \A c \in Commands : <<s, c>> \in doubt' =>
            \/ <<s, c>> \in doubt
            \/ s = caller[p].session /\ c = Head(caller[p].todo)
               /\ Inside(caller[p]) /\ ~Inside(caller'[p])
  PROVE  Inv'
<1>1. \A q \in Callers : q # p => caller'[q] = caller[q]
  BY DEF Inv, Types
<1>2. Types'
  BY <1>1 DEF Inv, Types
<1>3. RunsHold' /\ OwnSession' /\ ReleasedGiven' /\ SuccessRan' /\ UnknownLast'
  BY DEF Inv, RunsHold, Prepared, OwnSession, Waits, ReleasedGiven, Given, SuccessRan, UnknownLast
<1>4. \A q \in Callers : Inside(caller'[q]) =>
        /\ Inside(caller[q]) /\ caller'[q].session = caller[q].session
        /\ Covers(session[caller[q].session], caller'[q].todo)
  BY <1>1 DEF Inv, WarmedAlone
<1>5. WarmedAlone'
  BY <1>4 DEF Inv, WarmedAlone
<1>6. DoubtBlocks'
  <2> SUFFICES ASSUME NEW s \in Sessions, NEW c \in Commands, <<s, c>> \in doubt'
               PROVE  /\ Blocked(session[s], c)
                      /\ \A q \in Callers : Inside(caller'[q]) => caller'[q].session # s
    BY DEF DoubtBlocks
  <2>1. CASE <<s, c>> \in doubt
    BY <1>4, <2>1 DEF Inv, DoubtBlocks
  <2>2. CASE s = caller[p].session /\ c = Head(caller[p].todo)
             /\ Inside(caller[p]) /\ ~Inside(caller'[p])
    <3>1. Blocked(session[s], c)
      BY <2>2, HeadMissing DEF Inv, Types, WarmedAlone, Placed, CallerRow, Inside, Blocked
    <3> QED BY <1>1, <1>4, <2>2, <3>1 DEF Inv, WarmedAlone
  <2> QED BY <2>1, <2>2
<1> QED BY <1>2, <1>3, <1>5, <1>6 DEF Inv

\* A step that writes the row of a session that no run holds, by the only caller
\* that is or comes inside it.
LEMMA WarmStep ==
  ASSUME Inv, NEW p \in Callers, NEW s \in Sessions, NEW row \in SessionRow,
         session' = [session EXCEPT ![s] = row], UNCHANGED <<job, run, transfer>>,
         session[s].state # "absent", ~Busy(s), row.state # "absent",
         \A q \in Callers \ {p} : Inside(caller[q]) => caller[q].session # s,
         Keeps(p, s, row), Doubts(p, s, row)
  PROVE  Inv'
<1>1. \A q \in Callers : q # p => caller'[q] = caller[q]
  BY DEF Inv, Types, Keeps
<1>2. session' \in [Sessions -> SessionRow]
      /\ \A t \in Sessions : session'[t] = IF t = s THEN row ELSE session[t]
  BY DEF Inv, Types
<1>3. Types'
  BY <1>1, <1>2 DEF Inv, Types, Keeps
<1>4. RunsHold'
  BY <1>2 DEF Inv, RunsHold, Prepared, Busy
<1>5. OwnSession'
  BY <1>2 DEF Inv, OwnSession, Waits, Sessions, Prepared
<1>6. ReleasedGiven' /\ SuccessRan' /\ UnknownLast'
  BY DEF Inv, Waits, ReleasedGiven, Given, SuccessRan, UnknownLast
<1>7. \A q \in Callers \ {p} : Inside(caller[q]) => caller[q].session \in Sessions \ {s}
  BY DEF Inv, Types, Placed, Inside
<1>8. WarmedAlone'
  <2> SUFFICES ASSUME NEW q \in Callers, Inside(caller'[q])
               PROVE  /\ session'[caller'[q].session].state = "warming"
                      /\ Covers(session'[caller'[q].session], caller'[q].todo)
                      /\ \A v \in Callers : Inside(caller'[v]) /\ caller'[v].session = caller'[q].session
                                              => v = q
    BY DEF WarmedAlone
  <2>1. CASE q = p
    BY <1>1, <1>2, <2>1 DEF Keeps
  <2>2. CASE q # p
    <3>1. caller'[q] = caller[q] /\ caller[q].session \in Sessions \ {s}
      BY <1>1, <1>7, <2>2
    <3>2. session'[caller[q].session] = session[caller[q].session]
      BY <1>2, <3>1
    <3>3. \A v \in Callers : Inside(caller'[v]) /\ caller'[v].session = caller[q].session => v = q
      BY <1>1, <3>1 DEF Inv, WarmedAlone, Keeps
    <3> QED BY <3>1, <3>2, <3>3 DEF Inv, WarmedAlone
  <2> QED BY <2>1, <2>2
<1>9. DoubtBlocks'
  <2> SUFFICES ASSUME NEW t \in Sessions, NEW c \in Commands, <<t, c>> \in doubt'
               PROVE  /\ Blocked(session'[t], c)
                      /\ \A q \in Callers : Inside(caller'[q]) => caller'[q].session # t
    BY DEF DoubtBlocks
  <2>1. CASE t = s
    BY <1>1, <1>2, <2>1 DEF Doubts
  <2>2. CASE t # s
    <3>1. <<t, c>> \in doubt
      BY <2>2 DEF Doubts
    <3>2. Blocked(session[t], c) /\ session'[t] = session[t]
      BY <1>2, <2>2, <3>1 DEF Inv, DoubtBlocks
    <3>3. \A q \in Callers : Inside(caller'[q]) => caller'[q].session # t
      BY <1>1, <2>2, <3>1 DEF Inv, DoubtBlocks, Keeps
    <3> QED BY <3>2, <3>3
  <2> QED BY <2>1, <2>2
<1> QED BY <1>3, <1>4, <1>5, <1>6, <1>8, <1>9 DEF Inv

\* What the invariant says of a caller inside a warm-up.
LEMMA AtWarmup ==
  ASSUME Inv, NEW p \in Callers, Inside(caller[p])
  PROVE  /\ caller[p].session \in Sessions /\ caller[p] \in CallerRow
         /\ session[caller[p].session] \in SessionRow
         /\ session[caller[p].session].state = "warming" /\ ~Busy(caller[p].session)
         /\ Covers(session[caller[p].session], caller[p].todo)
         /\ \A c \in Commands : <<caller[p].session, c>> \notin doubt
         /\ \A q \in Callers \ {p} : Inside(caller[q]) => caller[q].session # caller[p].session
<1>1. /\ caller[p].session \in Sessions /\ caller[p] \in CallerRow
      /\ session[caller[p].session].state = "warming"
      /\ Covers(session[caller[p].session], caller[p].todo)
  BY DEF Inv, Types, WarmedAlone, Placed, Inside
<1>2. ~Busy(caller[p].session)
  BY <1>1 DEF Inv, RunsHold, Held, Busy
<1> QED BY <1>1, <1>2 DEF Inv, Types, WarmedAlone, DoubtBlocks

\* A step of an outcome: the caller inside writes a last state and leaves.
LEMMA Outcome ==
  ASSUME Inv, NEW p \in Callers, Inside(caller[p]),
         NEW row \in SessionRow, row.state \in {"recovering", "failed"},
         row.status = session[caller[p].session].status,
         session' = [session EXCEPT ![caller[p].session] = row],
         caller'[p].pc \in {"idle", "start"}, Placed(caller'[p]),
         caller' = [caller EXCEPT ![p] = caller'[p]], UNCHANGED <<job, run, transfer>>,
         \A s \in Sessions : \A c \in Commands : <<s, c>> \in doubt' =>
            \/ <<s, c>> \in doubt
            \/ s = caller[p].session /\ c = Head(caller[p].todo) /\ row.state = "recovering"
  PROVE  Inv'
<1> DEFINE s == caller[p].session
<1>1. s \in Sessions /\ session[s].state = "warming" /\ session[s] \in SessionRow /\ ~Busy(s)
  BY AtWarmup
<1>2. session[s].status[Head(caller[p].todo)] # "succeeded"
  BY HeadMissing DEF Inv, Types, WarmedAlone, Placed, CallerRow, Inside
<1>3. ~Inside(caller'[p])
  BY DEF Inside
<1>4. \A q \in Callers \ {p} : Inside(caller[q]) => caller[q].session # s
  BY DEF Inv, WarmedAlone
<1>5. Keeps(p, s, row)
  BY <1>3 DEF Keeps
<1>6. Doubts(p, s, row)
  <2>1. \A c \in Commands : <<s, c>> \notin doubt
    BY <1>1 DEF Inv, DoubtBlocks
  <2> QED BY <1>1, <1>2, <1>3, <2>1 DEF Doubts, Blocked
<1>7. session' = [session EXCEPT ![s] = row] /\ row.state # "absent"
  OBVIOUS
<1> HIDE DEF s
<1> QED BY <1>1, <1>4, <1>5, <1>6, <1>7, WarmStep

\* A caller that leaves, or goes where it is not inside, keeps its variables right.
LEMMA Leaving ==
  ASSUME Inv, NEW p \in Callers
  PROVE  /\ Leave(p) => /\ caller' = [caller EXCEPT ![p] = caller'[p]] /\ Placed(caller'[p])
                        /\ caller'[p].pc = "idle" /\ ~Inside(caller'[p])
         /\ caller[p].session \in Sessions /\ Onward(p) =>
              /\ caller' = [caller EXCEPT ![p] = caller'[p]] /\ Placed(caller'[p])
              /\ caller'[p].pc \in {"idle", "start"} /\ ~Inside(caller'[p])
<1>1. Placed(caller[p]) /\ caller = [q \in Callers |-> caller[q]]
  BY DEF Inv, Types
<1>2. Placed(Free) /\ Free.pc = "idle"
  BY DEF Placed, Free, CallerRow, Todos
<1>3. Leave(p) => caller'[p] = Free /\ caller' = [caller EXCEPT ![p] = caller'[p]]
  BY <1>1 DEF Leave
<1>4. ASSUME caller[p].session \in Sessions, caller[p].job # None, Goto(p, "start")
      PROVE  /\ caller' = [caller EXCEPT ![p] = caller'[p]] /\ Placed(caller'[p]) /\ caller'[p].pc = "start"
  BY <1>1, <1>4 DEF Goto, Placed, CallerRow
<1> QED BY <1>2, <1>3, <1>4 DEF Onward, Inside

\* A warm-up is claimed by a caller that finds its session new, or ready without
\* both commands recorded; nobody else is inside one.
LEMMA ClaimKeepsInv ==
  ASSUME Inv, NEW p \in Callers, ClaimWarmup(p)
  PROVE  Inv'
<1> DEFINE s == caller[p].session
<1>1. caller[p].pc = "claim" /\ s \in Sessions /\ Placed(caller[p]) /\ ~Inside(caller[p])
      /\ session[s] \in SessionRow /\ UNCHANGED <<job, run, transfer, doubt>>
  BY DEF ClaimWarmup, past, Inv, Types, Placed, Inside
<1>2. CASE UNCHANGED session /\ Leave(p)
  BY <1>1, <1>2, Leaving, CallerStep
<1>4. CASE UNCHANGED session /\ caller' = [caller EXCEPT ![p].pc = "step", ![p].todo = <<>>]
  <2>1. caller'[p] = [caller[p] EXCEPT !.pc = "step", !.todo = <<>>]
        /\ caller' = [caller EXCEPT ![p] = caller'[p]]
    BY <1>4 DEF Inv, Types
  <2>2. Placed(caller'[p]) /\ ~Inside(caller'[p])
    BY <1>1, <2>1 DEF Placed, CallerRow, Todos, Inside
  <2> QED BY <1>1, <1>4, <2>1, <2>2, CallerStep
<1>3. CASE /\ Warmable(session[s])
           /\ session' = [session EXCEPT ![s].state = "warming", ![s].step = "compact"]
           /\ caller' = [caller EXCEPT ![p].pc = "step", ![p].todo = Missing(session[s])]
  <2> DEFINE row == [session[s] EXCEPT !.state = "warming", !.step = "compact"]
  <2>1. row \in SessionRow /\ row.state = "warming" /\ row.status = session[s].status
    BY <1>1 DEF SessionRow, Commands
  <2>2. session' = [session EXCEPT ![s] = row]
    BY <1>1, <1>3 DEF Inv, Types
  <2>3. session[s].state \in {"new", "ready"} /\ ~Busy(s)
    BY <1>3 DEF Warmable, Inv, RunsHold, Held, Prepared, Busy
  <2>4. \A q \in Callers : Inside(caller[q]) => caller[q].session # s
    BY <2>3 DEF Inv, WarmedAlone
  <2>5. Missing(session[s]) \in Todos /\ Covers(row, Missing(session[s]))
    BY <2>1, MissingCovers DEF Covers
  <2>6. /\ caller'[p] = [caller[p] EXCEPT !.pc = "step", !.todo = Missing(session[s])]
        /\ caller' = [caller EXCEPT ![p] = caller'[p]]
    BY <1>3 DEF Inv, Types
  <2>7. Placed(caller'[p]) /\ caller'[p].session = s /\ caller'[p].todo = Missing(session[s])
    <3> HIDE DEF Missing
    <3> QED BY <1>1, <2>5, <2>6 DEF Placed, CallerRow
  <2>8. Keeps(p, s, row)
    BY <2>1, <2>5, <2>6, <2>7 DEF Keeps
  <2>9. Doubts(p, s, row)
    <3>1. \A c \in Commands : <<s, c>> \notin doubt
      BY <1>1, <2>3 DEF Inv, DoubtBlocks, Blocked
    <3> QED BY <1>1, <3>1 DEF Doubts
  <2> HIDE DEF row, s
  <2> QED BY <1>1, <2>1, <2>2, <2>3, <2>4, <2>8, <2>9, WarmStep
<1> QED BY <1>1, <1>2, <1>3, <1>4 DEF ClaimWarmup

\* A command is begun: nobody can have recorded it meanwhile.
LEMMA BeginKeepsInv ==
  ASSUME Inv, NEW p \in Callers, BeginStep(p)
  PROVE  Inv'
<1> DEFINE s == caller[p].session
           c == Head(caller[p].todo)
           row == [session[s] EXCEPT !.status[c] = "running", !.step = c]
<1>1. Inside(caller[p]) /\ caller[p].pc = "step" /\ caller[p].todo # <<>> /\ Placed(caller[p])
      /\ caller[p].todo \in Todos /\ UNCHANGED <<job, run, transfer, doubt>>
  BY DEF BeginStep, past, Inside, Inv, Types, Placed, CallerRow
<1>2. c \in Commands /\ s \in Sessions /\ session[s] \in SessionRow /\ session[s].state = "warming"
      /\ Covers(session[s], caller[p].todo)
  BY <1>1, TodoFront, AtWarmup
<1>3. session[s].status[c] # "succeeded"
  BY <1>1, <1>2, HeadMissing
<1>4. ASSUME session[s].status[c] # "succeeded" PROVE Inv'
  <2>1. session' = [session EXCEPT ![s].status[c] = "running", ![s].step = c]
        /\ caller' = [caller EXCEPT ![p].pc = "executing"]
    BY <1>4 DEF BeginStep, Goto
  <2>2. row \in SessionRow /\ row.state = "warming"
        /\ \A d \in Commands : d # c => row.status[d] = session[s].status[d]
    BY <1>2 DEF SessionRow
  <2>3. session' = [session EXCEPT ![s] = row]
    BY <1>2, <2>1 DEF Inv, Types, SessionRow
  <2>4. Covers(row, caller[p].todo)
    <3>1. row.status[c] = "running"
      BY <1>2 DEF SessionRow
    <3> HIDE DEF row, c
    <3>2. \A d \in Commands : row.status[d] = "succeeded" <=> session[s].status[d] = "succeeded"
      BY <1>4, <2>2, <3>1
    <3> QED BY <1>2, <3>2 DEF Covers, Commands
  <2>5. caller'[p] = [caller[p] EXCEPT !.pc = "executing"] /\ caller' = [caller EXCEPT ![p] = caller'[p]]
    BY <2>1 DEF Inv, Types
  <2>6. Placed(caller'[p]) /\ caller'[p].session = s /\ caller'[p].todo = caller[p].todo
    BY <1>1, <2>5 DEF Placed, CallerRow
  <2>7. Keeps(p, s, row)
    BY <2>2, <2>4, <2>5, <2>6 DEF Keeps
  <2>8. Doubts(p, s, row)
    BY <1>1, AtWarmup DEF Doubts
  <2> HIDE DEF row
  <2> QED BY <1>1, <1>2, <2>2, <2>3, <2>7, <2>8, AtWarmup, WarmStep
<1> QED BY <1>3, <1>4

\* A command that returned is recorded, and is no longer to do.
LEMMA RecordKeepsInv ==
  ASSUME Inv, NEW p \in Callers, RecordStep(p)
  PROVE  Inv'
<1> DEFINE s == caller[p].session
           c == Head(caller[p].todo)
           row == [session[s] EXCEPT !.status[c] = "succeeded", !.step = c]
<1>1. Inside(caller[p]) /\ caller[p].todo # <<>> /\ Placed(caller[p]) /\ caller[p].todo \in Todos
      /\ UNCHANGED <<job, run, transfer, doubt>>
  BY DEF RecordStep, Inside, Inv, Types, Placed, CallerRow
<1>2. c \in Commands /\ s \in Sessions /\ session[s] \in SessionRow /\ session[s].state = "warming"
      /\ Covers(session[s], caller[p].todo)
  BY <1>1, TodoFront, AtWarmup
<1>3. session' = [session EXCEPT ![s].status[c] = "succeeded", ![s].step = c]
      /\ caller' = [caller EXCEPT ![p].pc = "step", ![p].todo = Tail(@)]
  BY DEF RecordStep
<1>4. row \in SessionRow /\ row.state = "warming" /\ row.status[c] = "succeeded"
      /\ \A d \in Commands : d # c => row.status[d] = session[s].status[d]
  BY <1>2 DEF SessionRow
<1>5. session' = [session EXCEPT ![s] = row]
  BY <1>2, <1>3 DEF Inv, Types, SessionRow
<1>6. Tail(caller[p].todo) \in Todos /\ Covers(row, Tail(caller[p].todo))
  <2> HIDE DEF row
  <2> QED BY <1>1, <1>2, <1>4, TodoFront DEF Covers, Todos, Commands
<1>7. caller'[p] = [caller[p] EXCEPT !.pc = "step", !.todo = Tail(caller[p].todo)]
      /\ caller' = [caller EXCEPT ![p] = caller'[p]]
  BY <1>3 DEF Inv, Types
<1>8. Placed(caller'[p]) /\ caller'[p].session = s /\ caller'[p].todo = Tail(caller[p].todo)
  <2> DEFINE tail == Tail(caller[p].todo)
  <2>1. tail \in Todos /\ caller'[p] = [caller[p] EXCEPT !.pc = "step", !.todo = tail]
    BY <1>6, <1>7
  <2> HIDE DEF tail, row, c
  <2>2. caller'[p] \in CallerRow /\ caller'[p].session = s /\ caller'[p].todo = tail
        /\ caller'[p].pc = "step"
    BY <1>1, <2>1 DEF Placed, CallerRow
  <2>3. Placed(caller'[p])
    BY <1>2, <2>2 DEF Placed
  <2> QED BY <2>2, <2>3 DEF tail
<1>9. Keeps(p, s, row)
  BY <1>4, <1>6, <1>7, <1>8 DEF Keeps
<1>10. Doubts(p, s, row)
  BY <1>1, AtWarmup DEF Doubts
<1> HIDE DEF row
<1> QED BY <1>1, <1>2, <1>4, <1>5, <1>9, <1>10, AtWarmup, WarmStep

\* The ways a warm-up ends for the caller inside it.
LEMMA EndsKeepInv ==
  ASSUME Inv, NEW p \in Callers, DeadlinePassed(p) \/ Rejected(p) \/ OutcomeUnknown(p)
  PROVE  Inv'
<1> DEFINE s == caller[p].session
<1>1. Inside(caller[p]) /\ UNCHANGED <<job, run, transfer>>
  BY DEF DeadlinePassed, Rejected, OutcomeUnknown, Inside, past, Inv, Types, Placed
<1>2. s \in Sessions /\ session[s] \in SessionRow /\ session[s].state = "warming"
  BY <1>1, AtWarmup
<1>3. \A state \in {"failed", "recovering"} :
        LET row == [session[s] EXCEPT !.state = state]
        IN /\ row \in SessionRow /\ row.state = state /\ row.status = session[s].status
           /\ [session EXCEPT ![s].state = state] = [session EXCEPT ![s] = row]
  BY <1>2 DEF SessionRow
<1>4. CASE DeadlinePassed(p) \/ Rejected(p)
  <2> DEFINE row == [session[s] EXCEPT !.state = "failed"]
  <2>1. Leave(p) /\ session' = [session EXCEPT ![s] = row] /\ UNCHANGED doubt
        /\ row \in SessionRow /\ row.state = "failed" /\ row.status = session[s].status
    BY <1>3, <1>4 DEF DeadlinePassed, Rejected, Failed, past
  <2> HIDE DEF row
  <2> QED BY <1>1, <2>1, Leaving, Outcome
<1>5. CASE OutcomeUnknown(p)
  <2> DEFINE row == [session[s] EXCEPT !.state = "recovering"]
  <2>1. Leave(p) /\ session' = [session EXCEPT ![s] = row]
        /\ row \in SessionRow /\ row.state = "recovering" /\ row.status = session[s].status
        /\ \A t \in Sessions : \A c \in Commands : <<t, c>> \in doubt' =>
             <<t, c>> \in doubt \/ (t = s /\ c = Head(caller[p].todo))
    BY <1>3, <1>5 DEF OutcomeUnknown, Uncertain
  <2> HIDE DEF row
  <2> QED BY <1>1, <2>1, Leaving, Outcome
<1> QED BY <1>4, <1>5

\* The last transaction of a warm-up, however late: it finds both commands
\* recorded, so nobody is inside a warm-up of the session and nothing of it is
\* in doubt; a run that holds the session goes on holding it.
LEMMA LateReady ==
  ASSUME Inv, NEW p \in Callers, FinishWarmup(p)
  PROVE  Inv'
<1> DEFINE s == caller[p].session
           row == [session[s] EXCEPT !.state = "ready", !.step = "none"]
<1>1. s \in Sessions /\ session[s] \in SessionRow /\ UNCHANGED <<job, run, transfer, doubt>>
  BY DEF FinishWarmup, past, Inv, Types, Placed
<1>2. CASE ~Prepared(s)
  <2>1. Leave(p) /\ UNCHANGED session
    BY <1>2 DEF FinishWarmup
  <2> QED BY <1>1, <2>1, Leaving, CallerStep
<1>3. CASE Prepared(s)
  <2>1. row \in SessionRow /\ row.state = "ready" /\ row.status = session[s].status
    BY <1>1 DEF SessionRow
  <2>2. Onward(p) /\ session' = [session EXCEPT ![s] = row]
    BY <1>1, <1>3 DEF FinishWarmup, Inv, Types
  <2>3. caller' = [caller EXCEPT ![p] = caller'[p]] /\ Placed(caller'[p]) /\ ~Inside(caller'[p])
    BY <1>1, <2>2, Leaving
  <2> HIDE DEF row
  <2>4. session' \in [Sessions -> SessionRow]
        /\ \A t \in Sessions : session'[t] = IF t = s THEN row ELSE session[t]
    BY <1>1, <2>1, <2>2 DEF Inv, Types
  <2>5. \A q \in Callers : Inside(caller'[q]) => /\ Inside(caller[q]) /\ caller'[q] = caller[q]
                                               /\ caller[q].session \in Sessions \ {s}
    <3>1. \A q \in Callers : Inside(caller'[q]) => Inside(caller[q]) /\ caller'[q] = caller[q]
      BY <2>3 DEF Inv, Types
    <3>2. ASSUME NEW q \in Callers, Inside(caller[q]) PROVE caller[q].session \in Sessions \ {s}
      <4>1. caller[q].session \in Sessions /\ caller[q].todo \in Todos /\ caller[q].todo # <<>>
            /\ Covers(session[caller[q].session], caller[q].todo)
        BY <3>2, AtWarmup DEF Inside, CallerRow
      <4>2. ~Prepared(caller[q].session)
        BY <4>1, HeadMissing, TodoFront DEF Prepared
      <4> QED BY <1>3, <4>1, <4>2
    <3> QED BY <3>1, <3>2
  <2>6. \A t \in Sessions, c \in Commands : <<t, c>> \in doubt => t # s
    BY <1>3 DEF Inv, DoubtBlocks, Blocked, Prepared
  <2>7. Types'
    BY <1>1, <2>3, <2>4 DEF Inv, Types
  <2>8. RunsHold'
    <3> HIDE DEF s
    <3>1. \A t \in Sessions : session'[t].status = session[t].status
      BY <2>1, <2>4
    <3>2. \A t \in Sessions : session[t].state \in Held => session'[t].state \in Held
      BY <2>1, <2>4 DEF Held
    <3>3. ASSUME NEW t \in Sessions, Prepared(t)
          PROVE  \A c \in Commands : session'[t].status[c] = "succeeded"
      BY <3>1, <3>3 DEF Prepared
    <3> QED BY <1>1, <3>2, <3>3 DEF Inv, RunsHold, Prepared
  <2>9. OwnSession'
    <3>1. session[s].state # "absent"
      BY <1>1, <1>3 DEF Inv, OwnSession
    <3> QED BY <1>1, <2>1, <2>4, <3>1 DEF Inv, OwnSession, Waits, Sessions, Prepared
  <2>10. ReleasedGiven' /\ SuccessRan' /\ UnknownLast'
    BY <1>1 DEF Inv, Waits, ReleasedGiven, Given, SuccessRan, UnknownLast
  <2>11. WarmedAlone'
    BY <2>4, <2>5 DEF Inv, WarmedAlone
  <2>12. DoubtBlocks'
    BY <1>1, <2>4, <2>5, <2>6 DEF Inv, DoubtBlocks
  <2> HIDE DEF s
  <2> QED BY <2>7, <2>8, <2>9, <2>10, <2>11, <2>12 DEF Inv
<1> QED BY <1>2, <1>3

\* A retry makes the session of a failed or resolved warm-up new again, and its
\* caller comes to the claim; nobody is inside, and what was in doubt is resolved.
LEMMA RetryKeepsInv ==
  ASSUME Inv, NEW p \in Callers, ~Inside(caller[p]), NEW s \in Sessions, NEW confirmed \in BOOLEAN,
         DoubtType, RetryWarmup(p, s, confirmed), UNCHANGED <<job, run, transfer>>
  PROVE  Inv'
<1>1. CASE ~MayRetry(session[s], confirmed)
  <2>1. Leave(p) /\ UNCHANGED <<session, doubt>>
    BY <1>1 DEF RetryWarmup
  <2> QED BY <2>1, Leaving, CallerStep
<1>2. CASE MayRetry(session[s], confirmed)
  <2> DEFINE step == session[s].step
             row == [session[s] EXCEPT !.state = "new", !.status[step] = "pending"]
             to == [Free EXCEPT !.pc = "claim", !.session = s]
  <2>1. /\ session' = [session EXCEPT ![s].state = "new", ![s].status[step] = "pending"]
        /\ caller' = [caller EXCEPT ![p] = to]
        /\ doubt' = IF confirmed THEN doubt \ ({s} \X Commands) ELSE doubt
    BY <1>2 DEF RetryWarmup
  <2>2. session[s].state \in {"failed", "recovering"} /\ step \in Commands
        /\ (session[s].state = "recovering" => confirmed) /\ session[s] \in SessionRow /\ ~Busy(s)
    BY <1>2 DEF MayRetry, Inv, Types, RunsHold, Held, Busy
  <2>3. row \in SessionRow /\ row.state = "new"
    BY <2>2 DEF SessionRow
  <2>4. session' = [session EXCEPT ![s] = row]
    BY <2>1, <2>2 DEF Inv, Types, SessionRow
  <2>5. \A q \in Callers : Inside(caller[q]) => caller[q].session # s
    BY <2>2 DEF Inv, WarmedAlone
  <2>6. Placed(to) /\ ~Inside(to) /\ caller'[p] = to
    BY <2>1 DEF Free, Placed, CallerRow, Todos, Inside, Inv, Types
  <2> HIDE DEF to, row, step
  <2>7. Keeps(p, s, row)
    BY <2>1, <2>6 DEF Keeps
  <2>8. \A c \in Commands : <<s, c>> \notin doubt'
    <3>1. ASSUME NEW c \in Commands, <<s, c>> \in doubt' PROVE FALSE
      <4>1. <<s, c>> \in doubt
        BY <2>1, <3>1
      <4>2. session[s].state = "recovering" /\ c \in Commands
        BY <2>2, <4>1 DEF Inv, DoubtBlocks, Blocked, DoubtType
      <4> QED BY <2>1, <2>2, <3>1, <4>2
    <3> QED BY <3>1
  <2>9. Doubts(p, s, row)
    BY <2>1, <2>8 DEF Doubts
  <2> QED BY <2>2, <2>3, <2>4, <2>5, <2>7, <2>9, WarmStep
<1> QED BY <1>1, <1>2

\* Every step of a caller keeps the invariant, but for the start of a run.
LEMMA CallersKeepInv ==
  ASSUME Inv, DoubtType, NEW p \in Callers,
         \/ ClaimWarmup(p) \/ DeadlinePassed(p) \/ BeginStep(p) \/ Execute(p)
         \/ Rejected(p) \/ OutcomeUnknown(p) \/ RecordStep(p) \/ FinishWarmup(p)
         \/ Adopt(p) \/ RunnerRetries(p) \/ Crash(p)
         \/ \E s \in Sessions : RunnerWarms(p, s) \/ OperatorRetries(p, s)
         \/ \E j \in Jobs : ReadJob(p, j)
  PROVE  Inv'
<1>1. Placed(caller[p]) /\ caller = [q \in Callers |-> caller[q]]
  BY DEF Inv, Types
<1>2. CASE Execute(p)
  <2>1. /\ caller' = [caller EXCEPT ![p].pc = "returned"] /\ caller[p].pc = "executing"
        /\ UNCHANGED <<session, job, run, transfer, doubt>>
    BY <1>2 DEF Execute, Goto, rows, past
  <2>2. caller'[p] = [caller[p] EXCEPT !.pc = "returned"] /\ caller' = [caller EXCEPT ![p] = caller'[p]]
    BY <1>1, <2>1
  <2>3. Inside(caller[p]) /\ Placed(caller'[p]) /\ caller'[p].session = caller[p].session
        /\ caller'[p].todo = caller[p].todo
    BY <1>1, <2>1, <2>2 DEF Inside, Placed, CallerRow
  <2> QED BY <2>1, <2>2, <2>3, AtWarmup, CallerStep
<1>3. CASE Adopt(p)
  <2> DEFINE s == caller[p].session
             row == [state |-> "ready", step |-> "none", status |-> [c \in Commands |-> "succeeded"]]
  <2>1. Leave(p) /\ ~Inside(caller[p]) /\ s \in Sessions /\ UNCHANGED <<job, run, transfer, doubt>>
    BY <1>1, <1>3 DEF Adopt, Inside, Placed
  <2>2. CASE session[s].state = "new"
    <3>0. ~Busy(s)
      BY <2>2 DEF Inv, RunsHold, Held, Busy
    <3>1. session' = [session EXCEPT ![s] = row]
      BY <1>3, <2>2 DEF Adopt
    <3>2. row \in SessionRow /\ row.state = "ready"
      BY DEF SessionRow
    <3>3. \A q \in Callers : Inside(caller[q]) => caller[q].session # s
      BY <2>2 DEF Inv, WarmedAlone
    <3>4. \A c \in Commands : <<s, c>> \notin doubt
      BY <2>1, <2>2 DEF Inv, DoubtBlocks, Blocked
    <3>5. Keeps(p, s, row) /\ Doubts(p, s, row)
      BY <2>1, <3>4, Leaving DEF Keeps, Doubts
    <3> HIDE DEF row, s
    <3> QED BY <2>1, <2>2, <3>0, <3>1, <3>2, <3>3, <3>5, WarmStep
  <2>3. CASE session[s].state # "new"
    <3>1. UNCHANGED session
      BY <1>3, <2>3 DEF Adopt
    <3> QED BY <2>1, <3>1, Leaving, CallerStep
  <2> QED BY <2>2, <2>3
<1>4. CASE RunnerRetries(p)
  BY <1>1, <1>4, RetryKeepsInv DEF RunnerRetries, Placed, Inside
<1>5. ASSUME NEW s \in Sessions, OperatorRetries(p, s) PROVE Inv'
  BY <1>5, RetryKeepsInv DEF OperatorRetries, Inside
<1>6. CASE Crash(p)
  <2>1. Leave(p) /\ UNCHANGED <<session, job, run, transfer>>
    BY <1>6 DEF Crash, rows
  <2>2. \A s \in Sessions : \A c \in Commands : <<s, c>> \in doubt' =>
          \/ <<s, c>> \in doubt
          \/ s = caller[p].session /\ c = Head(caller[p].todo) /\ Inside(caller[p])
    BY <1>1, <1>6 DEF Crash, Inside, Placed
  <2> QED BY <2>1, <2>2, Leaving, CallerStep
<1>7. ASSUME NEW to, Placed(to), ~Inside(to), caller' = [caller EXCEPT ![p] = to],
             UNCHANGED <<rows, past>>
      PROVE  Inv'
  <2>1. caller'[p] = to
    BY <1>1, <1>7
  <2> QED BY <1>7, <2>1, CallerStep DEF rows, past
<1>8. ASSUME NEW s \in Sessions, RunnerWarms(p, s) PROVE Inv'
  <2>1. PICK pc \in {"claim", "retry", "adopt"} :
          caller' = [caller EXCEPT ![p] = [Free EXCEPT !.pc = pc, !.session = s, !.limited = (pc = "claim")]]
    BY <1>8 DEF RunnerWarms
  <2> DEFINE limited == (pc = "claim")
             to == [Free EXCEPT !.pc = pc, !.session = s, !.limited = limited]
  <2>2. limited \in BOOLEAN /\ caller' = [caller EXCEPT ![p] = to]
    BY <2>1
  <2> HIDE DEF limited
  <2>3. Placed(to) /\ ~Inside(to)
    BY <2>2 DEF Free, Placed, CallerRow, Todos, Inside
  <2> HIDE DEF to
  <2> QED BY <1>7, <1>8, <2>2, <2>3 DEF RunnerWarms
<1>9. ASSUME NEW j \in Jobs, ReadJob(p, j) PROVE Inv'
  <2> DEFINE pc == IF session[job[j].session].state = "new" THEN "claim" ELSE "start"
             s == job[j].session
             to == [Free EXCEPT !.pc = pc, !.session = s, !.job = j, !.limited = TRUE]
  <2>1. caller' = [caller EXCEPT ![p] = to]
    BY <1>9 DEF ReadJob
  <2>2. s \in Sessions /\ pc \in {"claim", "start"}
    BY <1>9 DEF ReadJob, Inv, ReleasedGiven, Waits
  <2> HIDE DEF pc, s
  <2>3. Placed(to) /\ ~Inside(to)
    BY <2>2 DEF Free, Placed, CallerRow, Todos, Inside
  <2> HIDE DEF to
  <2> QED BY <1>7, <1>9, <2>1, <2>3 DEF ReadJob
<1> QED BY <1>2, <1>3, <1>4, <1>5, <1>6, <1>8, <1>9,
           ClaimKeepsInv, BeginKeepsInv, RecordKeepsInv, EndsKeepInv, LateReady

----------------------------------------------------------------------------
\* Steps of the jobs

\* What is mentioned as a dependency is a job; a job that depends on nothing
\* has none.
LEMMA Dependencies ==
  \A j \in Jobs : Range(Deps[j]) \subseteq Jobs /\ (Deps[j] = <<>> => Range(Deps[j]) = {})
<1>1. \A j \in Jobs : Deps[j] \in Seq(Jobs)
  BY SessionAssumption
<1> QED BY <1>1 DEF Range

\* The start of a run.
LEMMA StartKeepsInv ==
  ASSUME Inv, NEW p \in Callers, StartRun(p)
  PROVE  Inv'
<1> DEFINE j == caller[p].job
           n == job[j].attempts + 1
           s == job[j].session
<1>1. caller[p].pc = "start" /\ j \in Jobs /\ ~Inside(caller[p]) /\ Leave(p)
      /\ UNCHANGED <<transfer, doubt>>
  BY DEF StartRun, past, Inside, Inv, Types, Placed
<1>2. CASE ~Startable(j)
  <2>1. UNCHANGED <<run, job, session>>
    BY <1>2 DEF StartRun
  <2> QED BY <1>1, <2>1, Leaving, CallerStep
<1>3. CASE Startable(j)
  <2>1. /\ n <= MaxAttempts /\ run' = [run EXCEPT ![j][n] = "running"]
        /\ job' = [job EXCEPT ![j].state = "running", ![j].attempts = n]
        /\ session' = [session EXCEPT ![s].state = "running"]
    BY <1>3 DEF StartRun
  <2>2. /\ job[j].state = "ready" /\ Prepared(s) /\ ~Busy(s)
        /\ session[s].state \notin {"new", "warming", "recovering"}
    BY <1>3 DEF Startable
  <2>3. job[j] \in JobRow /\ s \in Sessions /\ session[s] \in SessionRow /\ n \in 1..MaxAttempts
        /\ MaxAttempts \in Nat
    <3>1. job[j] \in JobRow /\ session \in [Sessions -> SessionRow]
      BY <1>1 DEF Inv, Types
    <3>2. s \in Sessions
      BY <1>1, <2>2 DEF Inv, ReleasedGiven, Waits
    <3>3. MaxAttempts \in Nat
      BY SessionAssumption
    <3>4. job[j].attempts \in 0..MaxAttempts
      BY <3>1 DEF JobRow
    <3>5. n <= MaxAttempts
      BY <2>1
    <3>6. n \in 1..MaxAttempts
      BY <3>3, <3>4, <3>5
    <3> QED BY <3>1, <3>2, <3>3, <3>6
  <2>4. /\ \A q \in Callers : Inside(caller'[q]) => Inside(caller[q]) /\ caller'[q] = caller[q]
        /\ \A q \in Callers : Placed(caller'[q]) /\ caller' = [q1 \in Callers |-> caller'[q1]]
    BY <1>1, Leaving DEF Inv, Types
  <2> DEFINE jrow == [job[j] EXCEPT !.state = "running", !.attempts = n]
             srow == [session[s] EXCEPT !.state = "running"]
  <2>5. /\ jrow \in JobRow /\ jrow.state = "running" /\ jrow.attempts = n /\ jrow.session = s
        /\ srow \in SessionRow /\ srow.state = "running" /\ srow.status = session[s].status
    <3> HIDE DEF n, s, j
    <3>1. n \in 0..MaxAttempts
      BY <2>3
    <3>2. jrow \in JobRow /\ jrow.state = "running" /\ jrow.attempts = n /\ jrow.session = job[j].session
      BY <2>3, <3>1 DEF JobRow
    <3>3. srow \in SessionRow /\ srow.state = "running" /\ srow.status = session[s].status
      BY <2>3 DEF SessionRow
    <3> QED BY <3>2, <3>3 DEF s
  <2> HIDE DEF jrow, srow
  <2>6. /\ job' \in [Jobs -> JobRow] /\ session' \in [Sessions -> SessionRow]
        /\ \A k \in Jobs : job'[k] = IF k = j THEN jrow ELSE job[k]
        /\ \A t \in Sessions : session'[t] = IF t = s THEN srow ELSE session[t]
    <3>1. job' = [job EXCEPT ![j] = jrow] /\ session' = [session EXCEPT ![s] = srow]
      BY <1>1, <2>1, <2>3 DEF Inv, Types, jrow, srow
    <3> QED BY <1>1, <2>3, <2>5, <3>1 DEF Inv, Types
  <2>7. /\ run' \in [Jobs -> [1..MaxAttempts -> RunStates]]
        /\ \A k \in Jobs, m \in 1..MaxAttempts :
             run'[k][m] = IF k = j /\ m = n THEN "running" ELSE run[k][m]
    <3> HIDE DEF n
    <3> QED BY <1>1, <2>1, <2>3 DEF Inv, Types, RunStates
  <2> HIDE DEF n, s, j
  <2>8. \A m \in 1..MaxAttempts : run[j][m] \notin {"running", "unknown"}
    BY <1>1, <2>2 DEF Inv, RunsHold, UnknownLast
  <2>9. \A k \in Jobs, m \in 1..MaxAttempts : run[k][m] = "running" => job[k].session # s
    BY <2>2 DEF Busy
  <2>10. Types'
    BY <1>1, <2>4, <2>6, <2>7 DEF Inv, Types
  <2>11. \A t \in Sessions : Prepared(t) => Recorded(session'[t])
    BY <2>5, <2>6 DEF Prepared, Recorded
  <2>12. RunsHold'
    <3> SUFFICES ASSUME NEW k \in Jobs, NEW m \in 1..MaxAttempts, run'[k][m] = "running"
                 PROVE  /\ job'[k].state = "running" /\ job'[k].attempts = m
                        /\ job'[k].session \in Sessions
                        /\ session'[job'[k].session].state \in Held
                        /\ Recorded(session'[job'[k].session])
                        /\ \A l \in Jobs, v \in 1..MaxAttempts :
                             run'[l][v] = "running" /\ job'[l].session = job'[k].session => l = k /\ v = m
      BY DEF RunsHold, Prepared, Recorded
    <3>1. CASE k = j
      <4>1. m = n
        BY <2>7, <2>8, <3>1
      <4>2. \A l \in Jobs, v \in 1..MaxAttempts :
              run'[l][v] = "running" /\ job'[l].session = s => l = k /\ v = m
        BY <1>1, <2>5, <2>6, <2>7, <2>8, <2>9, <3>1, <4>1
      <4> QED BY <1>1, <2>2, <2>3, <2>5, <2>6, <2>11, <3>1, <4>1, <4>2 DEF Held
    <3>2. CASE k # j
      <4>1. run[k][m] = "running" /\ job'[k] = job[k] /\ job[k].session # s
        BY <2>6, <2>7, <2>9, <3>2
      <4>2. \A l \in Jobs, v \in 1..MaxAttempts :
              run'[l][v] = "running" /\ job'[l].session = job[k].session => l = k /\ v = m
        BY <1>1, <2>5, <2>6, <2>7, <4>1 DEF Inv, RunsHold
      <4>3. session'[job[k].session] = session[job[k].session] /\ job[k].session \in Sessions
        BY <2>6, <4>1 DEF Inv, RunsHold
      <4>4. Prepared(job[k].session) /\ session[job[k].session].state \in Held
            /\ job[k].state = "running" /\ job[k].attempts = m
        BY <4>1 DEF Inv, RunsHold
      <4>5. job'[k].session = job[k].session /\ Recorded(session'[job[k].session])
        BY <2>11, <4>1, <4>3, <4>4
      <4> QED BY <4>1, <4>2, <4>3, <4>4, <4>5
    <3> QED BY <3>1, <3>2
  <2>13. OwnSession'
    <3>1. session[s].state # "absent"
      BY <2>2, <2>3 DEF Inv, OwnSession
    <3>2. \A k \in Jobs : k \in Sessions
      BY DEF Sessions
    <3>3. \A k \in Jobs : session'[k].state # "absent" => ~Waits(k)'
      BY <2>5, <2>6, <3>1, <3>2 DEF Inv, OwnSession, Waits
    <3>4. \A t \in Sessions : session'[t].state = "absent" => ~Prepared(t)'
      BY <2>5, <2>6 DEF Inv, OwnSession, Prepared
    <3> QED BY <3>3, <3>4 DEF OwnSession
  <2>14. ReleasedGiven'
    <3>1. \A i, k \in Jobs : Given(i, k) => Given(i, k)'
      <4> SUFFICES ASSUME NEW i \in Jobs, NEW k \in Jobs, Given(i, k) PROVE Given(i, k)'
        OBVIOUS
      <4>1. i # j /\ job'[i] = job[i] /\ transfer'[i][k] = transfer[i][k]
        BY <1>1, <2>2, <2>6 DEF Given
      <4>2. \A m \in 1..MaxAttempts : run'[i][m] = run[i][m]
        BY <2>7, <4>1
      <4> QED BY <4>1, <4>2 DEF Given
    <3>2. \A k \in Jobs : Waits(k)' = Waits(k) /\ job'[k].session = job[k].session
      BY <2>2, <2>5, <2>6 DEF Waits, s
    <3>3. UNCHANGED transfer
      BY <1>1
    <3> QED BY <3>1, <3>2, <3>3, Dependencies DEF Inv, ReleasedGiven
  <2>15. SuccessRan'
    BY <1>1, <2>5, <2>6, <2>7 DEF Inv, SuccessRan
  <2>16. UnknownLast'
    BY <2>6, <2>7, <2>8 DEF Inv, UnknownLast
  <2>17. WarmedAlone'
    <3>1. \A q \in Callers : Inside(caller[q]) => caller[q].session \in Sessions \ {s}
      BY <2>2 DEF Inv, WarmedAlone, Types, Placed, Inside
    <3> QED BY <2>4, <2>6, <3>1 DEF Inv, WarmedAlone
  <2>18. DoubtBlocks'
    <3>1. \A t \in Sessions : (\E c \in Commands : <<t, c>> \in doubt) => session'[t] = session[t]
      BY <2>2, <2>6 DEF Inv, DoubtBlocks, Blocked
    <3> QED BY <1>1, <2>4, <3>1 DEF Inv, DoubtBlocks
  <2> QED BY <2>10, <2>12, <2>13, <2>14, <2>15, <2>16, <2>17, <2>18 DEF Inv
<1> QED BY <1>2, <1>3

\* Between the write of a completion and the release of the dependents, in the
\* same transaction: the jobs are js and the sessions ss.
MidTypes(js, ss) ==
  /\ js \in [Jobs -> JobRow] /\ ss \in [Sessions -> SessionRow]
  /\ run' \in [Jobs -> [1..MaxAttempts -> RunStates]] /\ UNCHANGED <<caller, doubt>>

MidRuns(js, ss) ==
  \A j \in Jobs, n \in 1..MaxAttempts : run'[j][n] = "running" =>
    /\ js[j].state = "running" /\ js[j].attempts = n /\ js[j].session \in Sessions
    /\ ss[js[j].session].state \in Held /\ Recorded(ss[js[j].session])
    /\ \A k \in Jobs, m \in 1..MaxAttempts :
         run'[k][m] = "running" /\ js[k].session = js[j].session => k = j /\ m = n

MidOwn(js, ss) ==
  /\ \A j \in Jobs : ss[j].state # "absent" => js[j].state \notin {"absent", "pending"}
  /\ \A s \in Sessions : ss[s].state = "absent" => ~Recorded(ss[s])

MidGiven(js) ==
  \A j \in Jobs :
    IF js[j].state \in {"absent", "pending"} THEN \A i \in Jobs : transfer[i][j] = Nothing
    ELSE /\ js[j].session \in Sessions
         /\ \A i \in Jobs : transfer[i][j] = Nothing \/ i \in Range(Deps[j])
         /\ \A i \in Range(Deps[j]) :
              /\ js[i].state = "succeeded" /\ transfer[i][j].session = js[i].session
              /\ transfer[i][j].attempt \in 1..MaxAttempts
              /\ run'[i][transfer[i][j].attempt] = "succeeded"

MidLast(js) ==
  /\ \A j \in Jobs : js[j].state = "succeeded" =>
       js[j].attempts \in 1..MaxAttempts /\ run'[j][js[j].attempts] = "succeeded"
  /\ \A j \in Jobs, n \in 1..MaxAttempts : run'[j][n] = "unknown" =>
       js[j].attempts = n /\ js[j].state = "needs_operator"

MidWarm(ss) ==
  /\ \A p \in Callers : Inside(caller[p]) =>
       /\ ss[caller[p].session].state = "warming" /\ Covers(ss[caller[p].session], caller[p].todo)
  /\ \A s \in Sessions : \A c \in Commands : <<s, c>> \in doubt => Blocked(ss[s], c)

Between(js, ss) == /\ MidTypes(js, ss) /\ MidRuns(js, ss) /\ MidOwn(js, ss) /\ MidGiven(js)
                   /\ MidLast(js) /\ MidWarm(ss)

\* The jobs that become ready, and the sessions they may be given.
Freed(done, js) == UNION {Released(i, js) : i \in done}
Homes(j, js) == IF Mention[j] # None THEN {Mention[j]}
                ELSE {j} \cup {js[i].session : i \in {i \in Range(Deps[j]) : Len(Deps[j]) = 1}}

\* What a release does: the jobs of ready were pending, with all their
\* dependencies succeeded; they become ready with a session, new for those that
\* branch, and are given the result of every dependency.
Releases(ready, js, ss) ==
  /\ \A j \in ready : js[j].state = "pending" /\ \A d \in Range(Deps[j]) : js[d].state = "succeeded"
  /\ job' \in [Jobs -> JobRow] /\ session' \in [Sessions -> SessionRow]
  /\ \A j \in Jobs \ ready : job'[j] = js[j]
  /\ \A j \in ready : job'[j].state = "ready" /\ job'[j].session \in Sessions
  /\ \A j \in ready : job'[j].attempts = js[j].attempts /\ job'[j].session \in Homes(j, js)
  /\ \A s \in Sessions : session'[s] = IF s \in ready /\ job'[s].session = s THEN New ELSE ss[s]
  /\ transfer' = [i \in Jobs |-> [j \in Jobs |-> transfer'[i][j]]]
  /\ \A j \in ready : \A i \in Range(Deps[j]) :
       transfer'[i][j].session = js[i].session /\ transfer'[i][j].attempt = js[i].attempts
  /\ \A i, j \in Jobs : (j \notin ready \/ i \notin Range(Deps[j])) => transfer'[i][j] = transfer[i][j]

\* Without a release the transaction ends there.
LEMMA BetweenKeepsInv ==
  ASSUME Inv, Between(job', session'), UNCHANGED transfer
  PROVE  Inv'
<1>1. Types'
  BY DEF Inv, Types, Between, MidTypes
<1>2. RunsHold'
  BY DEF Between, MidRuns, RunsHold, Prepared, Recorded
<1>3. OwnSession' /\ ReleasedGiven'
  BY DEF Between, MidOwn, MidGiven, OwnSession, ReleasedGiven, Given, Waits, Prepared, Recorded
<1>4. SuccessRan' /\ UnknownLast'
  BY DEF Between, MidLast, SuccessRan, UnknownLast
<1>5. WarmedAlone' /\ DoubtBlocks'
  BY DEF Between, MidTypes, MidWarm, Inv, WarmedAlone, DoubtBlocks
<1> QED BY <1>1, <1>2, <1>3, <1>4, <1>5 DEF Inv

\* Releasing the dependents of finished jobs does that.
LEMMA ReleaseDoes ==
  ASSUME Inv, NEW done \in SUBSET Jobs, NEW js, NEW ss, Between(js, ss),
         PrepareDependents(done, js, ss)
  PROVE  Freed(done, js) \in SUBSET Jobs /\ Releases(Freed(done, js), js, ss)
<1> DEFINE ready == UNION {Released(i, js) : i \in done}
           from(j) == CHOOSE i \in done : j \in Released(i, js)
           target(j) == Target(j, from(j), js)
           given == {g \in Jobs \X ready : g[1] \in Range(Deps[g[2]]) /\ transfer[g[1]][g[2]] = Nothing}
<1>1. /\ job' = [j \in Jobs |-> IF j \in ready
                   THEN [js[j] EXCEPT !.state = "ready", !.session = target(j)] ELSE js[j]]
      /\ session' = [s \in Sessions |-> IF s \in ready /\ target(s) = s THEN New ELSE ss[s]]
      /\ transfer' = [i \in Jobs |-> [j \in Jobs |-> IF <<i, j>> \in given
                        THEN [session |-> js[i].session, attempt |-> js[i].attempts]
                        ELSE transfer[i][j]]]
  BY Zenon DEF PrepareDependents
<1>2. ready \in SUBSET Jobs
  BY DEF Released
<1>3. \A j \in ready : from(j) \in done /\ j \in Released(from(j), js)
  <2>1. ASSUME NEW j \in ready PROVE \E i \in done : j \in Released(i, js)
    OBVIOUS
  <2> QED BY <2>1
<1>4. \A j \in ready : /\ js[j].state = "pending" /\ \A d \in Range(Deps[j]) : js[d].state = "succeeded"
                       /\ from(j) \in Range(Deps[j])
  <2> HIDE DEF from, ready
  <2> QED BY <1>3 DEF Released
<1>5. \A j \in ready : target(j) \in Sessions /\ target(j) \in Homes(j, js)
  <2> HIDE DEF from, ready
  <2>1. \A j \in ready : js[from(j)].session \in Sessions
    BY <1>2, <1>4, Dependencies DEF Between, MidGiven
  <2>2. \A j \in Jobs : Mention[j] # None => Mention[j] \in Sessions
    BY SessionAssumption DEF Sessions
  <2>3. \A j \in ready : target(j) \in Sessions
    BY <1>2, <2>1, <2>2 DEF Target, Sessions
  <2>4. \A j \in ready : target(j) \in Homes(j, js)
    BY <1>4 DEF Target, Homes
  <2> QED BY <2>3, <2>4
<1>6. \A j \in ready : \A i \in Jobs : transfer[i][j] = Nothing
  <2> HIDE DEF ready
  <2> QED BY <1>2, <1>4 DEF Between, MidGiven
<1>7. \A i, j \in Jobs : <<i, j>> \in given <=> j \in ready /\ i \in Range(Deps[j])
  <2> HIDE DEF ready
  <2> QED BY <1>6
<1> HIDE DEF ready, given, target, from
<1>8. New \in SessionRow
  BY DEF New, Absent, SessionRow
<1>9. session' \in [Sessions -> SessionRow]
      /\ \A s \in Sessions : session'[s] = IF s \in ready /\ target(s) = s THEN New ELSE ss[s]
  BY <1>1, <1>8 DEF Between, MidTypes
<1>10. \A j \in ready : LET row == [js[j] EXCEPT !.state = "ready", !.session = target(j)]
                        IN row \in JobRow /\ row.state = "ready" /\ row.session = target(j)
                           /\ row.attempts = js[j].attempts
  <2>1. ASSUME NEW j \in ready
        PROVE  LET row == [js[j] EXCEPT !.state = "ready", !.session = target(j)]
               IN row \in JobRow /\ row.state = "ready" /\ row.session = target(j)
                  /\ row.attempts = js[j].attempts
    <3>1. js[j] \in JobRow /\ target(j) \in Sessions
      BY <1>2, <1>5 DEF Between, MidTypes
    <3> QED BY <3>1 DEF JobRow
  <2> QED BY <2>1
<1>11. job' \in [Jobs -> JobRow] /\ (\A j \in Jobs \ ready : job'[j] = js[j])
       /\ \A j \in ready : /\ job'[j].state = "ready" /\ job'[j].session \in Sessions
                           /\ job'[j].attempts = js[j].attempts /\ job'[j].session = target(j)
  <2>1. \A j \in Jobs : job'[j] = IF j \in ready
                          THEN [js[j] EXCEPT !.state = "ready", !.session = target(j)] ELSE js[j]
    BY <1>1
  <2>2. \A j \in Jobs : job'[j] \in JobRow
    BY <1>10, <2>1 DEF Between, MidTypes
  <2>3. job' = [j \in Jobs |-> job'[j]]
    BY <1>1
  <2> QED BY <1>2, <1>5, <1>10, <2>1, <2>2, <2>3
<1>12. \A j \in ready : Range(Deps[j]) \subseteq Jobs
  BY <1>2, Dependencies
<1>13. /\ transfer' = [i \in Jobs |-> [j \in Jobs |-> transfer'[i][j]]]
       /\ \A j \in ready : \A i \in Range(Deps[j]) :
            transfer'[i][j].session = js[i].session /\ transfer'[i][j].attempt = js[i].attempts
       /\ \A i, j \in Jobs : (j \notin ready \/ i \notin Range(Deps[j])) => transfer'[i][j] = transfer[i][j]
  BY <1>1, <1>2, <1>7, <1>12
<1>14. \A s \in Sessions : session'[s] = IF s \in ready /\ job'[s].session = s THEN New ELSE ss[s]
  BY <1>9, <1>11
<1>15. Releases(ready, js, ss)
  BY <1>4, <1>5, <1>9, <1>11, <1>13, <1>14 DEF Releases
<1> QED BY <1>2, <1>15 DEF ready, Freed

\* A release keeps the invariant: the jobs it makes ready are given all they
\* depend on, and the sessions it makes existed for nobody.
LEMMA ReleaseKeepsInv ==
  ASSUME Inv, NEW done \in SUBSET Jobs, NEW js, NEW ss, Between(js, ss),
         PrepareDependents(done, js, ss)
  PROVE  Inv'
<1>1. PICK ready \in SUBSET Jobs : Releases(ready, js, ss)
  BY ReleaseDoes
<1>2. Types'
  BY <1>1 DEF Inv, Types, Between, MidTypes, Releases
<1>3. \A s \in ready : s \in Sessions /\ ss[s].state = "absent"
  BY <1>1 DEF Between, MidOwn, Releases, Sessions
<1>4. New.state = "new" /\ ~Recorded(New)
  BY DEF New, Absent, Recorded, Commands
<1>5. RunsHold'
  <2> SUFFICES ASSUME NEW k \in Jobs, NEW m \in 1..MaxAttempts, run'[k][m] = "running"
               PROVE  /\ job'[k].state = "running" /\ job'[k].attempts = m
                      /\ job'[k].session \in Sessions
                      /\ session'[job'[k].session].state \in Held
                      /\ Recorded(session'[job'[k].session])
                      /\ \A l \in Jobs, v \in 1..MaxAttempts :
                           run'[l][v] = "running" /\ job'[l].session = job'[k].session => l = k /\ v = m
    BY DEF RunsHold, Prepared, Recorded
  <2>1. \A l \in Jobs, v \in 1..MaxAttempts : run'[l][v] = "running" => job'[l] = js[l]
    BY <1>1 DEF Between, MidRuns, Releases
  <2>2. session'[js[k].session] = ss[js[k].session]
    BY <1>1, <1>3 DEF Between, MidRuns, Releases, Held
  <2> QED BY <2>1, <2>2 DEF Between, MidRuns
<1>6. OwnSession'
  <2>1. \A j \in Jobs : j \in Sessions
    BY DEF Sessions
  <2>2. \A j \in Jobs : session'[j].state # "absent" => ~Waits(j)'
    BY <1>1, <2>1 DEF Between, MidOwn, Releases, Waits
  <2>3. \A s \in Sessions : session'[s].state = "absent" => ~Recorded(session'[s])
    BY <1>1, <1>4 DEF Between, MidOwn, Releases
  <2> QED BY <2>2, <2>3 DEF OwnSession, Prepared, Recorded
<1>7. ReleasedGiven'
  <2>1. \A j \in Jobs : \A i \in Range(Deps[j]) : i \in Jobs
    BY Dependencies
  <2>2. \A i \in Jobs : js[i].state = "succeeded" => job'[i] = js[i]
    BY <1>1 DEF Releases
  <2>3. \A j \in ready : \A i \in Range(Deps[j]) : Given(i, j)'
    <3> SUFFICES ASSUME NEW j \in ready, NEW i \in Range(Deps[j]) PROVE Given(i, j)'
      OBVIOUS
    <3>1. i \in Jobs /\ js[i].state = "succeeded" /\ job'[i] = js[i]
      BY <1>1, <2>1, <2>2 DEF Releases
    <3>2. transfer'[i][j].session = js[i].session /\ transfer'[i][j].attempt = js[i].attempts
      BY <1>1 DEF Releases
    <3> QED BY <3>1, <3>2 DEF Between, MidLast, Given
  <2>4. \A j \in Jobs \ ready : (Waits(j)' <=> js[j].state \in {"absent", "pending"})
          /\ \A i \in Jobs : transfer'[i][j] = transfer[i][j]
    BY <1>1 DEF Waits, Releases
  <2>5. \A j \in ready : ~Waits(j)' /\ job'[j].session \in Sessions
          /\ \A i \in Jobs : transfer'[i][j] = Nothing \/ i \in Range(Deps[j])
    BY <1>1 DEF Between, MidGiven, Releases, Waits
  <2>6. \A j \in Jobs \ ready : ~(Waits(j)') =>
          /\ job'[j].session \in Sessions
          /\ \A i \in Jobs : transfer'[i][j] = Nothing \/ i \in Range(Deps[j])
          /\ \A i \in Range(Deps[j]) : Given(i, j)'
    <3> SUFFICES ASSUME NEW j \in Jobs \ ready, ~(Waits(j)')
                 PROVE  /\ job'[j].session \in Sessions
                        /\ \A i \in Jobs : transfer'[i][j] = Nothing \/ i \in Range(Deps[j])
                        /\ \A i \in Range(Deps[j]) : Given(i, j)'
      OBVIOUS
    <3>1. job'[j] = js[j] /\ js[j].state \notin {"absent", "pending"}
      BY <1>1, <2>4 DEF Releases
    <3>2. /\ js[j].session \in Sessions
          /\ \A i \in Jobs : transfer[i][j] = Nothing \/ i \in Range(Deps[j])
          /\ \A i \in Range(Deps[j]) :
               /\ js[i].state = "succeeded" /\ transfer[i][j].session = js[i].session
               /\ transfer[i][j].attempt \in 1..MaxAttempts
               /\ run'[i][transfer[i][j].attempt] = "succeeded"
      BY <3>1 DEF Between, MidGiven
    <3>3. \A i \in Range(Deps[j]) : Given(i, j)'
      BY <2>1, <2>2, <2>4, <3>2 DEF Given
    <3> QED BY <2>4, <3>1, <3>2, <3>3
  <2>7. \A j \in Jobs \ ready : Waits(j)' => \A i \in Jobs : transfer'[i][j] = Nothing
    BY <2>4 DEF Between, MidGiven
  <2> QED BY <2>3, <2>5, <2>6, <2>7 DEF ReleasedGiven
<1>8. SuccessRan' /\ UnknownLast'
  BY <1>1 DEF Between, MidLast, Releases, SuccessRan, UnknownLast
<1>9. \A s \in Sessions : ss[s].state \in {"warming", "recovering"} => session'[s] = ss[s]
  BY <1>1, <1>3 DEF Releases
<1>10. WarmedAlone'
  <2>1. \A q \in Callers : Inside(caller[q]) => caller[q].session \in Sessions
    BY DEF Inv, Types, Placed, Inside
  <2> QED BY <1>9, <2>1 DEF Between, MidTypes, MidWarm, Inv, WarmedAlone
<1>11. DoubtBlocks'
  BY <1>9 DEF Between, MidTypes, MidWarm, Inv, DoubtBlocks, Blocked
<1> QED BY <1>2, <1>5, <1>6, <1>7, <1>8, <1>10, <1>11 DEF Inv

\* A completion closes the run of its job, which holds its session; the
\* dependents of a success are released in the same transaction, which is so far
\* as the invariant has it.
LEMMA CompletionMid ==
  ASSUME Inv, NEW j \in Jobs, NEW n \in 1..MaxAttempts,
         NEW state \in {"succeeded", "failed", "cancelled"}, CompleteRun(j, n, state)
  PROVE  LET last == IF state = "succeeded" THEN "completed" ELSE "failed"
         IN Between([job EXCEPT ![j].state = state],
                    [session EXCEPT ![job[j].session].state = last])
<1> DEFINE s == job[j].session
           last == IF state = "succeeded" THEN "completed" ELSE "failed"
           jrow == [job[j] EXCEPT !.state = state]
           srow == [session[s] EXCEPT !.state = last]
           js == [job EXCEPT ![j].state = state]
           ss == [session EXCEPT ![s].state = last]
<1>1. /\ run[j][n] = "running" /\ run' = [run EXCEPT ![j][n] = state] /\ UNCHANGED <<caller, doubt>>
      /\ IF state = "succeeded" THEN PrepareDependents({j}, js, ss)
         ELSE job' = js /\ session' = ss /\ UNCHANGED transfer
  BY Zenon DEF CompleteRun, past
<1>2. /\ job[j].state = "running" /\ job[j].attempts = n /\ s \in Sessions
      /\ session[s].state \in Held /\ Prepared(s) /\ job[j] \in JobRow /\ session[s] \in SessionRow
      /\ \A k \in Jobs, m \in 1..MaxAttempts :
           run[k][m] = "running" /\ job[k].session = s => k = j /\ m = n
  BY <1>1 DEF Inv, RunsHold, Types
<1>3. jrow \in JobRow /\ jrow.state = state /\ jrow.session = s /\ jrow.attempts = n
      /\ srow \in SessionRow /\ srow.state = last /\ last # "absent"
  <2>1. jrow \in JobRow /\ jrow.state = state /\ jrow.session = job[j].session /\ jrow.attempts = job[j].attempts
    BY <1>2 DEF JobRow
  <2>2. last \in {"completed", "failed"}
    OBVIOUS
  <2> HIDE DEF last, s
  <2>3. srow \in SessionRow /\ srow.state = last
    BY <1>2, <2>2 DEF SessionRow
  <2> HIDE DEF jrow, srow
  <2> QED BY <1>2, <2>1, <2>2, <2>3 DEF s
<1>4. /\ js \in [Jobs -> JobRow] /\ ss \in [Sessions -> SessionRow]
      /\ \A k \in Jobs : js[k] = IF k = j THEN jrow ELSE job[k]
      /\ \A t \in Sessions : ss[t] = IF t = s THEN srow ELSE session[t]
  <2>1. js = [job EXCEPT ![j] = jrow] /\ ss = [session EXCEPT ![s] = srow]
    BY <1>2 DEF Inv, Types
  <2> HIDE DEF jrow, srow, s, js, ss
  <2> QED BY <1>2, <1>3, <2>1 DEF Inv, Types
<1>5. /\ run' \in [Jobs -> [1..MaxAttempts -> RunStates]]
      /\ \A k \in Jobs, m \in 1..MaxAttempts :
           run'[k][m] = IF k = j /\ m = n THEN state ELSE run[k][m]
  BY <1>1 DEF Inv, Types, RunStates
<1> HIDE DEF jrow, srow, s, js, ss, last
<1>6. MidTypes(js, ss)
  BY <1>1, <1>4, <1>5 DEF MidTypes
<1>7. MidRuns(js, ss)
  <2> SUFFICES ASSUME NEW k \in Jobs, NEW m \in 1..MaxAttempts, run'[k][m] = "running"
               PROVE  /\ js[k].state = "running" /\ js[k].attempts = m /\ js[k].session \in Sessions
                      /\ ss[js[k].session].state \in Held /\ Recorded(ss[js[k].session])
                      /\ \A l \in Jobs, v \in 1..MaxAttempts :
                           run'[l][v] = "running" /\ js[l].session = js[k].session => l = k /\ v = m
    BY DEF MidRuns
  <2>1. \A l \in Jobs, v \in 1..MaxAttempts : run'[l][v] = "running" =>
          run[l][v] = "running" /\ l # j /\ js[l] = job[l] /\ job[l].session # s
    BY <1>2, <1>4, <1>5 DEF Inv, RunsHold
  <2>2. js[k] = job[k] /\ ss[job[k].session] = session[job[k].session] /\ job[k].session \in Sessions
    BY <1>4, <2>1 DEF Inv, RunsHold
  <2> QED BY <2>1, <2>2 DEF Inv, RunsHold, Prepared, Recorded
<1>8. MidOwn(js, ss)
  <2>1. \A k \in Jobs : k \in Sessions
    BY DEF Sessions
  <2>2. \A k \in Jobs : ss[k].state # "absent" => js[k].state \notin {"absent", "pending"}
    BY <1>2, <1>3, <1>4, <2>1 DEF Inv, OwnSession, Waits
  <2>3. \A t \in Sessions : ss[t].state = "absent" => ~Recorded(ss[t])
    BY <1>3, <1>4 DEF Inv, OwnSession, Prepared, Recorded
  <2> QED BY <2>2, <2>3 DEF MidOwn
<1>9. MidGiven(js)
  <2>1. \A k \in Jobs : (js[k].state \in {"absent", "pending"} <=> Waits(k)) /\ js[k].session = job[k].session
    BY <1>2, <1>3, <1>4 DEF Waits, s
  <2>2. \A i, k \in Jobs : Given(i, k) =>
          /\ js[i].state = "succeeded" /\ transfer[i][k].session = js[i].session
          /\ transfer[i][k].attempt \in 1..MaxAttempts
          /\ run'[i][transfer[i][k].attempt] = "succeeded"
    <3> SUFFICES ASSUME NEW i \in Jobs, NEW k \in Jobs, Given(i, k)
                 PROVE  /\ js[i].state = "succeeded" /\ transfer[i][k].session = js[i].session
                        /\ transfer[i][k].attempt \in 1..MaxAttempts
                        /\ run'[i][transfer[i][k].attempt] = "succeeded"
      OBVIOUS
    <3>1. i # j /\ js[i] = job[i]
      BY <1>2, <1>4 DEF Given
    <3> QED BY <1>5, <3>1 DEF Given
  <2> QED BY <2>1, <2>2, Dependencies DEF Inv, ReleasedGiven, MidGiven
<1>10. MidLast(js)
  <2>1. \A k \in Jobs : js[k].state = "succeeded" =>
          js[k].attempts \in 1..MaxAttempts /\ run'[k][js[k].attempts] = "succeeded"
    <3>1. CASE state = "succeeded"
      <4>1. js[j].attempts \in 1..MaxAttempts /\ run'[j][js[j].attempts] = "succeeded"
        BY <1>3, <1>4, <1>5, <3>1
      <4> QED BY <1>4, <1>5, <4>1 DEF Inv, SuccessRan
    <3>2. CASE state # "succeeded"
      BY <1>3, <1>4, <1>5, <3>2 DEF Inv, SuccessRan
    <3> QED BY <3>1, <3>2
  <2>2. \A k \in Jobs, m \in 1..MaxAttempts : run'[k][m] = "unknown" => k # j /\ run[k][m] = "unknown"
    BY <1>2, <1>5 DEF Inv, UnknownLast
  <2>3. \A k \in Jobs, m \in 1..MaxAttempts : run'[k][m] = "unknown" =>
          js[k].attempts = m /\ js[k].state = "needs_operator"
    BY <1>4, <2>2 DEF Inv, UnknownLast
  <2> QED BY <2>1, <2>3 DEF MidLast
<1>11. MidWarm(ss)
  <2>1. \A q \in Callers : Inside(caller[q]) => caller[q].session \in Sessions \ {s}
    BY <1>2 DEF Inv, WarmedAlone, Types, Placed, Inside, Held
  <2>2. \A c \in Commands : <<s, c>> \notin doubt
    BY <1>2 DEF Inv, DoubtBlocks, Blocked, Prepared
  <2> QED BY <1>2, <1>4, <2>1, <2>2 DEF Inv, WarmedAlone, DoubtBlocks, MidWarm
<1>12. Between(js, ss)
  BY <1>6, <1>7, <1>8, <1>9, <1>10, <1>11 DEF Between
<1> QED BY <1>12 DEF js, ss, s, last

LEMMA CompleteKeepsInv ==
  ASSUME Inv, NEW j \in Jobs, NEW n \in 1..MaxAttempts,
         NEW state \in {"succeeded", "failed", "cancelled"}, CompleteRun(j, n, state)
  PROVE  Inv'
<1> DEFINE last == IF state = "succeeded" THEN "completed" ELSE "failed"
           js == [job EXCEPT ![j].state = state]
           ss == [session EXCEPT ![job[j].session].state = last]
<1>1. IF state = "succeeded" THEN PrepareDependents({j}, js, ss)
      ELSE job' = js /\ session' = ss /\ UNCHANGED transfer
  BY Zenon DEF CompleteRun
<1>2. Between(js, ss)
  BY CompletionMid
<1> HIDE DEF js, ss
<1> QED BY <1>1, <1>2, BetweenKeepsInv, ReleaseKeepsInv

\* The other steps of the jobs.
LEMMA ReadyMid == ASSUME Inv, UNCHANGED <<run, caller, doubt>> PROVE Between(job, session)
<1>1. MidTypes(job, session) /\ MidRuns(job, session)
  BY DEF Inv, Types, MidTypes, RunsHold, Prepared, Recorded, MidRuns
<1>2. MidOwn(job, session) /\ MidGiven(job)
  BY DEF Inv, OwnSession, Waits, Prepared, Recorded, MidOwn, ReleasedGiven, Given, MidGiven
<1>3. MidLast(job) /\ MidWarm(session)
  BY DEF Inv, SuccessRan, UnknownLast, MidLast, WarmedAlone, DoubtBlocks, MidWarm
<1> QED BY <1>1, <1>2, <1>3 DEF Between

LEMMA ReadyJobsKeepInv == ASSUME Inv, ReadyJobs PROVE Inv'
<1>1. PICK done \in SUBSET Jobs : PrepareDependents(done, job, session)
  BY DEF ReadyJobs
<1>2. UNCHANGED <<run, caller, doubt>>
  BY DEF ReadyJobs, past
<1> QED BY <1>1, <1>2, ReadyMid, ReleaseKeepsInv

LEMMA RegisterKeepsInv == ASSUME Inv, NEW j \in Jobs, RegisterJob(j) PROVE Inv'
<1> DEFINE own == Mention[j] = None /\ Deps[j] = <<>>
           named == IF own THEN j ELSE Mention[j]
           first == IF Deps[j] = <<>> THEN "ready" ELSE "pending"
           jrow == [attempts |-> 0, session |-> named, state |-> first]
<1>1. /\ job[j].state = "absent" /\ UNCHANGED <<run, transfer, caller, doubt>>
      /\ session' = IF own THEN [session EXCEPT ![j] = New] ELSE session
      /\ job' = [job EXCEPT ![j] = jrow]
  BY DEF RegisterJob, past
<1>2. j \in Sessions /\ session[j].state = "absent" /\ New \in SessionRow
      /\ New.state = "new" /\ ~Recorded(New)
  BY <1>1, SessionAssumption
  DEF Inv, OwnSession, Waits, Sessions, New, Absent, SessionRow, Recorded, Commands
<1>3. /\ named \in Sessions \cup {None} /\ first \in {"ready", "pending"}
      /\ first = "ready" => named \in Sessions /\ Deps[j] = <<>>
      /\ own => first = "ready"
  BY SessionAssumption DEF Sessions
<1>4. jrow \in JobRow /\ jrow.session = named /\ jrow.state = first
  <2> HIDE DEF named, first
  <2> QED BY <1>3, SessionAssumption DEF JobRow
<1> HIDE DEF jrow, named, first
<1>5. job' \in [Jobs -> JobRow] /\ \A k \in Jobs : job'[k] = IF k = j THEN jrow ELSE job[k]
  BY <1>1, <1>4 DEF Inv, Types
<1>6. session' \in [Sessions -> SessionRow]
      /\ \A t \in Sessions : session'[t] = IF own /\ t = j THEN New ELSE session[t]
  BY <1>1, <1>2 DEF Inv, Types
<1>7. MidTypes(job', session')
  BY <1>1, <1>5, <1>6 DEF Inv, Types, MidTypes
<1>8. MidRuns(job', session')
  <2> SUFFICES ASSUME NEW k \in Jobs, NEW m \in 1..MaxAttempts, run[k][m] = "running"
               PROVE  /\ job'[k].state = "running" /\ job'[k].attempts = m /\ job'[k].session \in Sessions
                      /\ session'[job'[k].session].state \in Held /\ Recorded(session'[job'[k].session])
                      /\ \A l \in Jobs, v \in 1..MaxAttempts :
                           run[l][v] = "running" /\ job'[l].session = job'[k].session => l = k /\ v = m
    BY <1>1 DEF MidRuns
  <2>1. \A l \in Jobs, v \in 1..MaxAttempts : run[l][v] = "running" =>
          job'[l] = job[l] /\ job[l].session # j
    <3>1. session[j].state \notin Held
      BY <1>2 DEF Held
    <3> QED BY <1>1, <1>2, <1>5, <3>1 DEF Inv, RunsHold
  <2>2. session'[job[k].session] = session[job[k].session]
    BY <1>6, <2>1 DEF Inv, RunsHold
  <2> QED BY <2>1, <2>2 DEF Inv, RunsHold, Prepared, Recorded
<1>9. MidOwn(job', session')
  <2>1. \A k \in Jobs : k \in Sessions
    BY DEF Sessions
  <2>2. \A k \in Jobs : session'[k].state # "absent" => job'[k].state \notin {"absent", "pending"}
    BY <1>2, <1>3, <1>4, <1>5, <1>6, <2>1 DEF Inv, OwnSession, Waits
  <2>3. \A t \in Sessions : session'[t].state = "absent" => ~Recorded(session'[t])
    BY <1>2, <1>6 DEF Inv, OwnSession, Prepared, Recorded
  <2> QED BY <2>2, <2>3 DEF MidOwn
<1>10. MidGiven(job')
  <2>1. Range(<<>>) = {} /\ \A i \in Jobs : transfer[i][j] = Nothing
    BY <1>1 DEF Range, Inv, ReleasedGiven, Waits
  <2>2. \A i, k \in Jobs : Given(i, k) =>
          /\ job'[i].state = "succeeded" /\ transfer[i][k].session = job'[i].session
          /\ transfer[i][k].attempt \in 1..MaxAttempts
          /\ run'[i][transfer[i][k].attempt] = "succeeded"
    BY <1>1, <1>5 DEF Given
  <2>3. \A k \in Jobs \ {j} : job'[k] = job[k]
    BY <1>5
  <2>4. ASSUME NEW k \in Jobs \ {j}
        PROVE IF job'[k].state \in {"absent", "pending"} THEN \A i \in Jobs : transfer[i][k] = Nothing
              ELSE /\ job'[k].session \in Sessions
                   /\ \A i \in Jobs : transfer[i][k] = Nothing \/ i \in Range(Deps[k])
                   /\ \A i \in Range(Deps[k]) :
                        /\ job'[i].state = "succeeded" /\ transfer[i][k].session = job'[i].session
                        /\ transfer[i][k].attempt \in 1..MaxAttempts
                        /\ run'[i][transfer[i][k].attempt] = "succeeded"
    BY <2>2, <2>3, Dependencies DEF Inv, ReleasedGiven, Waits
  <2>5. job'[j] = jrow
    BY <1>5
  <2> QED BY <1>3, <1>4, <2>1, <2>4, <2>5 DEF MidGiven
<1>11. MidLast(job')
  BY <1>1, <1>3, <1>4, <1>5 DEF Inv, SuccessRan, UnknownLast, MidLast
<1>12. MidWarm(session')
  <2>1. \A q \in Callers : Inside(caller[q]) => caller[q].session \in Sessions \ {j}
    BY <1>2 DEF Inv, WarmedAlone, Types, Placed, Inside
  <2>2. \A c \in Commands : <<j, c>> \notin doubt
    BY <1>2 DEF Inv, DoubtBlocks, Blocked
  <2> QED BY <1>2, <1>6, <2>1, <2>2 DEF Inv, WarmedAlone, DoubtBlocks, MidWarm
<1> QED BY <1>1, <1>7, <1>8, <1>9, <1>10, <1>11, <1>12, BetweenKeepsInv DEF Between

LEMMA RetryJobKeepsInv == ASSUME Inv, NEW j \in Jobs, RetryJob(j) PROVE Inv'
<1>1. /\ job[j].state = "failed" /\ job' = [job EXCEPT ![j].state = "ready"]
      /\ UNCHANGED <<session, run, transfer, caller, doubt>>
  BY DEF RetryJob, Retried, past
<1> DEFINE jrow == [job[j] EXCEPT !.state = "ready"]
<1>2. jrow \in JobRow /\ jrow.state = "ready" /\ jrow.session = job[j].session
  BY DEF Inv, Types, JobRow
<1>3. job' = [job EXCEPT ![j] = jrow]
  BY <1>1 DEF Inv, Types
<1> HIDE DEF jrow
<1>4. job' \in [Jobs -> JobRow] /\ \A k \in Jobs : job'[k] = IF k = j THEN jrow ELSE job[k]
  BY <1>2, <1>3 DEF Inv, Types
<1>5. \A m \in 1..MaxAttempts : run[j][m] \notin {"running", "unknown"}
  BY <1>1 DEF Inv, RunsHold, UnknownLast
<1>6. Types'
  BY <1>1, <1>4 DEF Inv, Types
<1>7. \A k \in Jobs : job'[k].session = job[k].session
  BY <1>2, <1>4
<1>8. RunsHold'
  BY <1>1, <1>4, <1>5, <1>7 DEF Inv, RunsHold, Prepared
<1>9. \A k \in Jobs : Waits(k)' = Waits(k)
  BY <1>1, <1>2, <1>4 DEF Waits
<1>10. OwnSession'
  BY <1>1, <1>9 DEF Inv, OwnSession, Prepared
<1>11. ReleasedGiven'
  <2>1. \A i, k \in Jobs : Given(i, k) => Given(i, k)'
    BY <1>1, <1>4 DEF Given
  <2> QED BY <1>1, <1>7, <1>9, <2>1, Dependencies DEF Inv, ReleasedGiven
<1>12. SuccessRan' /\ UnknownLast'
  BY <1>1, <1>2, <1>4, <1>5 DEF Inv, SuccessRan, UnknownLast
<1>13. WarmedAlone' /\ DoubtBlocks'
  BY <1>1 DEF Inv, WarmedAlone, DoubtBlocks
<1> QED BY <1>6, <1>8, <1>10, <1>11, <1>12, <1>13 DEF Inv

\* After a restart nobody is inside a warm-up, and no run is running any more.
LEMMA RecoverKeepsInv == ASSUME Inv, Recover PROVE Inv'
<1> DEFINE Ran(j) == \E n \in 1..MaxAttempts : run[j][n] = "running"
           Hit(s) == Busy(s) \/ InFlight(s)
<1>1. /\ \A p \in Callers : ~Inside(caller[p])
      /\ run' = [j \in Jobs |-> [n \in 1..MaxAttempts |->
                   IF run[j][n] = "running" THEN "unknown" ELSE run[j][n]]]
      /\ job' = [j \in Jobs |-> IF Ran(j)
                   THEN [job[j] EXCEPT !.state = "needs_operator"] ELSE job[j]]
      /\ session' = [s \in Sessions |-> IF Hit(s)
                   THEN [session[s] EXCEPT !.state = "recovering"] ELSE session[s]]
      /\ UNCHANGED <<transfer, caller, doubt>>
  BY DEF Recover, past, Inside
<1>2. \A j \in Jobs : Ran(j) => job[j].state = "running"
  BY DEF Inv, RunsHold
<1>3. \A s \in Sessions : Hit(s) => session[s].state \in {"running", "ready", "warming"}
  BY DEF Inv, RunsHold, Held, Busy, InFlight
<1> HIDE DEF Ran, Hit
<1>4. \A j \in Jobs : /\ job'[j] \in JobRow /\ job'[j].session = job[j].session
                      /\ job'[j].attempts = job[j].attempts
                      /\ job'[j].state = IF Ran(j) THEN "needs_operator" ELSE job[j].state
  <2>1. \A row \in JobRow : LET to == [row EXCEPT !.state = "needs_operator"]
          IN to \in JobRow /\ to.session = row.session /\ to.attempts = row.attempts
             /\ to.state = "needs_operator"
    BY DEF JobRow
  <2>2. \A j \in Jobs : job[j] \in JobRow
    BY DEF Inv, Types
  <2> QED BY <1>1, <2>1, <2>2
<1>5. \A s \in Sessions : /\ session'[s] \in SessionRow /\ session'[s].status = session[s].status
                          /\ session'[s].state = IF Hit(s) THEN "recovering" ELSE session[s].state
  <2>1. \A row \in SessionRow : LET to == [row EXCEPT !.state = "recovering"]
          IN to \in SessionRow /\ to.status = row.status /\ to.state = "recovering"
    BY DEF SessionRow
  <2>2. \A s \in Sessions : session[s] \in SessionRow
    BY DEF Inv, Types
  <2> QED BY <1>1, <2>1, <2>2
<1>6. run' \in [Jobs -> [1..MaxAttempts -> RunStates]]
      /\ \A j \in Jobs, n \in 1..MaxAttempts :
           run'[j][n] = IF run[j][n] = "running" THEN "unknown" ELSE run[j][n]
  BY <1>1 DEF Inv, Types, RunStates
<1>7. Types'
  <2>1. job' \in [Jobs -> JobRow] /\ session' \in [Sessions -> SessionRow]
    BY <1>1, <1>4, <1>5
  <2> QED BY <1>1, <1>6, <2>1 DEF Inv, Types
<1>8. RunsHold'
  BY <1>6 DEF RunsHold
<1>9. \A j \in Jobs : Waits(j)' <=> Waits(j)
  BY <1>2, <1>4 DEF Waits
<1>10. OwnSession'
  <2>1. \A j \in Jobs : j \in Sessions
    BY DEF Sessions
  <2> QED BY <1>3, <1>5, <1>9, <2>1 DEF Inv, OwnSession, Prepared
<1>11. ReleasedGiven'
  <2>1. \A i, k \in Jobs : Given(i, k) => Given(i, k)'
    BY <1>1, <1>2, <1>4, <1>6 DEF Given
  <2> QED BY <1>1, <1>4, <1>9, <2>1, Dependencies DEF Inv, ReleasedGiven
<1>12. SuccessRan'
  BY <1>2, <1>4, <1>6 DEF Inv, SuccessRan
<1>13. UnknownLast'
  <2> SUFFICES ASSUME NEW j \in Jobs, NEW n \in 1..MaxAttempts, run'[j][n] = "unknown"
               PROVE  job'[j].attempts = n /\ job'[j].state = "needs_operator"
    BY DEF UnknownLast
  <2>1. CASE run[j][n] = "running"
    BY <1>4, <2>1 DEF Inv, RunsHold, Ran
  <2>2. CASE run[j][n] # "running"
    BY <1>4, <1>6, <2>2 DEF Inv, UnknownLast
  <2> QED BY <2>1, <2>2
<1>14. WarmedAlone' /\ DoubtBlocks'
  BY <1>1, <1>5 DEF Inv, WarmedAlone, DoubtBlocks, Blocked
<1> QED BY <1>7, <1>8, <1>10, <1>11, <1>12, <1>13, <1>14 DEF Inv

----------------------------------------------------------------------------
\* The whole specification

\* What comes into doubt is the command a caller has sent.
LEMMA DoubtStep == ASSUME Inv, DoubtType, [Next]_vars PROVE DoubtType'
<1>1. ASSUME NEW p \in Callers, caller[p].pc \in {"executing", "returned"}
      PROVE  <<caller[p].session, Head(caller[p].todo)>> \in Sessions \X Commands
  <2>1. caller[p].session \in Sessions /\ caller[p].todo \in Todos /\ caller[p].todo # <<>>
    BY <1>1 DEF Inv, Types, Placed, CallerRow
  <2> QED BY <2>1, TodoFront
<1>2. ASSUME NEW p \in Callers, OutcomeUnknown(p) PROVE DoubtType'
  <2>1. doubt' = doubt \cup {<<caller[p].session, Head(caller[p].todo)>>} /\ caller[p].pc = "executing"
    BY <1>2 DEF OutcomeUnknown
  <2> QED BY <1>1, <2>1 DEF DoubtType
<1>3. ASSUME NEW p \in Callers, Crash(p) PROVE DoubtType'
  <2>1. \/ doubt' = doubt
        \/ /\ doubt' = doubt \cup {<<caller[p].session, Head(caller[p].todo)>>}
           /\ caller[p].pc \in {"executing", "returned"}
    BY <1>3 DEF Crash
  <2> QED BY <1>1, <2>1 DEF DoubtType
<1>4. ASSUME NEW p \in Callers, NEW s, NEW confirmed, RetryWarmup(p, s, confirmed) PROVE DoubtType'
  BY <1>4 DEF RetryWarmup, DoubtType
<1>5. ASSUME NEW p \in Callers, Warming(p), ~OutcomeUnknown(p), ~RunnerRetries(p) PROVE doubt' = doubt
  BY <1>5 DEF Warming, ClaimWarmup, DeadlinePassed, BeginStep, Execute, Rejected, RecordStep,
              FinishWarmup, Adopt, StartRun, past
<1>6. ASSUME NEW p \in Callers, RunnerRetries(p) PROVE DoubtType'
  BY <1>4, <1>6 DEF RunnerRetries
<1>7. ASSUME NEW p \in Callers, NEW s \in Sessions, RunnerWarms(p, s) \/ OperatorRetries(p, s)
      PROVE  DoubtType'
  BY <1>4, <1>7 DEF RunnerWarms, OperatorRetries, past, DoubtType
<1>8. ASSUME \/ \E p \in Callers, j \in Jobs : ReadJob(p, j)
             \/ \E j \in Jobs : RegisterJob(j) \/ RetryJob(j)
             \/ \E j \in Jobs, n \in 1..MaxAttempts, state \in {"succeeded", "failed", "cancelled"} :
                  CompleteRun(j, n, state)
             \/ ReadyJobs \/ Recover \/ UNCHANGED vars
      PROVE  doubt' = doubt
  BY <1>8 DEF ReadJob, RegisterJob, RetryJob, CompleteRun, ReadyJobs, Recover, vars, past
<1> QED BY <1>2, <1>3, <1>5, <1>6, <1>7, <1>8 DEF Next, DoubtType

\* Every step keeps the invariant.
LEMMA InvStep == ASSUME Inv, DoubtType, [Next]_vars PROVE Inv'
<1>1. CASE UNCHANGED vars
  <2>1. UNCHANGED <<session, job, run, transfer, caller, doubt>>
    BY <1>1 DEF vars
  <2>2. Types' /\ RunsHold' /\ OwnSession'
    BY <2>1 DEF Inv, Types, RunsHold, Prepared, OwnSession, Waits
  <2>3. ReleasedGiven' /\ SuccessRan' /\ UnknownLast'
    BY <2>1 DEF Inv, ReleasedGiven, Given, Waits, SuccessRan, UnknownLast
  <2>4. WarmedAlone' /\ DoubtBlocks'
    BY <2>1 DEF Inv, WarmedAlone, DoubtBlocks
  <2> QED BY <2>2, <2>3, <2>4 DEF Inv
<1>2. ASSUME NEW p \in Callers, Warming(p) \/ Crash(p) PROVE Inv'
  BY <1>2, CallersKeepInv, StartKeepsInv DEF Warming
<1>3. ASSUME NEW p \in Callers, NEW s \in Sessions, RunnerWarms(p, s) \/ OperatorRetries(p, s)
      PROVE  Inv'
  BY <1>3, CallersKeepInv
<1>4. ASSUME NEW p \in Callers, NEW j \in Jobs, ReadJob(p, j) PROVE Inv'
  BY <1>4, CallersKeepInv
<1> QED BY <1>1, <1>2, <1>3, <1>4, RegisterKeepsInv, RetryJobKeepsInv, CompleteKeepsInv,
           ReadyJobsKeepInv, RecoverKeepsInv DEF Next

\* What the specification keeps.
LEMMA InvHolds == Spec => [](Inv /\ DoubtType)
<1>1. Init => Inv /\ DoubtType
  BY InvInit DEF Init, DoubtType
<1>2. Inv /\ DoubtType /\ [Next]_vars => (Inv /\ DoubtType)'
  BY InvStep, DoubtStep
<1> QED BY <1>1, <1>2, PTL DEF Spec

\* A run holds its session alone: for any jobs and sessions, and any
\* interleaving of callers, completions, retries, crashes and recoveries.
THEOREM RunsExclusive == Spec => []RunHoldsSession
<1>1. ASSUME Inv PROVE RunHoldsSession
  <2>1. TypeOK
    <3>1. None \notin Sessions
      BY SessionAssumption
    <3>2. session \in [Sessions -> SessionRow] /\ job \in [Jobs -> JobRow]
          /\ \A j \in Jobs, n \in 1..MaxAttempts : run[j][n] \in RunStates
      BY <1>1 DEF Inv, Types
    <3>3. \A j \in Jobs : job[j].state \notin {"absent", "pending"} => job[j].session # None
      BY <1>1, <3>1 DEF Inv, ReleasedGiven, Waits
    <3>4. \A i, j \in Jobs : transfer[i][j] = Nothing \/ i \in Range(Deps[j])
      BY <1>1 DEF Inv, ReleasedGiven
    <3>5. \A p \in Callers : caller[p].pc # "idle" => caller[p].session \in Sessions
      BY <1>1 DEF Inv, Types, Placed
    <3> QED BY <3>2, <3>3, <3>4, <3>5 DEF TypeOK, SessionRow, JobRow, RunStates
  <2>2. ASSUME NEW r \in Runs
        PROVE  LET s == job[r[1]].session IN
               /\ session[s].state \in {"running", "ready"} /\ Prepared(s)
               /\ job[r[1]].state = "running" /\ job[r[1]].attempts = r[2]
               /\ \A q \in Runs : job[q[1]].session = s => q = r
               /\ \A p \in Callers : caller[p].pc \in {"executing", "returned"} => caller[p].session # s
    <3>1. \A q \in Runs : q[1] \in Jobs /\ q[2] \in 1..MaxAttempts /\ run[q[1]][q[2]] = "running"
                          /\ q = <<q[1], q[2]>>
      BY DEF Runs
    <3>2. \A p \in Callers : caller[p].pc \in {"executing", "returned"} =>
            session[caller[p].session].state = "warming"
      BY <1>1 DEF Inv, Types, Placed, WarmedAlone, Inside
    <3> QED BY <1>1, <2>2, <3>1, <3>2 DEF Inv, RunsHold, Held
  <2> QED BY <2>1, <2>2 DEF RunHoldsSession
<1> QED BY <1>1, InvHolds, PTL

\* A job that may run has been given the result of the run that succeeded of
\* each dependency, whenever and by whichever completion it was released.
THEOREM ResultsGiven == Spec => []GivenInFull
<1>1. ASSUME Inv PROVE GivenInFull
  BY <1>1 DEF Inv, ReleasedGiven, Waits, Given, GivenInFull
<1> QED BY <1>1, InvHolds, PTL

\* A run given up as unknown is the last of its job, and releases nothing.
THEOREM UnknownStops == Spec => []UnknownRunIsLast
<1>1. ASSUME Inv PROVE UnknownRunIsLast
  <2>1. \A j, c \in Jobs : j \in Range(Deps[c]) /\ ~Waits(c) => job[j].state = "succeeded"
    BY <1>1 DEF Inv, ReleasedGiven, Given
  <2> QED BY <1>1, <2>1 DEF Inv, UnknownLast, UnknownRunIsLast, Waits
<1> QED BY <1>1, InvHolds, PTL

\* A command is sent only when no sending of it is in doubt, and /rpa-init only
\* after /compact was recorded.
THEOREM CommandsSentSafely == Spec => SentSafely
<1> DEFINE Sent(p) == caller[p].pc = "step" /\ caller'[p].pc = "executing"
           Safe(p) == /\ <<caller[p].session, Head(caller[p].todo)>> \notin doubt
                      /\ Head(caller[p].todo) = "rpa" =>
                           session[caller[p].session].status["compact"] = "succeeded"
<1>1. ASSUME Inv, NEW p \in Callers, Inside(caller[p]), caller[p].todo # <<>> PROVE Safe(p)
  <2>1. /\ \A c \in Commands : <<caller[p].session, c>> \notin doubt
        /\ Covers(session[caller[p].session], caller[p].todo) /\ caller[p].todo \in Todos
        /\ Head(caller[p].todo) \in Commands
    BY <1>1, AtWarmup, TodoFront DEF CallerRow
  <2>2. Head(caller[p].todo) = "rpa" => caller[p].todo = <<"rpa">>
    BY <1>1, <2>1, TodoFront DEF Todos
  <2> QED BY <1>1, <2>1, <2>2 DEF Covers
<1>2. ASSUME Inv, NEW p \in Callers, Next, Sent(p) PROVE BeginStep(p)
  <2> DEFINE Others(q) == \A v \in Callers \ {q} : caller'[v] = caller[v]
  <2>1. /\ \A q \in Callers : caller[q] \in CallerRow
        /\ caller = [v \in Callers |-> caller[v]] /\ Free.pc = "idle"
    BY <1>2 DEF Inv, Types, Placed, Free
  <2>2. ASSUME NEW q \in Callers, Leave(q) \/ Onward(q)
        PROVE  Others(q) /\ caller'[q].pc \in {"idle", "start"}
    BY <2>1, <2>2 DEF Leave, Onward, Goto, CallerRow
  <2>3. ASSUME NEW q \in Callers,
               \/ ClaimWarmup(q) \/ Execute(q) \/ Rejected(q) \/ OutcomeUnknown(q) \/ RecordStep(q)
               \/ Adopt(q) \/ StartRun(q)
        PROVE  Others(q) /\ caller[q].pc # "step"
    BY <2>1, <2>2, <2>3 DEF ClaimWarmup, Execute, Rejected, OutcomeUnknown, RecordStep, Adopt,
                            StartRun, Goto
  <2>4. ASSUME NEW q \in Callers, NEW s, NEW confirmed, RetryWarmup(q, s, confirmed)
        PROVE  Others(q)
    BY <2>1, <2>2, <2>4 DEF RetryWarmup
  <2>5. ASSUME NEW q \in Callers,
               \/ RunnerRetries(q)
               \/ \E s \in Sessions : RunnerWarms(q, s) \/ OperatorRetries(q, s)
               \/ \E j \in Jobs : ReadJob(q, j)
        PROVE  Others(q) /\ caller[q].pc # "step"
    BY <2>1, <2>4, <2>5 DEF RunnerRetries, RunnerWarms, OperatorRetries, ReadJob
  <2>6. ASSUME NEW q \in Callers, DeadlinePassed(q) \/ FinishWarmup(q) \/ Crash(q)
        PROVE  Others(q) /\ caller'[q].pc \in {"idle", "start"}
    BY <2>2, <2>6 DEF DeadlinePassed, FinishWarmup, Crash
  <2>7. ASSUME NEW q \in Callers, BeginStep(q) PROVE Others(q)
    BY <2>1, <2>7 DEF BeginStep, Goto
  <2>8. ASSUME \/ \E j \in Jobs : RegisterJob(j) \/ RetryJob(j)
               \/ \E j \in Jobs, n \in 1..MaxAttempts, state \in {"succeeded", "failed", "cancelled"} :
                    CompleteRun(j, n, state)
               \/ ReadyJobs \/ Recover
        PROVE  caller' = caller
    BY <2>8 DEF RegisterJob, RetryJob, CompleteRun, ReadyJobs, Recover
  <2>9. caller'[p] # caller[p]
    BY <1>2
  <2>10. ASSUME NEW q \in Callers, Others(q) PROVE q = p
    BY <2>9, <2>10
  <2>11. ~(\E q \in Callers : DeadlinePassed(q) \/ FinishWarmup(q) \/ Crash(q))
    BY <1>2, <2>6, <2>10
  <2> QED BY <1>2, <2>3, <2>5, <2>7, <2>8, <2>9, <2>10, <2>11 DEF Next, Warming
<1>3. ASSUME Inv, [Next]_vars, NEW p \in Callers, Sent(p) PROVE Safe(p)
  <2>1. caller'[p] # caller[p]
    BY <1>3
  <2>2. BeginStep(p)
    BY <1>2, <1>3, <2>1 DEF vars
  <2>3. Inside(caller[p]) /\ caller[p].todo # <<>>
    BY <2>2 DEF BeginStep, Inside
  <2> QED BY <1>1, <1>3, <2>3
<1>4. Inv /\ [Next]_vars => [\A p \in Callers : Sent(p) => Safe(p)]_vars
  BY <1>3
<1> QED BY <1>4, InvHolds, PTL DEF SentSafely, Spec

----------------------------------------------------------------------------
\* What the contract sees of warm-ups

\* A job whose row says running has a run; one that was never registered, none.
JobRuns == \A j \in Jobs :
  /\ job[j].state = "running" =>
       job[j].attempts \in 1..MaxAttempts /\ run[j][job[j].attempts] = "running"
  /\ job[j].state = "absent" => job[j].attempts = 0

\* Nothing runs in a session whose row does not allow it.
LEMMA IdleUnless ==
  ASSUME Inv, JobRuns, NEW s \in Sessions, session[s].state \notin Held
  PROVE  Contract!Idle(s)
BY DEF Inv, RunsHold, JobRuns, Contract!Idle, Phase, Home

\* A session with a command sent is in its warm-up, by one caller, and nothing
\* of it is in doubt; what is not in a warm-up has no command sent.
LEMMA Sent ==
  ASSUME Inv, DoubtType
  PROVE  /\ \A p \in Callers : Out(caller[p]) =>
              /\ caller[p].session \in Sessions /\ Head(caller[p].todo) \in Commands
              /\ Sending[caller[p].session] = {Head(caller[p].todo)}
              /\ Unknown[caller[p].session] = {}
         /\ \A p \in Callers : Inside(caller[p]) /\ ~Out(caller[p]) => Contract!Quiet(caller[p].session)
         /\ \A s \in Sessions : session[s].state # "warming" => Sending[s] = {}
         /\ \A s \in Sessions : session[s].state \notin {"warming", "recovering"} => Contract!Quiet(s)
<1>1. \A p \in Callers : Out(caller[p]) => Inside(caller[p])
  BY DEF Out, Inside, Inv, Types, Placed
<1>2. ASSUME NEW p \in Callers, Inside(caller[p])
      PROVE  /\ caller[p].session \in Sessions /\ Unknown[caller[p].session] = {}
             /\ \A q \in Callers : Out(caller[q]) /\ caller[q].session = caller[p].session => q = p
  BY <1>1, <1>2 DEF Inv, Types, Placed, WarmedAlone, DoubtBlocks, Inside, Unknown
<1>3. ASSUME NEW p \in Callers, Out(caller[p])
      PROVE  Head(caller[p].todo) \in Commands /\ Sending[caller[p].session] = {Head(caller[p].todo)}
  <2>1. Head(caller[p].todo) \in Commands
    BY <1>3, TodoFront DEF Inv, Types, Placed, CallerRow, Out
  <2> QED BY <1>1, <1>2, <1>3, <2>1 DEF Sending
<1>4. ASSUME NEW p \in Callers, Inside(caller[p]), ~Out(caller[p])
      PROVE  Contract!Quiet(caller[p].session)
  BY <1>2, <1>4 DEF Sending, Contract!Quiet
<1>5. ASSUME NEW s \in Sessions, session[s].state # "warming" PROVE Sending[s] = {}
  BY <1>1, <1>5 DEF Inv, WarmedAlone, Sending
<1>6. ASSUME NEW s \in Sessions, session[s].state \notin {"warming", "recovering"} PROVE Contract!Quiet(s)
  BY <1>5, <1>6 DEF Inv, DoubtBlocks, Blocked, Unknown, Contract!Quiet
<1> QED BY <1>1, <1>2, <1>3, <1>4, <1>5, <1>6

\* A function that differs at one point.
LEMMA Excepted ==
  ASSUME NEW S, NEW f, NEW g, NEW x \in S, NEW y, f = [t \in S |-> f[t]], g = [t \in S |-> g[t]],
         \A t \in S : g[t] = IF t = x THEN y ELSE f[t]
  PROVE  g = [f EXCEPT ![x] = y]
OBVIOUS

\* How one caller's step changes what is sent.
LEMMA SendingStep ==
  ASSUME Inv, DoubtType, NEW p \in Callers, caller' = [caller EXCEPT ![p] = caller'[p]]
  PROVE  /\ ~Out(caller[p]) /\ ~Out(caller'[p]) => Sending' = Sending
         /\ Out(caller[p]) /\ ~Out(caller'[p]) =>
              Sending' = [Sending EXCEPT ![caller[p].session] = {}]
         /\ Inside(caller[p]) /\ Out(caller'[p]) /\ caller'[p].session = caller[p].session
            /\ caller'[p].todo = caller[p].todo /\ caller[p].todo # <<>> =>
              Sending' = [Sending EXCEPT ![caller[p].session] = {Head(caller[p].todo)}]
<1>1. \A q \in Callers \ {p} : caller'[q] = caller[q]
  BY DEF Inv, Types
<1>2. \A q \in Callers : Out(caller[q]) => Inside(caller[q])
  BY DEF Out, Inside, Inv, Types, Placed
<1>3. Inside(caller[p]) => /\ caller[p].session \in Sessions
        /\ \A q \in Callers \ {p} : ~(Out(caller[q]) /\ caller[q].session = caller[p].session)
  BY <1>2 DEF Inv, Types, Placed, WarmedAlone, Inside
<1>4. Inside(caller[p]) /\ caller[p].todo # <<>> => Head(caller[p].todo) \in Commands
  BY TodoFront DEF Inv, Types, Placed, CallerRow
<1> DEFINE at == caller[p].session
<1>5. Sending = [s \in Sessions |-> Sending[s]] /\ Sending' = [s \in Sessions |-> Sending'[s]]
  BY DEF Sending
<1>6. CASE ~Out(caller[p]) /\ ~Out(caller'[p])
  <2>1. \A q \in Callers : Out(caller'[q]) <=> Out(caller[q])
    BY <1>1, <1>6
  <2>2. \A q \in Callers : Out(caller[q]) => caller'[q] = caller[q]
    BY <1>1, <1>6
  <2>3. \A s \in Sessions, c \in Commands :
          (\E q \in Callers : Out(caller'[q]) /\ caller'[q].session = s /\ Head(caller'[q].todo) = c)
          <=> (\E q \in Callers : Out(caller[q]) /\ caller[q].session = s /\ Head(caller[q].todo) = c)
    BY <2>1, <2>2
  <2>4. Sending' = Sending
    BY <2>3 DEF Sending
  <2> QED BY <1>6, <2>4
<1>7. CASE Out(caller[p]) /\ ~Out(caller'[p])
  <2>1. \A s \in Sessions, c \in Commands :
          (\E q \in Callers : Out(caller'[q]) /\ caller'[q].session = s /\ Head(caller'[q].todo) = c)
          <=> s # caller[p].session
              /\ (\E q \in Callers : Out(caller[q]) /\ caller[q].session = s /\ Head(caller[q].todo) = c)
    BY <1>1, <1>2, <1>3, <1>7
  <2>2. \A s \in Sessions : Sending'[s] = IF s = at THEN {} ELSE Sending[s]
    BY <2>1 DEF Sending
  <2>3. Sending' = [Sending EXCEPT ![at] = {}]
    BY <1>2, <1>3, <1>7, <1>5, <2>2, Excepted
  <2> QED BY <1>7, <2>3
<1>8. CASE Inside(caller[p]) /\ Out(caller'[p]) /\ caller'[p].session = caller[p].session
            /\ caller'[p].todo = caller[p].todo /\ caller[p].todo # <<>>
  <2>1. \A s \in Sessions, c \in Commands :
          (\E q \in Callers : Out(caller'[q]) /\ caller'[q].session = s /\ Head(caller'[q].todo) = c)
          <=> IF s = caller[p].session THEN c = Head(caller[p].todo)
              ELSE (\E q \in Callers : Out(caller[q]) /\ caller[q].session = s /\ Head(caller[q].todo) = c)
    BY <1>1, <1>3, <1>8
  <2>2. \A s \in Sessions : Sending'[s] = IF s = at THEN {Head(caller[p].todo)} ELSE Sending[s]
    BY <1>4, <1>8, <2>1 DEF Sending
  <2>3. Sending' = [Sending EXCEPT ![at] = {Head(caller[p].todo)}]
    BY <1>3, <1>8, <1>5, <2>2, Excepted
  <2> QED BY <1>8, <2>3
<1> QED BY <1>6, <1>7, <1>8

\* How a written row changes what a session has.
LEMMA ContextStep ==
  ASSUME Inv, NEW s \in Sessions, NEW row, session' = [session EXCEPT ![s] = row]
  PROVE  /\ Context' = [Context EXCEPT ![s] = {c \in Commands : row.status[c] = "succeeded"}]
         /\ (\A c \in Commands : row.status[c] = "succeeded" <=> session[s].status[c] = "succeeded") =>
              Context' = Context
<1>1. \A t \in Sessions : session'[t] = IF t = s THEN row ELSE session[t]
  BY DEF Inv, Types
<1> DEFINE has == {c \in Commands : row.status[c] = "succeeded"}
<1>2. \A t \in Sessions : Context'[t] = IF t = s THEN has ELSE Context[t]
  BY <1>1 DEF Context
<1>3. Context = [t \in Sessions |-> Context[t]] /\ Context' = [t \in Sessions |-> Context'[t]]
  BY DEF Context
<1>4. (\A c \in Commands : row.status[c] = "succeeded" <=> session[s].status[c] = "succeeded") =>
        has = Context[s]
  BY DEF Context
<1> HIDE DEF has
<1>5. Context' = [Context EXCEPT ![s] = has]
  BY <1>2, <1>3, Excepted
<1>6. has = Context[s] => Context' = Context
  BY <1>2, <1>3
<1> QED BY <1>4, <1>5, <1>6 DEF has

\* What the contract sees of jobs is in three variables.
LEMMA WorkStays ==
  ASSUME UNCHANGED <<job, transfer>> PROVE UNCHANGED Contract!work
BY DEF Contract!work, Phase, Home, Attempts, Results

Shown == <<Contract!work, Contract!contexts>>

\* A step of a caller that the contract does not see.
LEMMA Unseen ==
  ASSUME Inv, DoubtType, NEW p \in Callers, UNCHANGED <<job, transfer, doubt>>, Context' = Context,
         caller' = [caller EXCEPT ![p] = caller'[p]], ~Out(caller[p]), ~Out(caller'[p])
  PROVE  UNCHANGED Shown
<1>1. Sending' = Sending
  BY SendingStep
<1>2. Unknown' = Unknown
  BY DEF Unknown
<1> QED BY <1>1, <1>2, WorkStays DEF Shown, Contract!contexts

\* The caller that sent a command is done with it: it is recorded, or had no
\* effect, or nobody knows.
LEMMA Learns ==
  ASSUME Inv, DoubtType, NEW p \in Callers, Out(caller[p]), ~Out(caller'[p]),
         caller' = [caller EXCEPT ![p] = caller'[p]], UNCHANGED <<job, transfer>>,
         \/ doubt' = doubt /\ Context' = [Context EXCEPT ![caller[p].session] = @ \cup {Head(caller[p].todo)}]
         \/ doubt' = doubt /\ Context' = Context
         \/ doubt' = doubt \cup {<<caller[p].session, Head(caller[p].todo)>>} /\ Context' = Context
  PROVE  Contract!Next
<1> DEFINE s == caller[p].session
           c == Head(caller[p].todo)
<1>1. s \in Sessions /\ c \in Commands /\ Sending[s] = {c} /\ Unknown[s] = {}
  BY Sent
<1>2. Sending' = [Sending EXCEPT ![s] = {}]
  BY SendingStep
<1>3. UNCHANGED Contract!work
  BY WorkStays
<1>4. doubt' = doubt => Unknown' = Unknown
  BY DEF Unknown
<1>5. doubt' = doubt \cup {<<s, c>>} => Unknown' = [Unknown EXCEPT ![s] = {c}]
  <2> SUFFICES ASSUME doubt' = doubt \cup {<<s, c>>} PROVE Unknown' = [Unknown EXCEPT ![s] = {c}]
    OBVIOUS
  <2> HIDE DEF s, c
  <2>1. Unknown = [t \in Sessions |-> Unknown[t]] /\ Unknown' = [t \in Sessions |-> Unknown'[t]]
    BY DEF Unknown
  <2>2. \A t \in Sessions : Unknown'[t] = IF t = s THEN {c} ELSE Unknown[t]
    BY <1>1 DEF Unknown
  <2> QED BY <1>1, <2>1, <2>2, Excepted
<1> HIDE DEF s, c
<1>6. \/ doubt' = doubt /\ Context' = [Context EXCEPT ![s] = @ \cup {c}]
      \/ doubt' = doubt /\ Context' = Context
      \/ doubt' = doubt \cup {<<s, c>>} /\ Context' = Context
  BY DEF s, c
<1>7. Contract!Learn(s)
  BY <1>1, <1>2, <1>3, <1>4, <1>5, <1>6 DEF Contract!Learn
<1> QED BY <1>1, <1>7 DEF Contract!Next

\* A caller that leaves or goes on has nothing sent any more.
LEMMA Away ==
  ASSUME Inv, NEW p \in Callers
  PROVE  /\ Leave(p) => caller' = [caller EXCEPT ![p] = caller'[p]] /\ ~Out(caller'[p])
         /\ caller[p].session \in Sessions /\ Onward(p) =>
              caller' = [caller EXCEPT ![p] = caller'[p]] /\ ~Out(caller'[p])
BY Leaving DEF Out

\* A session's row whose commands stay as they were.
LEMMA SameContext ==
  ASSUME Inv, NEW s \in Sessions, NEW state, NEW step,
         \/ session' = [session EXCEPT ![s].state = state]
         \/ session' = [session EXCEPT ![s].state = state, ![s].step = step]
         \/ UNCHANGED session
  PROVE  Context' = Context
<1>1. session[s] \in SessionRow /\ session = [t \in Sessions |-> session[t]]
  BY DEF Inv, Types
<1>2. \A t \in Sessions : session'[t].status = session[t].status
  BY <1>1 DEF SessionRow
<1> QED BY <1>2 DEF Context

\* What the contract sees of a warm-up's claim, end, and of what is sent.
LEMMA WarmupShows ==
  ASSUME Inv, JobRuns, DoubtType, NEW p \in Callers,
         \/ ClaimWarmup(p) \/ DeadlinePassed(p) \/ BeginStep(p) \/ Execute(p) \/ Rejected(p)
         \/ OutcomeUnknown(p) \/ RecordStep(p) \/ FinishWarmup(p) \/ Crash(p)
  PROVE  Contract!Next \/ UNCHANGED Shown
<1> DEFINE s == caller[p].session
           c == Head(caller[p].todo)
<1>1. caller[p].pc # "idle" /\ UNCHANGED <<job, transfer>> /\ s \in Sessions
      /\ caller[p] \in CallerRow /\ caller = [q \in Callers |-> caller[q]]
  BY DEF ClaimWarmup, DeadlinePassed, BeginStep, Execute, Rejected, OutcomeUnknown, RecordStep,
         FinishWarmup, Crash, rows, Inv, Types, Placed
<1>2. CASE ClaimWarmup(p)
  <2>1. Context' = Context
    BY <1>1, <1>2, SameContext DEF ClaimWarmup
  <2>2. ~Out(caller[p]) /\ doubt' = doubt
    BY <1>2 DEF ClaimWarmup, Out, past
  <2>3. caller' = [caller EXCEPT ![p] = caller'[p]] /\ ~Out(caller'[p])
    <3>1. CASE Leave(p)
      BY <1>1, <3>1, Away
    <3>2. ASSUME NEW todo, caller' = [caller EXCEPT ![p].pc = "step", ![p].todo = todo]
          PROVE  caller' = [caller EXCEPT ![p] = caller'[p]] /\ ~Out(caller'[p])
      BY <1>1, <3>2 DEF Out, CallerRow
    <3> QED BY <1>2, <3>1, <3>2 DEF ClaimWarmup
  <2> QED BY <1>1, <2>1, <2>2, <2>3, Unseen
<1>3. CASE DeadlinePassed(p)
  <2>1. Context' = Context /\ doubt' = doubt
    BY <1>1, <1>3, SameContext DEF DeadlinePassed, Failed, past
  <2>2. caller' = [caller EXCEPT ![p] = caller'[p]] /\ ~Out(caller'[p])
    BY <1>3, Away DEF DeadlinePassed
  <2> QED BY <1>1, <2>1, <2>2, Unseen, Learns
<1>4. CASE Execute(p)
  <2>1. caller' = [caller EXCEPT ![p].pc = "returned"] /\ Inside(caller[p]) /\ Out(caller[p])
        /\ UNCHANGED <<session, doubt>>
    BY <1>4 DEF Execute, Goto, Inside, Out, rows, past, Inv, Types, Placed
  <2>2. caller'[p] = [caller[p] EXCEPT !.pc = "returned"] /\ caller' = [caller EXCEPT ![p] = caller'[p]]
    BY <1>1, <2>1
  <2>3. Out(caller'[p]) /\ caller'[p].session = s /\ caller'[p].todo = caller[p].todo
    BY <1>1, <2>2 DEF Out, CallerRow
  <2>4. caller[p].todo # <<>>
    BY <1>4 DEF Execute, Inv, Types, Placed
  <2> HIDE DEF s, c
  <2>5. Sending' = [Sending EXCEPT ![s] = {c}] /\ Sending[s] = {c}
    BY <2>1, <2>2, <2>3, <2>4, SendingStep, Sent DEF s, c
  <2>6. Sending' = Sending
    BY <2>5 DEF Sending
  <2>7. Context' = Context /\ Unknown' = Unknown
    BY <2>1 DEF Context, Unknown
  <2> QED BY <1>1, <2>6, <2>7, WorkStays DEF Shown, Contract!contexts
<1>5. CASE Rejected(p)
  <2>1. Context' = Context /\ doubt' = doubt /\ Out(caller[p])
    BY <1>1, <1>5, SameContext DEF Rejected, Failed, past, Out
  <2>2. caller' = [caller EXCEPT ![p] = caller'[p]] /\ ~Out(caller'[p])
    BY <1>5, Away DEF Rejected
  <2> QED BY <1>1, <2>1, <2>2, Learns
<1>6. CASE OutcomeUnknown(p)
  <2>1. Context' = Context /\ doubt' = doubt \cup {<<s, c>>} /\ Out(caller[p])
    BY <1>1, <1>6, SameContext DEF OutcomeUnknown, Uncertain, Out
  <2>2. caller' = [caller EXCEPT ![p] = caller'[p]] /\ ~Out(caller'[p])
    BY <1>6, Away DEF OutcomeUnknown
  <2> QED BY <1>1, <2>1, <2>2, Learns
<1>7. CASE Crash(p)
  <2>1. Context' = Context
    BY <1>1, <1>7, SameContext DEF Crash, rows
  <2>2. caller' = [caller EXCEPT ![p] = caller'[p]] /\ ~Out(caller'[p])
    BY <1>7, Away DEF Crash
  <2>3. IF Out(caller[p]) THEN doubt' = doubt \cup {<<s, c>>} ELSE doubt' = doubt
    BY <1>7 DEF Crash, Out
  <2> QED BY <1>1, <2>1, <2>2, <2>3, Unseen, Learns
<1>8. CASE FinishWarmup(p)
  <2>1. Context' = Context
    BY <1>1, <1>8, SameContext DEF FinishWarmup
  <2>2. ~Out(caller[p]) /\ doubt' = doubt /\ (Leave(p) \/ Onward(p))
    BY <1>8 DEF FinishWarmup, Out, past
  <2>3. caller' = [caller EXCEPT ![p] = caller'[p]] /\ ~Out(caller'[p])
    BY <1>1, <2>2, Away
  <2> QED BY <1>1, <2>1, <2>2, <2>3, Unseen
<1>9. CASE RecordStep(p)
  <2> DEFINE row == [session[s] EXCEPT !.status[c] = "succeeded", !.step = c]
             tail == Tail(caller[p].todo)
  <2>1. /\ Out(caller[p]) /\ doubt' = doubt
        /\ session' = [session EXCEPT ![s].status[c] = "succeeded", ![s].step = c]
        /\ caller' = [caller EXCEPT ![p].pc = "step", ![p].todo = tail]
    BY <1>9 DEF RecordStep, Out, past
  <2>2. c \in Commands /\ session[s] \in SessionRow
    BY <1>1, <2>1, Sent DEF Inv, Types
  <2>3. \A d \in Commands : row.status[d] = IF d = c THEN "succeeded" ELSE session[s].status[d]
    BY <2>2 DEF SessionRow
  <2>4. session' = [session EXCEPT ![s] = row]
    BY <1>1, <2>1, <2>2 DEF Inv, Types, SessionRow
  <2>5. ~Out(caller'[p]) /\ caller' = [caller EXCEPT ![p] = caller'[p]]
    <3> HIDE DEF tail
    <3> QED BY <1>1, <2>1 DEF Out, CallerRow
  <2> HIDE DEF row, c, s
  <2>6. {d \in Commands : row.status[d] = "succeeded"} = Context[s] \cup {c}
    BY <1>1, <2>2, <2>3 DEF Context
  <2>7. Context' = [Context EXCEPT ![s] = @ \cup {c}]
    <3>1. s \in Sessions
      BY <1>1
    <3>2. Context' = [Context EXCEPT ![s] = {d \in Commands : row.status[d] = "succeeded"}]
      BY <3>1, <2>4, ContextStep
    <3> QED BY <2>6, <3>2
  <2> QED BY <1>1, <2>1, <2>5, <2>7, Learns DEF s, c
<1>10. CASE BeginStep(p)
  <2> DEFINE row == [session[s] EXCEPT !.status[c] = "running", !.step = c]
  <2>1. /\ Inside(caller[p]) /\ ~Out(caller[p]) /\ doubt' = doubt /\ caller[p].todo # <<>>
        /\ caller[p].todo \in Todos
    BY <1>1, <1>10 DEF BeginStep, Inside, Out, past, CallerRow
  <2>2. c \in Commands /\ session[s] \in SessionRow /\ session[s].state = "warming"
        /\ Covers(session[s], caller[p].todo)
    BY <2>1, TodoFront, AtWarmup
  <2>3. CASE session[s].status[c] = "succeeded"
    <3>1. caller' = [caller EXCEPT ![p].todo = Tail(@)] /\ UNCHANGED session
      BY <1>10, <2>3 DEF BeginStep
    <3>2. caller'[p].pc = caller[p].pc /\ caller' = [caller EXCEPT ![p] = caller'[p]]
      BY <1>1, <3>1 DEF CallerRow
    <3>3. Context' = Context
      BY <3>1 DEF Context
    <3> QED BY <1>1, <2>1, <3>2, <3>3, Unseen DEF Out
  <2>4. CASE session[s].status[c] # "succeeded"
    <3>1. session' = [session EXCEPT ![s].status[c] = "running", ![s].step = c]
          /\ caller' = [caller EXCEPT ![p].pc = "executing"]
      BY <1>10, <2>4 DEF BeginStep, Goto
    <3>2. \A d \in Commands : row.status[d] = IF d = c THEN "running" ELSE session[s].status[d]
      BY <2>2 DEF SessionRow
    <3>3. session' = [session EXCEPT ![s] = row]
      BY <1>1, <2>2, <3>1 DEF Inv, Types, SessionRow
    <3>4. caller'[p] = [caller[p] EXCEPT !.pc = "executing"] /\ caller' = [caller EXCEPT ![p] = caller'[p]]
      BY <1>1, <3>1
    <3>5. Out(caller'[p]) /\ caller'[p].session = s /\ caller'[p].todo = caller[p].todo
      BY <1>1, <3>4 DEF Out, CallerRow
    <3>6. Sending' = [Sending EXCEPT ![s] = {c}]
      BY <2>1, <3>4, <3>5, SendingStep
    <3>7. Contract!Quiet(s) /\ Contract!Idle(s)
      BY <1>1, <2>1, <2>2, Sent, IdleUnless DEF Held
    <3>8. c \notin Context[s] /\ (c = "rpa" => "compact" \in Context[s])
      <4>1. c = "rpa" => caller[p].todo = <<"rpa">>
        BY <2>1, TodoFront DEF Todos
      <4>2. c = "rpa" => session[s].status["compact"] = "succeeded"
        BY <2>2, <2>4, <4>1 DEF Covers
      <4> HIDE DEF c, s
      <4> QED BY <1>1, <2>4, <4>2 DEF Context, Commands
    <3> HIDE DEF row, c, s
    <3>9. Context' = Context
      <4>1. s \in Sessions
        BY <1>1
      <4>2. \A d \in Commands : row.status[d] = "succeeded" <=> session[s].status[d] = "succeeded"
        BY <2>4, <3>2
      <4>3. Context' = [Context EXCEPT ![s] = {d \in Commands : row.status[d] = "succeeded"}]
        BY <3>3, <4>1, ContextStep
      <4>4. {d \in Commands : row.status[d] = "succeeded"} = Context[s]
        BY <4>1, <4>2 DEF Context
      <4>5. Context = [t \in Sessions |-> Context[t]]
        BY DEF Context
      <4> QED BY <4>3, <4>4, <4>5
    <3>10. Unknown' = Unknown /\ UNCHANGED Contract!work
      BY <1>1, <2>1, WorkStays DEF Unknown
    <3>11. Contract!Send(s, c)
      BY <3>6, <3>7, <3>8, <3>9, <3>10 DEF Contract!Send
    <3> QED BY <1>1, <2>2, <3>11 DEF Contract!Next, Contract!Commands, Commands
  <2> QED BY <2>3, <2>4
<1> QED BY <1>2, <1>3, <1>4, <1>5, <1>6, <1>7, <1>8, <1>9, <1>10

\* A warm-up that begins again.
LEMMA RetryShows ==
  ASSUME Inv, JobRuns, DoubtType, NEW p \in Callers, ~Out(caller[p]), NEW s \in Sessions,
         NEW confirmed \in BOOLEAN, RetryWarmup(p, s, confirmed), UNCHANGED <<job, run, transfer>>
  PROVE  Contract!Next \/ UNCHANGED Shown
<1>1. CASE ~MayRetry(session[s], confirmed)
  <2>1. Leave(p) /\ UNCHANGED <<session, doubt>>
    BY <1>1 DEF RetryWarmup
  <2>2. Context' = Context
    BY <2>1 DEF Context
  <2> QED BY <2>1, <2>2, Away, Unseen
<1>2. CASE MayRetry(session[s], confirmed)
  <2> DEFINE c == session[s].step
             row == [session[s] EXCEPT !.state = "new", !.status[c] = "pending"]
  <2>1. /\ session' = [session EXCEPT ![s].state = "new", ![s].status[c] = "pending"]
        /\ caller' = [caller EXCEPT ![p] = [Free EXCEPT !.pc = "claim", !.session = s]]
        /\ doubt' = IF confirmed THEN doubt \ ({s} \X Commands) ELSE doubt
    BY <1>2 DEF RetryWarmup
  <2>2. /\ session[s] \in SessionRow /\ c \in Commands /\ session[s].state \in {"failed", "recovering"}
        /\ ~confirmed => session[s].state = "failed"
    BY <1>2 DEF MayRetry, Inv, Types
  <2>3. Contract!Idle(s) /\ Sending[s] = {} /\ (~confirmed => Unknown[s] = {})
    BY <2>2, IdleUnless, Sent DEF Contract!Quiet, Held
  <2>4. session' = [session EXCEPT ![s] = row]
    BY <2>1, <2>2 DEF Inv, Types, SessionRow
  <2>5. \A d \in Commands : row.status[d] = IF d = c THEN "pending" ELSE session[s].status[d]
    BY <2>2 DEF SessionRow
  <2>6. ~Out(caller'[p]) /\ caller' = [caller EXCEPT ![p] = caller'[p]]
    BY <2>1 DEF Out, Free, Inv, Types
  <2>7. Sending' = Sending
    BY <2>6, SendingStep
  <2>8. Unknown' = [Unknown EXCEPT ![s] = {}]
    <3>1. Unknown = [t \in Sessions |-> Unknown[t]] /\ Unknown' = [t \in Sessions |-> Unknown'[t]]
      BY DEF Unknown
    <3>2. \A t \in Sessions : Unknown'[t] = IF t = s THEN {} ELSE Unknown[t]
      <4>1. CASE confirmed
        BY <2>1, <4>1 DEF Unknown
      <4>2. CASE ~confirmed
        <5>1. Unknown' = Unknown
          BY <2>1, <4>2 DEF Unknown
        <5> QED BY <2>3, <4>2, <5>1
      <4> QED BY <4>1, <4>2
    <3> QED BY <3>1, <3>2, Excepted
  <2> HIDE DEF row, c
  <2>9. Context' = [Context EXCEPT ![s] = @ \ {c}]
    <3>1. Context' = [Context EXCEPT ![s] = {d \in Commands : row.status[d] = "succeeded"}]
      BY <2>4, ContextStep
    <3>2. {d \in Commands : row.status[d] = "succeeded"} = Context[s] \ {c}
      BY <2>5 DEF Context
    <3> QED BY <3>1, <3>2
  <2>10. Contract!Again(s, c)
    BY <2>3, <2>7, <2>8, <2>9, WorkStays DEF Contract!Again
  <2> QED BY <2>2, <2>10 DEF Contract!Next, Contract!Commands, Commands
<1> QED BY <1>1, <1>2

\* The session that shows both commands is adopted.
LEMMA AdoptShows ==
  ASSUME Inv, JobRuns, DoubtType, NEW p \in Callers, Adopt(p)
  PROVE  Contract!Next \/ UNCHANGED Shown
<1> DEFINE s == caller[p].session
           row == [state |-> "ready", step |-> "none", status |-> [c \in Commands |-> "succeeded"]]
<1>1. /\ caller[p].pc = "adopt" /\ s \in Sessions /\ ~Out(caller[p])
      /\ Leave(p) /\ UNCHANGED <<job, transfer, doubt>>
  BY DEF Adopt, Inv, Types, Placed, Out
<1>2. ~Out(caller'[p]) /\ caller' = [caller EXCEPT ![p] = caller'[p]]
  BY <1>1, Away
<1>3. CASE session[s].state = "new"
  <2>1. session' = [session EXCEPT ![s] = row]
    BY <1>3 DEF Adopt
  <2>2. Contract!Idle(s) /\ Contract!Quiet(s)
    BY <1>1, <1>3, IdleUnless, Sent DEF Held
  <2>3. {c \in Commands : row.status[c] = "succeeded"} = Commands
    OBVIOUS
  <2> HIDE DEF row, s
  <2>4. Context' = [Context EXCEPT ![s] = Commands]
    <3>1. s \in Sessions
      BY <1>1
    <3>2. Context' = [Context EXCEPT ![s] = {c \in Commands : row.status[c] = "succeeded"}]
      BY <2>1, <3>1, ContextStep
    <3> QED BY <2>3, <3>2
  <2>5. Sending' = Sending /\ Unknown' = Unknown
    BY <1>1, <1>2, SendingStep DEF Unknown
  <2>6. Contract!Adopt(s)
    BY <1>1, <2>2, <2>4, <2>5, WorkStays DEF Contract!Adopt, Contract!Commands, Commands
  <2> QED BY <1>1, <2>6 DEF Contract!Next
<1>4. CASE session[s].state # "new"
  <2>1. Context' = Context
    BY <1>4 DEF Adopt, Context
  <2> QED BY <1>1, <1>2, <2>1, Unseen
<1> QED BY <1>3, <1>4

\* A run starts in a session that is complete, quiet and idle.
LEMMA StartShows ==
  ASSUME Inv, JobRuns, DoubtType, NEW p \in Callers, StartRun(p)
  PROVE  Contract!Next \/ UNCHANGED Shown
<1> DEFINE j == caller[p].job
           n == job[j].attempts + 1
           s == job[j].session
<1>1. /\ caller[p].pc = "start" /\ j \in Jobs /\ ~Out(caller[p])
      /\ Leave(p) /\ UNCHANGED <<transfer, doubt>>
  BY DEF StartRun, Inv, Types, Placed, CallerRow, Out, past
<1>2. ~Out(caller'[p]) /\ caller' = [caller EXCEPT ![p] = caller'[p]]
  BY <1>1, Away
<1>3. CASE ~Startable(j)
  <2>1. UNCHANGED <<session, job>> /\ Context' = Context
    BY <1>3 DEF StartRun, Context
  <2> QED BY <1>1, <1>2, <2>1, Unseen
<1>4. CASE Startable(j)
  <2>1. /\ job' = [job EXCEPT ![j].state = "running", ![j].attempts = n]
        /\ session' = [session EXCEPT ![s].state = "running"]
    BY <1>4 DEF StartRun
  <2>2. /\ job[j].state = "ready" /\ Prepared(s)
        /\ session[s].state \notin {"new", "warming", "recovering"} /\ ~Busy(s)
    BY <1>4 DEF Startable
  <2>3. s \in Sessions
    BY <1>1, <2>2 DEF Inv, ReleasedGiven, Waits
  <2>4. job \in [Jobs -> JobRow]
    BY DEF Inv, Types
  <2>5. Contract!Idle(s)
    BY <2>2 DEF JobRuns, Busy, Contract!Idle, Phase, Home
  <2>6. Contract!Quiet(s)
    BY <2>2, <2>3, Sent
  <2>7. Context[s] = Contract!Commands
    BY <2>2, <2>3 DEF Context, Prepared, Commands, Contract!Commands
  <2>8. Context' = Context /\ Sending' = Sending /\ Unknown' = Unknown
    BY <1>1, <1>2, <2>1, <2>3, SameContext, SendingStep DEF Unknown
  <2> HIDE DEF j, n
  <2>9. /\ Phase' = [Phase EXCEPT ![j] = "running"] /\ Attempts' = [Attempts EXCEPT ![j] = n]
        /\ Home' = Home /\ Results' = Results
    BY <1>1, <2>1, <2>4 DEF Phase, Attempts, Home, Results, JobRow
  <2>10. n = Attempts[j] + 1 /\ Phase[j] = "ready" /\ Home[j] = s
    BY <1>1, <2>2 DEF n, Attempts, Phase, Home
  <2>11. Contract!Start(j)
    BY <1>1, <2>5, <2>6, <2>7, <2>8, <2>9, <2>10 DEF Contract!Start, Contract!contexts
  <2> QED BY <1>1, <2>11 DEF Contract!Next
<1> QED BY <1>3, <1>4

\* What the contract sees of callers.
LEMMA CallersShow ==
  ASSUME Inv, JobRuns, DoubtType, NEW p \in Callers,
         \/ Warming(p) \/ Crash(p)
         \/ \E s \in Sessions : RunnerWarms(p, s) \/ OperatorRetries(p, s)
         \/ \E j \in Jobs : ReadJob(p, j)
  PROVE  Contract!Next \/ UNCHANGED Shown
<1>1. CASE RunnerRetries(p)
  <2>1. /\ caller[p].session \in Sessions /\ ~Out(caller[p])
        /\ RetryWarmup(p, caller[p].session, FALSE) /\ UNCHANGED <<job, run, transfer>>
    BY <1>1 DEF RunnerRetries, Inv, Types, Placed, Out
  <2> QED BY <2>1, RetryShows
<1>2. ASSUME NEW s \in Sessions, OperatorRetries(p, s) PROVE Contract!Next \/ UNCHANGED Shown
  <2>1. ~Out(caller[p]) /\ RetryWarmup(p, s, TRUE) /\ UNCHANGED <<job, run, transfer>>
    BY <1>2 DEF OperatorRetries, Out
  <2> QED BY <2>1, RetryShows
<1>3. CASE (\E s \in Sessions : RunnerWarms(p, s)) \/ \E j \in Jobs : ReadJob(p, j)
  <2>1. UNCHANGED <<session, job, transfer, doubt>> /\ ~Out(caller[p])
    BY <1>3 DEF RunnerWarms, ReadJob, rows, past, Out
  <2>2. caller = [q \in Callers |-> caller[q]]
    BY DEF Inv, Types
  <2>3. ~Out(caller'[p]) /\ caller' = [caller EXCEPT ![p] = caller'[p]]
    <3>1. ASSUME NEW s \in Sessions, RunnerWarms(p, s)
          PROVE  ~Out(caller'[p]) /\ caller' = [caller EXCEPT ![p] = caller'[p]]
      <4>1. PICK pc \in {"claim", "retry", "adopt"} : caller' = [caller EXCEPT ![p] =
              [Free EXCEPT !.pc = pc, !.session = s, !.limited = (pc = "claim")]]
        BY <3>1 DEF RunnerWarms
      <4> QED BY <2>2, <4>1 DEF Out, Free
    <3>2. ASSUME NEW j \in Jobs, ReadJob(p, j)
          PROVE  ~Out(caller'[p]) /\ caller' = [caller EXCEPT ![p] = caller'[p]]
      BY <2>2, <3>2 DEF ReadJob, Out, Free
    <3> QED BY <1>3, <3>1, <3>2
  <2>4. Context' = Context
    BY <2>1 DEF Context
  <2> QED BY <2>1, <2>3, <2>4, Unseen
<1>4. CASE Adopt(p) BY <1>4, AdoptShows
<1>5. CASE StartRun(p) BY <1>5, StartShows
<1> QED BY <1>1, <1>2, <1>3, <1>4, <1>5, WarmupShows DEF Warming

----------------------------------------------------------------------------
\* What the contract sees of jobs

LEMMA Needed == \A j : Contract!Needs(j) = Range(Deps[j])
BY DEF Contract!Needs, Range

\* What nobody but a caller touches.
LEMMA Unsent ==
  ASSUME UNCHANGED <<caller, doubt>> PROVE Sending' = Sending /\ Unknown' = Unknown
BY DEF Sending, Unknown

\* A document is taken in.
LEMMA RegisterShows ==
  ASSUME Inv, JobRuns, NEW j \in Jobs, RegisterJob(j) PROVE Contract!Register(j)
<1> DEFINE own == Mention[j] = None /\ Deps[j] = <<>>
           home == IF own THEN j ELSE Mention[j]
           state == IF Deps[j] = <<>> THEN "ready" ELSE "pending"
<1>1. /\ job[j].state = "absent" /\ \A d \in Range(Deps[j]) : job[d].state # "absent"
      /\ session' = IF own THEN [session EXCEPT ![j] = New] ELSE session
      /\ job' = [job EXCEPT ![j] = [attempts |-> 0, session |-> home, state |-> state]]
      /\ UNCHANGED <<run, transfer, caller, doubt>>
  BY DEF RegisterJob, past
<1>2. job \in [Jobs -> JobRow] /\ session \in [Sessions -> SessionRow] /\ j \in Sessions
  BY DEF Inv, Types, Sessions
<1>3. Phase[j] = "absent" /\ \A i \in Contract!Needs(j) : Phase[i] # "absent"
  BY <1>1, Needed, Dependencies DEF Phase
<1> HIDE DEF home, state
<1>4. /\ Phase' = [Phase EXCEPT ![j] = state] /\ Home' = [Home EXCEPT ![j] = home]
  BY <1>1, <1>2 DEF Phase, Home
<1>5. home = j <=> own
  BY SessionAssumption DEF home, Sessions
<1>6. Attempts' = Attempts /\ Results' = Results
  BY <1>1, <1>2 DEF Attempts, Results, JobRuns
<1>7. Context' = [s \in Sessions |-> IF s = j /\ Home'[j] = j THEN {} ELSE Context[s]]
  BY <1>1, <1>2, <1>4, <1>5 DEF Context, New, Absent, Home
<1> QED BY <1>1, <1>3, <1>4, <1>6, <1>7, Unsent DEF Contract!Register, home, state

\* What a release in the middle of a step shows: the jobs it frees receive the
\* results they wait for, in a session that is theirs.
LEMMA ReleaseShows ==
  ASSUME Inv, NEW done \in SUBSET Jobs, NEW js, NEW ss, Between(js, ss),
         PrepareDependents(done, js, ss),
         \A j \in Jobs : js[j].session = job[j].session /\ js[j].attempts = job[j].attempts,
         \A s \in Sessions : ss[s].status = session[s].status
  PROVE  Contract!Ready(Freed(done, js), [j \in Jobs |-> js[j].state])
         /\ Contract!Receive(Freed(done, js))
<1> DEFINE freed == Freed(done, js)
           to == [j \in freed |-> job'[j].session]
<1> HIDE DEF freed
<1>1. freed \in SUBSET Jobs /\ Releases(freed, js, ss)
  BY ReleaseDoes DEF freed
<1>2. MidGiven(js) /\ UNCHANGED <<caller, doubt>> /\ js \in [Jobs -> JobRow]
  BY DEF Between, MidTypes
<1>3. Phase' = [j \in Jobs |-> IF j \in freed THEN "ready" ELSE js[j].state]
  BY <1>1 DEF Releases, Phase
<1>4. Attempts' = Attempts
  BY <1>1 DEF Releases, Attempts
<1>5. /\ to \in [freed -> Sessions]
      /\ Home' = [j \in Jobs |-> IF j \in freed THEN to[j] ELSE Home[j]]
  BY <1>1 DEF Releases, Home
<1>6. \A j \in freed : to[j] \in Contract!HomeOf(j)
  <2> SUFFICES ASSUME NEW j \in freed PROVE to[j] \in Contract!HomeOf(j)
    OBVIOUS
  <2>1. to[j] \in Homes(j, js)
    BY <1>1 DEF Releases
  <2>2. \A i \in Range(Deps[j]) : js[i].session = Home[i]
    BY <1>1, Dependencies DEF Home
  <2>3. Homes(j, js) = Contract!HomeOf(j)
    <3>1. {js[i].session : i \in {i \in Range(Deps[j]) : Len(Deps[j]) = 1}}
          = {Home[i] : i \in {i \in Range(Deps[j]) : Len(Deps[j]) = 1}}
      BY <2>2
    <3>2. Contract!Needs(j) = Range(Deps[j])
      BY Needed
    <3> QED BY <3>1, <3>2 DEF Homes, Contract!HomeOf
  <2> QED BY <2>1, <2>3
<1>7. Context' = [s \in Sessions |-> IF s \in freed /\ to[s] = s THEN {} ELSE Context[s]]
  <2>1. \A c \in Commands : New.status[c] = "pending"
    BY DEF New, Absent
  <2>2. \A s \in Sessions : session'[s] = IF s \in freed /\ to[s] = s THEN New ELSE ss[s]
    BY <1>1 DEF Releases
  <2>3. \A s \in Sessions : Context'[s] = IF s \in freed /\ to[s] = s THEN {} ELSE Context[s]
    <3> HIDE DEF to
    <3> QED BY <2>1, <2>2 DEF Context
  <2> QED BY <2>3 DEF Context
<1>8. Results' = [j \in Jobs |-> IF j \in freed THEN {<<i, Attempts[i]>> : i \in Contract!Needs(j)}
                                ELSE Results[j]]
  <2>1. ASSUME NEW j \in Jobs \ freed PROVE Results'[j] = Results[j]
    <3>1. \A i \in Jobs : transfer'[i][j] = transfer[i][j]
      BY <1>1, <2>1 DEF Releases
    <3> QED BY <3>1 DEF Results
  <2>2. ASSUME NEW j \in freed PROVE Results'[j] = {<<i, Attempts[i]>> : i \in Contract!Needs(j)}
    <3>1. j \in Jobs /\ js[j].state = "pending" /\ Range(Deps[j]) \subseteq Jobs
      BY <1>1, Dependencies DEF Releases
    <3>2. ASSUME NEW i \in Range(Deps[j])
          PROVE  transfer'[i][j] # Nothing /\ transfer'[i][j].attempt = Attempts[i]
      <4>1. i \in Jobs /\ js[i].state = "succeeded"
        BY <1>1, <3>1 DEF Releases
      <4>2. js[i].session \in Sessions
        BY <1>2, <4>1 DEF MidGiven
      <4>3. transfer'[i][j].session = js[i].session /\ transfer'[i][j].attempt = js[i].attempts
        BY <1>1 DEF Releases
      <4> QED BY <4>1, <4>2, <4>3, SessionAssumption DEF Nothing, Attempts
    <3>3. ASSUME NEW i \in Jobs, i \notin Range(Deps[j]) PROVE transfer'[i][j] = Nothing
      BY <1>1, <1>2, <3>1, <3>3 DEF Releases, MidGiven
    <3>4. {i \in Jobs : transfer'[i][j] # Nothing} = Range(Deps[j])
      BY <3>1, <3>2, <3>3
    <3>5. Results'[j] = {<<i, transfer'[i][j].attempt>> : i \in {i \in Jobs : transfer'[i][j] # Nothing}}
      BY <3>1 DEF Results
    <3>6. Results'[j] = {<<i, transfer'[i][j].attempt>> : i \in Range(Deps[j])}
      BY <3>4, <3>5
    <3>7. Contract!Needs(j) = Range(Deps[j])
      BY Needed
    <3> QED BY <3>2, <3>6, <3>7
  <2>3. Results' = [j \in Jobs |-> Results'[j]]
    BY DEF Results
  <2> QED BY <1>1, <2>1, <2>2, <2>3
<1>9. Contract!Receive(freed)
  <2> HIDE DEF to
  <2> QED BY <1>2, <1>4, <1>5, <1>6, <1>7, <1>8, Unsent DEF Contract!Receive
<1>10. Contract!Ready(freed, [j \in Jobs |-> js[j].state])
  BY <1>1, <1>3 DEF Contract!Ready
<1> QED BY <1>9, <1>10 DEF freed

\* Whom a release frees, as the contract says it.
LEMMA FreedRipe ==
  ASSUME NEW js, NEW ph, ph = [k \in Jobs |-> js[k].state]
  PROVE  /\ \A j \in Jobs : js[j].state = "succeeded" =>
              Freed({j}, js) = {k \in Contract!Ripe(ph) : j \in Contract!Needs(k)}
         /\ Freed({i \in Jobs : js[i].state = "succeeded"}, js) = Contract!Ripe(ph)
<1>1. \A k \in Jobs : Range(Deps[k]) \subseteq Jobs /\ (Range(Deps[k]) # {} <=> Deps[k] # <<>>)
  <2> SUFFICES ASSUME NEW k \in Jobs, Deps[k] # <<>> PROVE Range(Deps[k]) # {}
    BY Dependencies
  <2>1. Deps[k] \in Seq(Jobs)
    BY SessionAssumption
  <2>2. 1 \in DOMAIN Deps[k]
    BY <2>1
  <2> QED BY <2>2 DEF Range
<1>2. Contract!Ripe(ph) = {k \in Jobs : /\ js[k].state = "pending" /\ Deps[k] # <<>>
                                        /\ \A d \in Range(Deps[k]) : js[d].state = "succeeded"}
  BY <1>1, Needed DEF Contract!Ripe
<1>3. ASSUME NEW j \in Jobs, js[j].state = "succeeded"
      PROVE  Freed({j}, js) = {k \in Contract!Ripe(ph) : j \in Contract!Needs(k)}
  <2>1. Freed({j}, js) = Released(j, js)
    BY DEF Freed
  <2>2. Released(j, js) = {k \in Contract!Ripe(ph) : j \in Range(Deps[k])}
    BY <1>1, <1>2 DEF Released
  <2> QED BY <2>1, <2>2, Needed
<1>4. Freed({i \in Jobs : js[i].state = "succeeded"}, js) = Contract!Ripe(ph)
  BY <1>1, <1>2 DEF Freed, Released
<1> QED BY <1>3, <1>4

\* A run ends.
LEMMA CompleteShows ==
  ASSUME Inv, NEW j \in Jobs, NEW n \in 1..MaxAttempts,
         NEW state \in {"succeeded", "failed", "cancelled"}, CompleteRun(j, n, state)
  PROVE  Contract!End(j, state)
<1> DEFINE last == IF state = "succeeded" THEN "completed" ELSE "failed"
           js == [job EXCEPT ![j].state = state]
           ss == [session EXCEPT ![job[j].session].state = last]
           ended == [Phase EXCEPT ![j] = state]
           freed == IF state = "succeeded" THEN {k \in Contract!Ripe(ended) : j \in Contract!Needs(k)} ELSE {}
<1>1. /\ run[j][n] = "running" /\ UNCHANGED <<caller, doubt>>
      /\ state = "succeeded" => PrepareDependents({j}, js, ss)
      /\ state # "succeeded" => job' = js /\ session' = ss /\ transfer' = transfer
  BY DEF CompleteRun, past
<1>2. Between(js, ss)
  BY CompletionMid
<1>3. /\ job \in [Jobs -> JobRow] /\ session \in [Sessions -> SessionRow]
      /\ job[j].state = "running" /\ job[j].session \in Sessions
  BY <1>1 DEF Inv, Types, RunsHold
<1>4. /\ \A k \in Jobs : js[k].session = job[k].session /\ js[k].attempts = job[k].attempts
      /\ \A s \in Sessions : ss[s].status = session[s].status
      /\ js[j].state = state
  BY <1>3 DEF JobRow, SessionRow
<1>5. ended = [k \in Jobs |-> js[k].state]
  BY <1>3 DEF Phase, JobRow
<1> HIDE DEF js, ss, ended
<1>6. Contract!Ready(freed, ended) /\ Contract!Receive(freed)
  <2>1. CASE state = "succeeded"
    <3>1. freed = Freed({j}, js)
      BY <1>4, <1>5, <2>1, FreedRipe
    <3> HIDE DEF freed
    <3> QED BY <1>1, <1>2, <1>4, <1>5, <2>1, <3>1, ReleaseShows
  <2>2. CASE state # "succeeded"
    <3>1. Phase' = ended /\ Home' = Home /\ Attempts' = Attempts /\ Results' = Results /\ Context' = Context
      BY <1>1, <1>4, <1>5, <2>2 DEF Phase, Home, Attempts, Results, Context
    <3>2. freed = {}
      BY <2>2
    <3>3. Contract!Ready({}, ended)
      BY <1>5, <3>1 DEF Contract!Ready
    <3>4. Contract!Receive({})
      <4>1. /\ Home = [k \in Jobs |-> Home[k]] /\ Results = [k \in Jobs |-> Results[k]]
            /\ Context = [s \in Sessions |-> Context[s]]
        BY DEF Home, Results, Context
      <4>2. [k \in {} |-> None] \in [{} -> Sessions]
        OBVIOUS
      <4> QED BY <1>1, <3>1, <4>1, <4>2, Unsent DEF Contract!Receive
    <3> QED BY <3>2, <3>3, <3>4
  <2> QED BY <2>1, <2>2
<1>7. Phase[j] = "running"
  BY <1>3 DEF Phase
<1> QED BY <1>6, <1>7 DEF Contract!End, ended

\* ready_jobs releases whatever is left.
LEMMA ReadyJobsShow == ASSUME Inv, ReadyJobs PROVE Contract!Release
<1> DEFINE done == {i \in Jobs : job[i].state = "succeeded"}
<1>1. PrepareDependents(done, job, session) /\ UNCHANGED <<run, caller, doubt>>
  BY DEF ReadyJobs, past
<1>2. Between(job, session)
  BY <1>1, ReadyMid
<1>3. Freed(done, job) = Contract!Ripe(Phase)
  BY FreedRipe DEF Phase
<1>4. Contract!Ready(Freed(done, job), Phase) /\ Contract!Receive(Freed(done, job))
  <2>1. done \in SUBSET Jobs
    OBVIOUS
  <2>2. Phase = [j \in Jobs |-> job[j].state]
    BY DEF Phase
  <2> HIDE DEF done
  <2> QED BY <1>1, <1>2, <2>1, <2>2, ReleaseShows
<1> QED BY <1>3, <1>4 DEF Contract!Release

LEMMA RetryJobShows == ASSUME Inv, NEW j \in Jobs, RetryJob(j) PROVE Contract!Retry(j)
<1>1. /\ job[j].state = "failed" /\ j \in ReplaySafe /\ job' = [job EXCEPT ![j].state = "ready"]
      /\ UNCHANGED <<session, transfer, caller, doubt>>
  BY DEF RetryJob, Retried, past
<1>2. job \in [Jobs -> JobRow]
  BY DEF Inv, Types
<1>3. /\ Phase[j] = "failed" /\ Phase' = [Phase EXCEPT ![j] = "ready"]
      /\ Home' = Home /\ Attempts' = Attempts /\ Results' = Results /\ Context' = Context
  BY <1>1, <1>2 DEF Phase, Home, Attempts, Results, Context, JobRow
<1> QED BY <1>1, <1>3, Unsent DEF Contract!Retry, Contract!contexts

LEMMA RecoverShows == ASSUME Inv, JobRuns, Recover PROVE Contract!GiveUp
<1> DEFINE lost(j) == \E n \in 1..MaxAttempts : run[j][n] = "running"
<1>1. /\ job' = [j \in Jobs |-> IF lost(j) THEN [job[j] EXCEPT !.state = "needs_operator"] ELSE job[j]]
      /\ session' = [s \in Sessions |-> IF Busy(s) \/ InFlight(s)
                       THEN [session[s] EXCEPT !.state = "recovering"] ELSE session[s]]
      /\ UNCHANGED <<transfer, caller, doubt>>
  BY DEF Recover, past
<1>2. job \in [Jobs -> JobRow] /\ session \in [Sessions -> SessionRow]
  BY DEF Inv, Types
<1>3. \A j \in Jobs : lost(j) <=> job[j].state = "running"
  BY DEF Inv, RunsHold, JobRuns
<1> HIDE DEF lost
<1>4. /\ \A j \in Jobs : /\ job'[j].state = IF job[j].state = "running" THEN "needs_operator" ELSE job[j].state
                         /\ job'[j].session = job[j].session /\ job'[j].attempts = job[j].attempts
      /\ \A s \in Sessions : session'[s].status = session[s].status
  BY <1>1, <1>2, <1>3 DEF JobRow, SessionRow
<1>5. /\ Phase' = [j \in Jobs |-> IF Phase[j] = "running" THEN "needs_operator" ELSE Phase[j]]
      /\ Home' = Home /\ Attempts' = Attempts /\ Results' = Results /\ Context' = Context
  BY <1>1, <1>4 DEF Phase, Home, Attempts, Results, Context
<1> QED BY <1>1, <1>5, Unsent DEF Contract!GiveUp, Contract!contexts

LEMMA InitShows == Init => Contract!Init /\ JobRuns
<1> SUFFICES ASSUME Init PROVE Contract!Init /\ JobRuns
  OBVIOUS
<1>1. JobRuns
  BY DEF Init, NoJob, JobRuns
<1>2. /\ Phase = [j \in Jobs |-> "absent"] /\ Home = [j \in Jobs |-> None]
      /\ Attempts = [j \in Jobs |-> 0] /\ Results = [j \in Jobs |-> {}]
  BY DEF Init, NoJob, Phase, Home, Attempts, Results
<1>3. Context = [s \in Sessions |-> {}]
  <2>1. \A s \in Sessions, c \in Commands : session[s].status[c] = "pending"
    BY DEF Init, New, Absent
  <2> QED BY <2>1 DEF Context
<1>4. Sending = [s \in Sessions |-> {}] /\ Unknown = [s \in Sessions |-> {}]
  <2>1. \A p \in Callers : ~Out(caller[p])
    BY DEF Init, Free, Out
  <2>2. doubt = {}
    BY DEF Init
  <2> QED BY <2>1, <2>2 DEF Sending, Unknown
<1> QED BY <1>1, <1>2, <1>3, <1>4 DEF Contract!Init

\* A running job has its run until the run ends or is given up.
LEMMA JobRunsStep == ASSUME Inv, JobRuns, [Next]_vars PROVE JobRuns'
<1>1. job \in [Jobs -> JobRow] /\ run \in [Jobs -> [1..MaxAttempts -> RunStates]]
  BY DEF Inv, Types
<1>2. CASE UNCHANGED <<job, run>>
  BY <1>2 DEF JobRuns
<1>3. ASSUME NEW p \in Callers, StartRun(p) PROVE JobRuns'
  <2> DEFINE j == caller[p].job
             n == job[j].attempts + 1
  <2>1. CASE ~Startable(j)
    BY <1>2, <1>3, <2>1 DEF StartRun
  <2>2. CASE Startable(j)
    <3>1. /\ n <= MaxAttempts /\ run' = [run EXCEPT ![j][n] = "running"]
          /\ job' = [job EXCEPT ![j].state = "running", ![j].attempts = n]
      BY <1>3, <2>2 DEF StartRun
    <3>2. j \in Jobs /\ n \in 1..MaxAttempts
      BY <1>1, <1>3, <3>1, SessionAssumption DEF StartRun, Inv, Types, Placed, CallerRow, JobRow
    <3> HIDE DEF j, n
    <3>3. \A k \in Jobs \ {j} : job'[k] = job[k] /\ run'[k] = run[k]
      BY <1>1, <3>1
    <3>4. job'[j].state = "running" /\ job'[j].attempts = n /\ run'[j][n] = "running"
      BY <1>1, <3>1, <3>2 DEF JobRow
    <3> QED BY <3>2, <3>3, <3>4 DEF JobRuns
  <2> QED BY <2>1, <2>2
<1>4. ASSUME NEW j \in Jobs, RegisterJob(j) \/ RetryJob(j) PROVE JobRuns'
  <2>1. run' = run /\ \A k \in Jobs \ {j} : job'[k] = job[k]
    BY <1>1, <1>4 DEF RegisterJob, RetryJob
  <2>2. job'[j].state \in {"ready", "pending"}
    BY <1>1, <1>4 DEF RegisterJob, RetryJob, JobRow
  <2> QED BY <2>1, <2>2 DEF JobRuns
<1>5. ASSUME NEW j \in Jobs, NEW n \in 1..MaxAttempts,
             NEW state \in {"succeeded", "failed", "cancelled"}, CompleteRun(j, n, state)
      PROVE  JobRuns'
  <2> DEFINE last == IF state = "succeeded" THEN "completed" ELSE "failed"
             js == [job EXCEPT ![j].state = state]
             ss == [session EXCEPT ![job[j].session].state = last]
  <2>1. /\ run[j][n] = "running" /\ run' = [run EXCEPT ![j][n] = state]
        /\ state = "succeeded" => PrepareDependents({j}, js, ss)
        /\ state # "succeeded" => job' = js
    BY <1>5 DEF CompleteRun
  <2>2. Between(js, ss)
    BY <1>5, CompletionMid
  <2>3. /\ \A k \in Jobs \ {j} : js[k] = job[k] /\ run'[k] = run[k]
        /\ js[j].state = state /\ job[j].state = "running"
    BY <1>1, <2>1 DEF JobRow, Inv, RunsHold
  <2> HIDE DEF js, ss
  <2>4. \A k \in Jobs : job'[k] = js[k] \/ job'[k].state = "ready"
    <3>1. CASE state = "succeeded"
      <4>1. {j} \in SUBSET Jobs
        OBVIOUS
      <4>2. Releases(Freed({j}, js), js, ss) /\ Freed({j}, js) \in SUBSET Jobs
        BY <2>1, <2>2, <3>1, <4>1, ReleaseDoes
      <4> QED BY <4>2 DEF Releases
    <3> QED BY <2>1, <3>1
  <2> QED BY <2>3, <2>4 DEF JobRuns
<1>6. CASE ReadyJobs
  <2> DEFINE done == {i \in Jobs : job[i].state = "succeeded"}
  <2>1. PrepareDependents(done, job, session) /\ UNCHANGED <<run, caller, doubt>>
    BY <1>6 DEF ReadyJobs, past
  <2>2. Between(job, session) /\ done \in SUBSET Jobs
    BY <2>1, ReadyMid
  <2> HIDE DEF done
  <2>3. \A k \in Jobs : job'[k] = job[k] \/ job'[k].state = "ready"
    <3>1. Releases(Freed(done, job), job, session) /\ Freed(done, job) \in SUBSET Jobs
      BY <2>1, <2>2, ReleaseDoes
    <3> QED BY <3>1 DEF Releases
  <2> QED BY <2>1, <2>3 DEF JobRuns
<1>7. CASE Recover
  <2>1. \A j \in Jobs : IF \E n \in 1..MaxAttempts : run[j][n] = "running"
                        THEN job'[j].state = "needs_operator" ELSE job'[j] = job[j]
    BY <1>1, <1>7 DEF Recover, JobRow
  <2>2. \A j \in Jobs : job[j].state = "running" => \E n \in 1..MaxAttempts : run[j][n] = "running"
    BY DEF JobRuns
  <2> QED BY <2>1, <2>2 DEF JobRuns
<1>8. ASSUME NEW p \in Callers, Warming(p) \/ Crash(p) PROVE JobRuns'
  <2>1. CASE StartRun(p)
    BY <1>3, <2>1
  <2>2. CASE ~StartRun(p)
    BY <1>2, <1>8, <2>2 DEF Warming, ClaimWarmup, DeadlinePassed, BeginStep, Execute, Rejected,
       OutcomeUnknown, RecordStep, FinishWarmup, Adopt, RunnerRetries, Crash, rows
  <2> QED BY <2>1, <2>2
<1>9. ASSUME NEW p \in Callers,
             (\E s \in Sessions : RunnerWarms(p, s) \/ OperatorRetries(p, s)) \/ \E j \in Jobs : ReadJob(p, j)
      PROVE  JobRuns'
  BY <1>2, <1>9 DEF RunnerWarms, OperatorRetries, ReadJob, rows
<1> QED BY <1>2, <1>4, <1>5, <1>6, <1>7, <1>8, <1>9 DEF Next, vars

\* Every step of the lifecycle is one of the contract, or one that it does not see.
LEMMA StepShows == ASSUME Inv, DoubtType, JobRuns, [Next]_vars PROVE [Contract!Next]_Shown
<1>1. CASE UNCHANGED vars
  BY <1>1 DEF vars, Shown, Contract!work, Contract!contexts, Phase, Home, Attempts, Results,
     Context, Sending, Unknown
<1>2. ASSUME NEW p \in Callers,
             \/ Warming(p) \/ Crash(p)
             \/ \E s \in Sessions : RunnerWarms(p, s) \/ OperatorRetries(p, s)
             \/ \E j \in Jobs : ReadJob(p, j)
      PROVE  Contract!Next \/ UNCHANGED Shown
  BY <1>2, CallersShow
<1>3. ASSUME NEW j \in Jobs, RegisterJob(j) \/ RetryJob(j) PROVE Contract!Next
  BY <1>3, RegisterShows, RetryJobShows DEF Contract!Next
<1>4. ASSUME NEW j \in Jobs, NEW n \in 1..MaxAttempts,
             NEW state \in {"succeeded", "failed", "cancelled"}, CompleteRun(j, n, state)
      PROVE  Contract!Next
  BY <1>4, CompleteShows DEF Contract!Next
<1>5. CASE ReadyJobs
  BY <1>5, ReadyJobsShow DEF Contract!Next
<1>6. CASE Recover
  BY <1>6, RecoverShows DEF Contract!Next
<1> QED BY <1>1, <1>2, <1>3, <1>4, <1>5, <1>6 DEF Next

\* For every instance: whatever dies between two transactions, comes late or is
\* tried again, the lifecycle does what SessionContract promises of its jobs and
\* sessions (start_job, complete_run, _prepare_dependents_locked, warm_session,
\* retry_warmup, adopt_prepared_session, retry_job, recover).
THEOREM JobContractKept == Spec => KeepsJobContract
<1>1. Init => Contract!Init /\ JobRuns
  BY InitShows
<1>2. Inv /\ DoubtType /\ JobRuns /\ [Next]_vars => [Contract!Next]_Shown
  BY StepShows
<1>3. Inv /\ JobRuns /\ [Next]_vars => JobRuns'
  BY JobRunsStep
<1>4. Spec => [](Inv /\ DoubtType)
  BY InvHolds
<1> QED BY <1>1, <1>2, <1>3, <1>4, PTL DEF Spec, KeepsJobContract, Contract!Spec, Shown
=============================================================================
