----------------------------- MODULE DriverProofs -----------------------------
(***************************************************************************)
(* For any children, intervals and bounds: an outcome other than unknown   *)
(* says that every child the driver has seen has ended.                    *)
(***************************************************************************)
EXTENDS CoddyDriver, SequenceTheorems, TLAPS

Event == [kind : {"started", "woken", "ended"}, of : 1..MaxTurns]
Child == [status : {"none", "running", "ended", "lost"}, of : 0..MaxTurns,
          listed : BOOLEAN, output : {"silent", "unseen", "seen", "moved"}]
MainThread == [pc : Loop \cup Over \cup {"launch", "attach", "post", "turn", "finish"},
               rows : {"failed", "none", "active"}, lag : 0..1]

\* The assumptions on the constants, in the form the steps use them.
LEMMA Constant == /\ Quiet \in Nat /\ GiveUp \in Nat /\ LostAfter \in Nat /\ MaxTurns \in Nat
                  /\ Quiet > 0 /\ GiveUp > 0 /\ LostAfter > 0 /\ MaxTurns > 0
                  /\ MaxEvents \in Nat /\ MaxStops \in Nat
BY DriverAssumption

\* No events are typed events within the bound.
LEMMA NoEvents == <<>> \in Seq(Event) /\ Len(<<>>) <= MaxEvents
<1>1. <<>> \in Seq(Event) /\ Len(<<>>) = 0
  OBVIOUS
<1> QED BY <1>1, Constant

\* An event that finds room keeps the events typed and within their bound.
LEMMA EmitTyped ==
  ASSUME TypeOK, Room, NEW e \in Event, Emit(e)
  PROVE  events' \in Seq(Event) /\ Len(events') <= MaxEvents
<1>1. events \in Seq(Event) /\ Len(events) <= MaxEvents /\ Len(events) \in Nat
  BY DEF TypeOK, Event
<1>2. CASE watching
  <2>1. events' = Append(events, e) /\ Len(events) < MaxEvents
    BY <1>2 DEF Emit, Room
  <2>2. events' \in Seq(Event) /\ Len(events') = Len(events) + 1
    BY <2>1, <1>1
  <2> QED BY <2>1, <2>2, <1>1, Constant
<1>3. CASE ~watching
  BY <1>3, <1>1 DEF Emit
<1> QED BY <1>2, <1>3

\* A turn begins within the bound on turns.
LEMMA BeginTyped ==
  ASSUME TypeOK, CanStart
  PROVE  turns + 1 \in 1..MaxTurns
BY Constant DEF TypeOK, CanStart

\* The process that exits leaves nothing under way.
LEMMA ExitTyped ==
  ASSUME NEW pc \in Over, Exit(pc)
  PROVE  /\ events' = <<>> /\ events' \in Seq(Event) /\ Len(events') <= MaxEvents
         /\ watching' = FALSE /\ composer' = "none" /\ escalate' = "none"
         /\ main' \in MainThread /\ main'.pc = pc
<1>1. main' = [pc |-> pc, rows |-> "failed", lag |-> 0]
      /\ watching' = FALSE /\ events' = <<>> /\ composer' = "none" /\ escalate' = "none"
  BY DEF Exit
<1>2. main' \in MainThread /\ main'.pc = pc
  BY <1>1 DEF MainThread
<1> QED BY <1>1, <1>2, NoEvents

\* What the driver saw ended has ended, and a known outcome was judged on
\* children all of which it saw ended.
SeenIsTrue == \A c \in Children : seen[c] = "ended" => child[c].status = "ended"
JudgedLast == outcome \in Known => ~Alive /\ \A c \in Children : seen[c] # "active"

IInv == TypeOK /\ SeenIsTrue /\ JudgedLast

\* The initial state satisfies the invariant.
LEMMA IInvInit == Init => IInv
<1> SUFFICES ASSUME Init PROVE IInv
  OBVIOUS
<1>1. child \in [Children -> Child]
  <2>1. Absent \in Child
    BY Constant DEF Absent, Child
  <2>2. ASSUME NEW a \in Attachable PROVE a \in Child
    <3>1. CASE a = Absent
      BY <3>1, <2>1
    <3>2. CASE a # Absent
      <4>1. /\ a = [status |-> a.status, of |-> a.of, listed |-> a.listed, output |-> a.output]
            /\ a.status \in {"running", "ended"} /\ a.of = 0 /\ a.listed = TRUE
            /\ a.output = "unseen"
        BY <3>2 DEF Attachable
      <4>2. a.of \in 0..MaxTurns
        BY <4>1, Constant
      <4> QED BY <4>1, <4>2 DEF Child
    <3> QED BY <3>1, <3>2
  <2> QED BY <2>1, <2>2 DEF Init
<1>2. turn \in {0, 1} /\ turns = turn
  BY DEF Init
<1>3. main \in MainThread
  BY DEF Init, MainThread
<1>4. events = <<>> /\ Len(events) <= MaxEvents
      /\ events \in Seq([kind : {"started", "woken", "ended"}, of : 1..MaxTurns])
  BY Constant DEF Init
<1>5. told \subseteq 0..MaxTurns /\ turns \in 0..MaxTurns /\ turn \in 0..turns /\ quiet \in 0..(GiveUp + 2)
  BY <1>2, Constant DEF Init
<1>6. poll \in [failed : 0..LostAfter, lost : BOOLEAN] /\ running \in Nat
  BY Constant DEF Init
<1>7. server \in [up : BOOLEAN, knows : BOOLEAN, stops : 0..MaxStops]
  <2>1. /\ server = [up |-> server.up, knows |-> server.knows, stops |-> server.stops]
        /\ server.up = TRUE /\ server.knows \in BOOLEAN /\ server.stops = 0
    BY DEF Init
  <2>2. 0 \in 0..MaxStops
    BY Constant
  <2> QED BY <2>1, <2>2
<1>8. TypeOK
  BY <1>1, <1>3, <1>4, <1>5, <1>6, <1>7 DEF Init, TypeOK, Child, MainThread
<1> QED BY <1>3, <1>8 DEF Init, IInv, SeenIsTrue, JudgedLast, Known

\* What the server does keeps the types.
LEMMA EnvironmentTyped == TypeOK /\ Environment => TypeOK'
<1> SUFFICES ASSUME TypeOK, Environment PROVE TypeOK'
  OBVIOUS
<1>1. CASE Stop
  <2>1. server' \in [up : BOOLEAN, knows : BOOLEAN, stops : 0..MaxStops]
    <3>1. PICK knows \in {FALSE, server.knows} :
            server' = [up |-> FALSE, knows |-> knows, stops |-> server.stops + 1]
      BY <1>1 DEF Stop
    <3>2. server.knows \in BOOLEAN /\ server.stops + 1 \in 0..MaxStops
      <4>1. server \in [up : BOOLEAN, knows : BOOLEAN, stops : 0..MaxStops]
        BY DEF TypeOK
      <4>2. server.stops < MaxStops
        BY <1>1 DEF Stop
      <4>3. server.knows \in BOOLEAN /\ server.stops \in 0..MaxStops
        BY <4>1
      <4> QED BY <4>2, <4>3, Constant
    <3> QED BY <3>1, <3>2
  <2>2. child' \in [Children -> Child]
    <3>1. \A c \in Children : child[c] \in Child
      BY DEF TypeOK, Child
    <3>2. ASSUME NEW c \in Children, NEW s \in {child[c].status, "lost"}
          PROVE  [child[c] EXCEPT !.status = s, !.listed = FALSE] \in Child
      BY <3>1 DEF Child
    <3>3. \A c \in Children :
            child'[c] = [child[c] EXCEPT !.status = IF @ = "running" THEN "lost" ELSE @,
                                         !.listed = FALSE]
      BY <1>1 DEF Stop
    <3>4. ASSUME NEW c \in Children PROVE child'[c] \in Child
      <4>1. CASE child[c].status = "running"
        BY <4>1, <3>2, <3>3
      <4>2. CASE child[c].status # "running"
        BY <4>2, <3>2, <3>3
      <4> QED BY <4>1, <4>2
    <3>5. child' = [c \in Children |-> child'[c]]
      BY <1>1 DEF Stop
    <3> QED BY <3>4, <3>5
  <2>3. turn' \in 0..turns'
    <3>1. turn' = 0 /\ turns' = turns /\ turns \in 0..MaxTurns
      BY <1>1 DEF Stop, TypeOK
    <3> QED BY <3>1, Constant
  <2>4. events' = <<>> /\ watching' = FALSE
    BY <1>1 DEF Stop
  <2>5. UNCHANGED <<turns, main, seen, running, poll, watchdog, composer, escalate,
                    cut, outcome, broken, quiet, told>>
    BY <1>1 DEF Stop, drivers
  <2>6. events' \in Seq(Event) /\ Len(events') <= MaxEvents
    BY <2>4, NoEvents
  <2>7. watching' \in BOOLEAN
    BY <2>4
  <2> QED BY <2>1, <2>2, <2>3, <2>5, <2>6, <2>7 DEF TypeOK, Child, Event
<1>2. CASE Return
  <2>1. server' \in [up : BOOLEAN, knows : BOOLEAN, stops : 0..MaxStops]
    BY <1>2 DEF Return, TypeOK
  <2> QED BY <1>2, <2>1 DEF Return, TypeOK, drivers
<1>3. CASE WakeTurn
  <2>1. turns + 1 \in 1..MaxTurns
    BY <1>3, BeginTyped DEF WakeTurn
  <2>2. [kind |-> "woken", of |-> turns + 1] \in Event
    BY <2>1 DEF Event
  <2>3. events' \in Seq(Event) /\ Len(events') <= MaxEvents
    BY <1>3, <2>2, EmitTyped DEF WakeTurn
  <2>4. turn' \in 0..turns' /\ turns' \in 0..MaxTurns
    BY <1>3, <2>1, Constant DEF WakeTurn, Begin, TypeOK
  <2> QED BY <1>3, <2>3, <2>4 DEF WakeTurn, TypeOK, drivers, Event
<1>4. CASE TurnEnds
  <2>1. [kind |-> "ended", of |-> turn] \in Event
    BY <1>4, Constant DEF TurnEnds, TypeOK, Event
  <2>2. events' \in Seq(Event) /\ Len(events') <= MaxEvents
    BY <1>4, <2>1, EmitTyped DEF TurnEnds
  <2> QED BY <1>4, <2>2, Constant DEF TurnEnds, TypeOK, drivers, Event
<1>5. CASE Disconnect
  <2>1. events' = <<>> /\ watching' = FALSE
    BY <1>5 DEF Disconnect
  <2>2. events' \in Seq(Event) /\ Len(events') <= MaxEvents
    BY <2>1, NoEvents
  <2>3. watching' \in BOOLEAN
    BY <2>1
  <2> QED BY <1>5, <2>2, <2>3 DEF Disconnect, TypeOK, drivers, world, Event
<1>6. CASE TurnOutput
  <2>1. quiet' \in 0..(GiveUp + 2)
    BY <1>6, Constant DEF TurnOutput
  <2> QED BY <1>6, <2>1 DEF TurnOutput, TypeOK, drivers, world
<1>7. ASSUME NEW c \in Children, Spawn(c) PROVE TypeOK'
  <2>1. [Absent EXCEPT !.status = "running", !.of = turn, !.listed = TRUE] \in Child
    <3>1. turn \in 0..MaxTurns
      BY Constant DEF TypeOK
    <3> QED BY <3>1 DEF Absent, Child
  <2>2. child' \in [Children -> Child]
    BY <1>7, <2>1 DEF Spawn, TypeOK, Child
  <2> QED BY <1>7, <2>2 DEF Spawn, TypeOK, drivers, Child
<1>8. ASSUME NEW c \in Children, Speak(c) PROVE TypeOK'
  <2>1. child' \in [Children -> Child]
    <3>1. child[c] \in Child
      BY DEF TypeOK, Child
    <3>2. \A o \in {"silent", "unseen", "seen", "moved"} : [child[c] EXCEPT !.output = o] \in Child
      BY <3>1 DEF Child
    <3>3. PICK o \in {"silent", "unseen", "seen", "moved"} :
            child' = [child EXCEPT ![c] = [child[c] EXCEPT !.output = o]]
      <4>1. child[c].output \in {"silent", "unseen", "seen", "moved"}
        BY <3>1 DEF Child
      <4>2. child' = [child EXCEPT ![c].output = IF child[c].output = "silent" THEN "unseen"
                                  ELSE IF child[c].output = "seen" THEN "moved" ELSE child[c].output]
        BY <1>8 DEF Speak
      <4> QED BY <4>1, <4>2
    <3> QED BY <3>2, <3>3 DEF TypeOK, Child
  <2> QED BY <1>8, <2>1 DEF Speak, TypeOK, drivers, Child
<1>9. ASSUME NEW c \in Children, ChildEnds(c) PROVE TypeOK'
  <2>1. child' \in [Children -> Child]
    <3>1. child[c] \in Child
      BY DEF TypeOK, Child
    <3>2. [child[c] EXCEPT !.status = "ended"] \in Child
      BY <3>1 DEF Child
    <3> QED BY <1>9, <3>2 DEF ChildEnds, TypeOK, Child
  <2> QED BY <1>9, <2>1 DEF ChildEnds, TypeOK, drivers, Child
<1> QED BY <1>1, <1>2, <1>3, <1>4, <1>5, <1>6, <1>7, <1>8, <1>9 DEF Environment

\* Time passing keeps the types.
LEMMA TickTyped == TypeOK /\ Tick => TypeOK'
<1> SUFFICES ASSUME TypeOK, Tick PROVE TypeOK'
  OBVIOUS
<1>1. quiet' \in 0..(GiveUp + 2)
  <2>1. quiet \in 0..(GiveUp + 2) /\ quiet' = Cap(quiet, GiveUp + 2) /\ GiveUp \in Nat
    BY Constant DEF Tick, TypeOK
  <2> QED BY <2>1 DEF Cap
<1>2. main' \in MainThread
  <2>1. main \in MainThread
    BY DEF TypeOK, MainThread
  <2>2. \A m \in MainThread : [m EXCEPT !.lag = 1] \in MainThread
    BY DEF MainThread
  <2> QED BY <2>1, <2>2 DEF Tick
<1>3. watchdog' \in {"fresh", "due", "reported"}
  BY DEF Tick, TypeOK
<1> QED BY <1>1, <1>2, <1>3 DEF Tick, TypeOK, world, MainThread

\* The steps of the other threads keep the types.
LEMMA ThreadsTyped == TypeOK /\ Threads => TypeOK'
<1> SUFFICES ASSUME TypeOK, Threads PROVE TypeOK'
  OBVIOUS
<1>1. CASE Connect
  BY <1>1 DEF Connect, TypeOK, threads
<1>2. CASE HandleEvent
  <2>1. /\ events \in Seq(Event) /\ events # <<>> /\ Len(events) <= MaxEvents
        /\ events' = Tail(events)
    BY <1>2 DEF HandleEvent, TypeOK, Event
  <2>2. Head(events) \in Event /\ Tail(events) \in Seq(Event) /\ Len(Tail(events)) <= MaxEvents
    BY <2>1, Constant
  <2>3. Head(events).of \in 0..MaxTurns
    BY <2>2, Constant DEF Event
  <2>4. 0 \in 0..(GiveUp + 2)
    BY Constant
  <2>5. /\ running' \in Nat /\ quiet' \in 0..(GiveUp + 2) /\ told' \subseteq 0..MaxTurns
        /\ composer' \in {"none", "reading"} /\ UNCHANGED <<child, watching>>
    <3>1. CASE \E woken \in BOOLEAN : TurnStarted(Head(events).of, woken)
      <4>1. composer' \in {"none", "reading"}
        BY <3>1 DEF TurnStarted, Follow, TypeOK
      <4>2. running' \in Nat /\ quiet' = 0 /\ told' = told \cup {Head(events).of}
            /\ UNCHANGED <<child, watching>>
        BY <3>1 DEF TurnStarted, TypeOK
      <4> QED BY <4>1, <4>2, <2>3, <2>4 DEF TypeOK
    <3>2. CASE TurnEnded
      <4>1. running' \in Nat /\ quiet' = 0
        BY <3>2 DEF TurnEnded, TypeOK
      <4> QED BY <3>2, <4>1, <2>4 DEF TurnEnded, TypeOK
    <3> QED BY <1>2, <3>1, <3>2 DEF HandleEvent
  <2> QED BY <1>2, <2>1, <2>2, <2>5 DEF HandleEvent, TypeOK, threads, Event
<1>3. CASE CloseComposer
  <2>1. cut' \in BOOLEAN /\ broken' \in BOOLEAN
    BY <1>3 DEF CloseComposer, StreamDone, StreamCut, StreamFails, TypeOK
  <2> QED BY <1>3, <2>1 DEF CloseComposer, TypeOK, threads
<1>4. CASE EscalationEnds
  <2>1. cut' \in BOOLEAN /\ broken' \in BOOLEAN
    BY <1>4 DEF EscalationEnds, StreamDone, StreamCut, StreamFails, TypeOK
  <2> QED BY <1>4, <2>1 DEF EscalationEnds, TypeOK, threads
<1> QED BY <1>1, <1>2, <1>3, <1>4 DEF Threads

\* The updates of the main thread's record
LEMMA MainUpdated ==
  ASSUME TypeOK, NEW pc \in Loop \cup Over \cup {"launch", "attach", "post", "turn", "finish"},
         NEW rows \in {"failed", "none", "active"}, NEW lag \in 0..1
  PROVE  /\ [main EXCEPT !.pc = pc, !.lag = lag] \in MainThread
         /\ [main EXCEPT !.pc = pc, !.lag = lag, !.rows = rows] \in MainThread
<1>1. main \in MainThread
  BY DEF TypeOK, MainThread
<1> QED BY <1>1 DEF MainThread

\* What a poll makes of the rows keeps the types.
LEMMA PollRowsTyped ==
  ASSUME TypeOK, main.pc = "waiting", PollRows
  PROVE  /\ poll' \in [failed : 0..LostAfter, lost : BOOLEAN] /\ main' \in MainThread
         /\ seen' \in [Children -> {"never", "active", "ended"}]
         /\ child' \in [Children -> Child] /\ quiet' \in 0..(GiveUp + 2)
         /\ watchdog' \in {"fresh", "due", "reported"}
<1>1. poll' \in [failed : 0..LostAfter, lost : BOOLEAN]
  BY Constant DEF PollRows
<1>2. main' \in MainThread
  <2>1. "judge" \in Loop /\ Rows \in {"failed", "none", "active"} /\ 0 \in 0..1
    BY DEF Rows, Loop
  <2> QED BY <2>1, MainUpdated DEF PollRows
<1>3. seen' \in [Children -> {"never", "active", "ended"}]
  BY DEF PollRows, TypeOK
<1>4. child' \in [Children -> Child]
  <2>1. ASSUME NEW c \in Children
        PROVE  child[c] \in Child /\ [child[c] EXCEPT !.output = "seen"] \in Child
    <3>1. child[c] \in Child
      BY DEF TypeOK, Child
    <3> QED BY <3>1 DEF Child
  <2> QED BY <2>1 DEF PollRows
<1>5. quiet' \in 0..(GiveUp + 2)
  <2>1. quiet' = quiet \/ quiet' = 0
    BY DEF PollRows, Progress
  <2> QED BY <2>1, Constant DEF TypeOK
<1>6. watchdog' \in {"fresh", "due", "reported"}
  BY DEF PollRows, Progress, RecordVisibleProgress, TypeOK
<1> QED BY <1>1, <1>2, <1>3, <1>4, <1>5, <1>6

\* The steps of the main thread keep the types.
LEMMA MainTyped == TypeOK /\ (Main \/ Terminate) => TypeOK'
<1> SUFFICES ASSUME TypeOK, Main \/ Terminate PROVE TypeOK'
  OBVIOUS
<1> USE DEF Loop, Over
<1>1. CASE Launch
  <2>1. CASE Goto("post") /\ UNCHANGED links
    <3>1. main' \in MainThread
      BY <2>1 DEF Goto, TypeOK, MainThread
    <3> QED BY <1>1, <2>1, <3>1 DEF Launch, links, rest, world, TypeOK, MainThread
  <2>2. CASE Exit("died")
    <3>1. "died" \in Over
      OBVIOUS
    <3> QED BY <1>1, <2>2, <3>1, ExitTyped DEF Launch, rest, world, TypeOK, MainThread, Event
  <2> QED BY <1>1, <2>1, <2>2 DEF Launch
<1>2. CASE PostJob
  <2>1. CASE CanStart /\ Room /\ Begin /\ Goto("turn")
             /\ Emit([kind |-> "started", of |-> turns + 1]) /\ UNCHANGED <<watching, composer, escalate>>
    <3>1. turns + 1 \in 1..MaxTurns
      BY <2>1, BeginTyped
    <3>2. [kind |-> "started", of |-> turns + 1] \in Event
      BY <3>1 DEF Event
    <3>3. events' \in Seq(Event) /\ Len(events') <= MaxEvents
      BY <2>1, <3>2, EmitTyped
    <3>4. turn' \in 0..turns' /\ turns' \in 0..MaxTurns
      BY <2>1, <3>1, Constant DEF Begin, TypeOK
    <3>5. main' \in MainThread
      BY <2>1 DEF Goto, TypeOK, MainThread
    <3> QED BY <1>2, <2>1, <3>3, <3>4, <3>5 DEF PostJob, rest, TypeOK, MainThread, Event
  <2>2. CASE Exit("died") /\ UNCHANGED <<turn, turns>>
    <3>1. "died" \in Over
      OBVIOUS
    <3> QED BY <1>2, <2>2, <3>1, ExitTyped DEF PostJob, rest, TypeOK, MainThread, Event
  <2> QED BY <1>2, <2>1, <2>2 DEF PostJob
<1>3. CASE JobTurnEnds
  <2>0. cut' \in BOOLEAN /\ broken' \in BOOLEAN
    BY <1>3 DEF JobTurnEnds, StreamDone, StreamCut, StreamFails, TypeOK
  <2>1. CASE Loops /\ UNCHANGED links
    <3>1. main' \in MainThread
      <4>1. "waiting" \in Loop /\ 1 \in 0..1
        OBVIOUS
      <4> QED BY <2>1, <4>1, MainUpdated DEF Loops
    <3> QED BY <1>3, <2>0, <2>1, <3>1 DEF JobTurnEnds, links, rest, world, TypeOK, MainThread
  <2>2. CASE Exit("died")
    <3>1. "died" \in Over
      OBVIOUS
    <3> QED BY <1>3, <2>0, <2>2, <3>1, ExitTyped DEF JobTurnEnds, rest, world, TypeOK, MainThread, Event
  <2> QED BY <1>3, <2>1, <2>2 DEF JobTurnEnds
<1>4. CASE Attach
  <2>0. outcome' \in Known \cup {"none", "unknown", "session-unknown"}
    BY <1>4 DEF Attach, TypeOK
  <2>1. CASE Loops /\ UNCHANGED links
    <3>1. main' \in MainThread
      <4>1. "waiting" \in Loop /\ 1 \in 0..1
        OBVIOUS
      <4> QED BY <2>1, <4>1, MainUpdated DEF Loops
    <3> QED BY <1>4, <2>0, <2>1, <3>1 DEF Attach, links, rest, world, TypeOK, MainThread
  <2>2. ASSUME NEW pc \in {"refused", "died"}, Exit(pc) PROVE TypeOK'
    <3>1. pc \in Over
      OBVIOUS
    <3> QED BY <1>4, <2>0, <2>2, <3>1, ExitTyped DEF Attach, rest, world, TypeOK, MainThread, Event
  <2> QED BY <1>4, <2>1, <2>2 DEF Attach
<1>5. CASE Poll
  <2>0. UNCHANGED polling /\ main.pc = "waiting"
    BY <1>5 DEF Poll
  <2>1. CASE PollRows
    BY <2>0, <2>1, PollRowsTyped DEF polling, TypeOK, MainThread, Child
  <2>2. CASE PollRefused \/ PollFails
    <3>1. poll' \in [failed : 0..LostAfter, lost : BOOLEAN]
      <4>1. poll.failed \in 0..LostAfter /\ poll.lost \in BOOLEAN
        BY DEF TypeOK
      <4>2. Cap(poll.failed, LostAfter) \in 0..LostAfter
        BY <4>1, Constant DEF Cap
      <4>3. \E lost \in BOOLEAN : poll' = [failed |-> Cap(poll.failed, LostAfter), lost |-> lost]
        BY <2>2, <4>1 DEF PollRefused, PollFails
      <4> QED BY <4>2, <4>3
    <3>2. main' \in MainThread
      <4>1. "judge" \in Loop /\ 0 \in 0..1
        OBVIOUS
      <4>2. PICK rows \in {"failed", "none", "active"} :
              main' = [main EXCEPT !.pc = "judge", !.lag = 0, !.rows = rows]
        BY <2>2 DEF PollRefused, PollFails
      <4> QED BY <4>1, <4>2, MainUpdated
    <3>3. UNCHANGED <<seen, child, watchdog, quiet>>
      BY <2>2 DEF PollRefused, PollFails
    <3> QED BY <2>0, <3>1, <3>2, <3>3 DEF polling, TypeOK, MainThread
  <2> QED BY <1>5, <2>1, <2>2 DEF Poll
<1>6. CASE Judge
  <2>1. /\ turn' \in 0..turns' /\ turns' \in 0..MaxTurns
        /\ events' \in Seq(Event) /\ Len(events') <= MaxEvents
        /\ escalate' \in {"none", "streaming"}
    <3>1. CASE UNCHANGED <<turn, turns, events, escalate>>
      BY <3>1 DEF TypeOK, Event
    <3>2. CASE CanStart /\ Room /\ Begin /\ Emit([kind |-> "started", of |-> turns + 1])
               /\ escalate' = "streaming"
      <4>1. turns + 1 \in 1..MaxTurns
        BY <3>2, BeginTyped
      <4>2. [kind |-> "started", of |-> turns + 1] \in Event
        BY <4>1 DEF Event
      <4>3. events' \in Seq(Event) /\ Len(events') <= MaxEvents
        BY <3>2, <4>2, EmitTyped
      <4> QED BY <3>2, <4>1, <4>3, Constant DEF Begin, TypeOK
    <3> QED BY <1>6, <3>1, <3>2 DEF Judge, Handed
  <2>2. watchdog' \in {"fresh", "due", "reported"}
    BY <1>6 DEF Judge, TypeOK
  <2>3. quiet' \in 0..(GiveUp + 2)
    <3>1. main.lag \in 0..1 /\ quiet \in 0..(GiveUp + 2)
      BY DEF TypeOK
    <3>2. quiet' = main.lag \/ quiet' = quiet
      BY <1>6 DEF Judge
    <3> QED BY <3>1, <3>2, Constant
  <2>4. main' \in MainThread
    BY <1>6 DEF Judge, MainThread
  <2> QED BY <1>6, <2>1, <2>2, <2>3, <2>4 DEF Judge, TypeOK, MainThread, Event
<1>7. CASE EscalationFails
  <2>1. "died" \in Over
    OBVIOUS
  <2> QED BY <1>7, <2>1, ExitTyped DEF EscalationFails, rest, world, TypeOK, MainThread, Event
<1>8. CASE Finish
  <2>1. "finished" \in Over
    OBVIOUS
  <2>2. outcome' \in Known \cup {"none", "unknown", "session-unknown"}
    BY <1>8 DEF Finish, Known
  <2> QED BY <1>8, <2>1, <2>2, ExitTyped DEF Finish, rest, world, TypeOK, MainThread, Event
<1>9. CASE Terminate
  <2>1. "terminated" \in Over
    OBVIOUS
  <2> QED BY <1>9, <2>1, ExitTyped DEF Terminate, rest, world, TypeOK, MainThread, Event
<1> QED BY <1>1, <1>2, <1>3, <1>4, <1>5, <1>6, <1>7, <1>8, <1>9 DEF Main

\* Every step keeps the types.
LEMMA NextTyped == TypeOK /\ [Next]_vars => TypeOK'
<1>1. TypeOK /\ Next => TypeOK'
  BY EnvironmentTyped, TickTyped, ThreadsTyped, MainTyped DEF Next
<1>2. TypeOK /\ UNCHANGED vars => TypeOK'
  BY DEF TypeOK, vars, world
<1> QED BY <1>1, <1>2

\* Every step of a driver that is alive keeps what it saw true: a child that
\* ended stays so, and a poll sees children as they are.
LEMMA SeenStaysTrue == TypeOK /\ SeenIsTrue /\ Next => SeenIsTrue'
<1> SUFFICES ASSUME TypeOK, SeenIsTrue, Next, NEW c \in Children, seen'[c] = "ended"
             PROVE  child'[c].status = "ended"
  BY DEF SeenIsTrue
<1>0. child \in [Children -> Child] /\ child[c] \in Child
  BY DEF TypeOK, Child
<1>1. CASE PollRows
  <2>1. seen'[c] = IF c \notin Listed THEN seen[c]
                   ELSE IF child[c].status = "running" THEN "active" ELSE "ended"
    BY <1>1 DEF PollRows
  <2>2. child'[c].status = child[c].status
    BY <1>0, <1>1 DEF PollRows, Child
  <2>3. c \in Listed => child[c].status \in {"running", "ended"}
    BY DEF Listed
  <2> QED BY <2>1, <2>2, <2>3 DEF SeenIsTrue
<1>2. CASE ~PollRows
  <2>1. seen' = seen
    BY <1>2 DEF Next, Environment, Main, Threads, Stop, Return, WakeTurn, TurnEnds, Spawn, Speak,
          ChildEnds, Disconnect, TurnOutput, Tick, Launch, PostJob, JobTurnEnds, Attach, Connect,
          HandleEvent, CloseComposer, EscalationEnds, Poll, PollRefused, PollFails, Judge,
          EscalationFails, Finish, Terminate, drivers, rest, threads
  <2>2. child[c].status = "ended"
    BY <2>1 DEF SeenIsTrue
  <2>3. CASE Stop \/ \E x \in Children : Spawn(x) \/ Speak(x) \/ ChildEnds(x)
    <3>1. CASE Stop
      <4>1. child'[c] = [child[c] EXCEPT !.status = IF @ = "running" THEN "lost" ELSE @, !.listed = FALSE]
        BY <3>1 DEF Stop
      <4> QED BY <4>1, <1>0, <2>2 DEF Child
    <3>2. ASSUME NEW x \in Children, Spawn(x) \/ Speak(x) \/ ChildEnds(x)
          PROVE  child'[c].status = "ended"
      <4>1. x # c
        BY <3>2, <2>2 DEF Spawn, Speak, ChildEnds
      <4> QED BY <3>2, <4>1, <1>0, <2>2 DEF Spawn, Speak, ChildEnds
    <3> QED BY <2>3, <3>1, <3>2
  <2>4. CASE UNCHANGED child
    BY <2>2, <2>4
  <2>5. \/ Stop \/ \E x \in Children : Spawn(x) \/ Speak(x) \/ ChildEnds(x)
        \/ UNCHANGED child
    BY <1>2 DEF Next, Environment, Main, Threads, Return, WakeTurn, TurnEnds,
          Disconnect, TurnOutput, Tick, Launch, PostJob, JobTurnEnds, Attach, Connect, HandleEvent,
          CloseComposer, EscalationEnds, Poll, PollRefused, PollFails, Judge, EscalationFails,
          Finish, Terminate, world, threads, TurnStarted, TurnEnded
  <2> QED BY <2>3, <2>4, <2>5
<1> QED BY <1>1, <1>2

\* A known outcome comes from finish alone, which judges and exits.
LEMMA JudgedStaysLast == TypeOK /\ JudgedLast /\ Next => JudgedLast'
<1> SUFFICES ASSUME TypeOK, JudgedLast, Next, outcome' \in Known
             PROVE  ~Alive' /\ \A c \in Children : seen'[c] # "active"
  BY DEF JudgedLast
<1>1. outcome \notin Known
  BY DEF Next, JudgedLast
<1>2. Finish
  BY <1>1 DEF Known, Next, Environment, Main, Threads, Stop, Return, WakeTurn, TurnEnds, Spawn, Speak,
        ChildEnds, Disconnect, TurnOutput, Tick, Launch, PostJob, JobTurnEnds, Attach, Connect,
        HandleEvent, CloseComposer, EscalationEnds, Poll, Judge, EscalationFails, Terminate,
        drivers, rest, threads, polling
<1>3. \A c \in Children : seen'[c] # "active"
  BY <1>2 DEF Finish, Known, rest
<1>4. main'.pc = "finished"
  BY <1>2 DEF Finish, Exit
<1> QED BY <1>3, <1>4 DEF Alive, Over

\* The invariant is inductive.
LEMMA IInvInductive == IInv /\ [Next]_vars => IInv'
<1>1. IInv /\ Next => IInv'
  BY NextTyped, SeenStaysTrue, JudgedStaysLast DEF IInv
<1>2. IInv /\ UNCHANGED vars => IInv'
  <2> SUFFICES ASSUME IInv, UNCHANGED vars PROVE IInv'
    OBVIOUS
  <2>1. TypeOK'
    BY NextTyped DEF IInv
  <2> QED BY <2>1 DEF IInv, SeenIsTrue, JudgedLast, Alive, vars, world
<1> QED BY <1>1, <1>2

\* The invariant implies the property.
LEMMA IInvSettled == IInv => KnownOutcomeIsSettled
<1> SUFFICES ASSUME IInv, outcome \in Known, NEW c \in Children, seen[c] # "never"
             PROVE  child[c].status = "ended"
  BY DEF IInv, KnownOutcomeIsSettled
<1>1. seen[c] \in {"never", "active", "ended"}
  BY DEF IInv, TypeOK
<1> QED BY <1>1 DEF IInv, SeenIsTrue, JudgedLast

\* For any number of children and any intervals, an outcome other than unknown
\* is recorded only when every child the driver has seen has ended at the server
\* (finish and poll_tasks, against everything the server and the streams do).
THEOREM KnownOutcomeSettled == Spec => []KnownOutcomeIsSettled
<1>1. Spec => []IInv
  BY IInvInit, IInvInductive, PTL DEF Spec
<1> QED BY <1>1, IInvSettled, PTL

----------------------------------------------------------------------------
\* When supervision ends

\* The driver is told of turns that began; of the active turn only the last
\* event under way tells, and it says that the turn has started.
TurnsInOrder ==
  /\ told \subseteq 0..turns
  /\ \A i \in 1..Len(events) : events[i].of <= turns
  /\ turn # 0 => \A i \in 1..Len(events) :
       events[i].of = turn => i = Len(events) /\ events[i].kind # "ended"

\* A turn that the driver was told of and that goes on is counted.
ToldIsCounted == turn # 0 /\ turn \in told => running > 0 /\ events = <<>>

\* The server lists every child that runs, and a session it has forgotten has
\* neither a turn nor such a child.
RunningIsListed == \A c \in Children : child[c].status = "running" => child[c].listed

Forgotten ==
  Watching /\ ~server.knows =>
    turn = 0 /\ \A c \in Children : child[c].status # "running"

\* From a poll that found nothing active to its judgement, either something has
\* happened, or a turn is counted, or only turns it was not told of have children.
NothingTold ==
  main.pc = "judge" /\ main.rows = "none" /\ quiet > main.lag /\ running = 0 =>
    \A c \in Children : child[c].status = "running" => child[c].of \notin told

Idle == TurnsInOrder /\ ToldIsCounted /\ RunningIsListed /\ Forgotten /\ NothingTold

LEMMA IdleInit == Init => Idle
<1> SUFFICES ASSUME Init PROVE Idle
  OBVIOUS
<1>1. told = {0} /\ turns = turn /\ turn \in {0, 1} /\ events = <<>> /\ Len(events) = 0
  BY DEF Init
<1>2. main.pc \in {"launch", "attach"}
  BY DEF Init
<1>3. RunningIsListed
  <2>1. ASSUME NEW a \in Attachable, a.status = "running" PROVE a.listed
    <3>1. CASE a = Absent
      BY <2>1, <3>1 DEF Absent
    <3>2. CASE a # Absent
      <4>1. a.listed = TRUE
        BY <3>2 DEF Attachable
      <4> QED BY <4>1
    <3> QED BY <3>1, <3>2
  <2>2. Absent.status # "running"
    BY DEF Absent
  <2> QED BY <2>1, <2>2 DEF Init, RunningIsListed
<1>4. TurnsInOrder
  BY <1>1 DEF TurnsInOrder
<1>5. ToldIsCounted /\ NothingTold
  BY <1>1, <1>2 DEF ToldIsCounted, NothingTold
<1>6. Forgotten
  BY <1>2 DEF Forgotten, Watching, Alive, Loop
<1> QED BY <1>3, <1>4, <1>5, <1>6 DEF Idle

\* A turn that begins, and what the driver may hear of it.
LEMMA TurnBegins ==
  ASSUME TypeOK, TurnsInOrder, CanStart, Room, Begin,
         NEW kind \in {"started", "woken"}, Emit([kind |-> kind, of |-> turns + 1]), told' = told
  PROVE  /\ TurnsInOrder' /\ turn' \notin told'
<1>1. /\ turns \in Nat /\ turn' = turns + 1 /\ turns' = turns + 1
      /\ events \in Seq(Event) /\ Len(events) \in Nat
  BY Constant DEF TypeOK, Begin, Event
<1>2. told' \subseteq 0..turns' /\ turn' \notin told'
  BY <1>1 DEF TurnsInOrder
<1>3. CASE watching
  <2> DEFINE e == [kind |-> kind, of |-> turns + 1]
  <2>1. e \in Event
    BY BeginTyped DEF Event
  <2>2. events' = Append(events, e)
    BY <1>3 DEF Emit
  <2>3. e.of = turns + 1 /\ e.kind # "ended"
    OBVIOUS
  <2> HIDE DEF e
  <2>4. Len(events') = Len(events) + 1 /\ events'[Len(events) + 1] = e
        /\ \A i \in 1..Len(events) : events'[i] = events[i]
    BY <1>1, <2>1, <2>2
  <2>5. \A i \in 1..Len(events') : i \in 1..Len(events) \/ i = Len(events) + 1
    BY <1>1, <2>4
  <2>6. \A i \in 1..Len(events) : events[i].of <= turns /\ events[i].of \in Nat
    <3>1. \A i \in 1..Len(events) : events[i] \in Event
      BY <1>1
    <3> QED BY <3>1, Constant DEF TurnsInOrder, Event
  <2>7. \A i \in 1..Len(events') :
          /\ events'[i].of <= turns'
          /\ events'[i].of = turn' => i = Len(events') /\ events'[i].kind # "ended"
    BY <1>1, <2>3, <2>4, <2>5, <2>6
  <2> QED BY <1>2, <2>7 DEF TurnsInOrder
<1>4. CASE ~watching
  <2>1. events' = events
    BY <1>4 DEF Emit
  <2>2. \A i \in 1..Len(events) : events[i].of <= turns /\ events[i].of \in Nat
    <3>1. \A i \in 1..Len(events) : events[i] \in Event
      BY <1>1
    <3> QED BY <3>1, Constant DEF TurnsInOrder, Event
  <2> QED BY <1>1, <1>2, <2>1, <2>2 DEF TurnsInOrder
<1> QED BY <1>2, <1>3, <1>4

\* A step that begins no turn and handles no event keeps the turns in order.
LEMMA OrderKept ==
  ASSUME TypeOK, TurnsInOrder, ToldIsCounted, UNCHANGED <<turns, told, running>>,
         turn' \in {turn, 0}, events' \in {events, <<>>}
  PROVE  TurnsInOrder' /\ ToldIsCounted'
<1>1. CASE events' = events
  BY <1>1 DEF TurnsInOrder, ToldIsCounted
<1>2. CASE events' = <<>>
  <2>1. Len(events') = 0
    BY <1>2
  <2> QED BY <1>2, <2>1 DEF TurnsInOrder, ToldIsCounted
<1> QED BY <1>1, <1>2

\* So does a step that, besides, leaves the children, the clocks and the main
\* thread alone, or ends it.
LEMMA IdleKept ==
  ASSUME TypeOK, Idle, UNCHANGED <<turns, told, running, child>>, turn' \in {turn, 0},
         events' \in {events, <<>>}, server'.knows = server.knows,
         \/ UNCHANGED <<main, quiet>>
         \/ main'.pc # "judge" /\ (Watching' => Watching \/ server.knows)
  PROVE  Idle'
<1>1. TurnsInOrder' /\ ToldIsCounted'
  BY OrderKept DEF Idle
<1>2. RunningIsListed'
  BY DEF Idle, RunningIsListed
<1>3. Forgotten'
  BY DEF Idle, Forgotten, Watching, Alive
<1>4. NothingTold'
  BY DEF Idle, NothingTold
<1> QED BY <1>1, <1>2, <1>3, <1>4 DEF Idle

\* What the server does keeps it.
LEMMA IdleEnvironment == TypeOK /\ Idle /\ Alive /\ Environment => Idle'
<1> SUFFICES ASSUME TypeOK, Idle, Alive, Environment PROVE Idle'
  OBVIOUS
<1>0. child \in [Children -> Child] /\ \A c \in Children : child[c] \in Child
  BY DEF TypeOK, Child
<1>1. CASE Stop
  <2>1. UNCHANGED <<turns, told, running>> /\ turn' = 0 /\ events' = <<>>
    BY <1>1 DEF Stop, drivers
  <2>2. TurnsInOrder' /\ ToldIsCounted'
    BY <2>1, OrderKept DEF Idle
  <2>3. \A c \in Children : child'[c].status # "running"
    <3>1. \A c \in Children :
            child'[c] = [child[c] EXCEPT !.status = IF @ = "running" THEN "lost" ELSE @, !.listed = FALSE]
      BY <1>1 DEF Stop
    <3> QED BY <1>0, <3>1 DEF Child
  <2> QED BY <2>1, <2>2, <2>3 DEF Idle, RunningIsListed, Forgotten, NothingTold
<1>2. CASE Return
  <2>1. server'.knows = server.knows
    BY <1>2 DEF Return, TypeOK
  <2> QED BY <1>2, <2>1, IdleKept DEF Return, drivers
<1>3. CASE WakeTurn
  <2>1. TurnsInOrder' /\ turn' \notin told'
    BY <1>3, TurnBegins DEF WakeTurn, Idle
  <2>2. UNCHANGED <<server, child, main, quiet, running, told>> /\ server.knows
    BY <1>3 DEF WakeTurn, drivers, CanStart
  <2> QED BY <2>1, <2>2 DEF Idle, ToldIsCounted, RunningIsListed, Forgotten, NothingTold
<1>4. CASE TurnEnds
  <2>1. UNCHANGED <<server, turns, child, main, quiet, running, told>> /\ turn' = 0 /\ turn # 0
        /\ Emit([kind |-> "ended", of |-> turn])
    BY <1>4 DEF TurnEnds, drivers
  <2> DEFINE e == [kind |-> "ended", of |-> turn]
  <2>2. e \in Event /\ e.of <= turns /\ events \in Seq(Event)
    BY <2>1, Constant DEF Event, TypeOK
  <2>3. events' = Append(events, e) \/ events' = events
    BY <2>1 DEF Emit
  <2> HIDE DEF e
  <2>4. \A i \in 1..Len(events') : events'[i].of <= turns
    <3>1. CASE events' = events
      BY <3>1 DEF Idle, TurnsInOrder
    <3>2. CASE events' = Append(events, e)
      <4>1. Len(events') = Len(events) + 1 /\ Len(events) \in Nat /\ events'[Len(events) + 1] = e
            /\ \A i \in 1..Len(events) : events'[i] = events[i]
        BY <2>2, <3>2
      <4>2. \A i \in 1..Len(events') : i \in 1..Len(events) \/ i = Len(events) + 1
        BY <4>1
      <4> QED BY <2>2, <4>1, <4>2 DEF Idle, TurnsInOrder
    <3> QED BY <2>3, <3>1, <3>2
  <2>5. TurnsInOrder' /\ ToldIsCounted'
    BY <2>1, <2>4 DEF Idle, TurnsInOrder, ToldIsCounted
  <2>6. RunningIsListed' /\ Forgotten'
    BY <2>1 DEF Idle, RunningIsListed, Forgotten, Watching, Alive
  <2>7. NothingTold'
    BY <2>1 DEF Idle, NothingTold
  <2> QED BY <2>5, <2>6, <2>7 DEF Idle
<1>5. CASE Disconnect
  BY <1>5, IdleKept DEF Disconnect, world, drivers
<1>6. CASE TurnOutput
  <2>1. UNCHANGED <<world, events, main, running, told>> /\ quiet' = 0
    BY <1>6 DEF TurnOutput, drivers
  <2>2. ~(quiet' > main'.lag)
    BY <2>1 DEF TypeOK
  <2> QED BY <2>1, <2>2 DEF world, Idle, TurnsInOrder, ToldIsCounted, RunningIsListed, Forgotten, NothingTold,
        Watching, Alive
<1>7. ASSUME NEW c \in Children, Spawn(c) PROVE Idle'
  <2>1. UNCHANGED <<server, turn, turns, events, main, quiet, running, told>> /\ turn # 0
        /\ child' = [child EXCEPT ![c] = [Absent EXCEPT !.status = "running", !.of = turn, !.listed = TRUE]]
    BY <1>7 DEF Spawn, drivers
  <2>2. \A d \in Children : /\ d # c => child'[d] = child[d]
                            /\ d = c => child'[d].of = turn /\ child'[d].listed
    BY <1>0, <2>1 DEF Absent
  <2>3. RunningIsListed'
    BY <2>2 DEF Idle, RunningIsListed
  <2>4. NothingTold'
    <3>1. running = 0 => turn \notin told
      BY <2>1 DEF Idle, ToldIsCounted
    <3> QED BY <2>1, <2>2, <3>1 DEF Idle, NothingTold
  <2>5. Forgotten'
    BY <2>1 DEF Idle, Forgotten, Watching, Alive
  <2> QED BY <2>1, <2>3, <2>4, <2>5 DEF Idle, TurnsInOrder, ToldIsCounted
<1>8. ASSUME NEW c \in Children, Speak(c) \/ ChildEnds(c) PROVE Idle'
  <2>1. UNCHANGED <<server, turn, turns, events, main, quiet, running, told>>
    BY <1>8 DEF Speak, ChildEnds, drivers
  <2>2. \A d \in Children : child'[d].status = "running" =>
          child[d].status = "running" /\ child'[d].of = child[d].of /\ child'[d].listed = child[d].listed
    <3>1. CASE ChildEnds(c)
      BY <1>0, <3>1 DEF ChildEnds, Child
    <3>2. CASE Speak(c)
      <4>1. PICK o : child' = [child EXCEPT ![c].output = o]
        <5>1. child' = [child EXCEPT ![c].output = IF child[c].output = "silent" THEN "unseen"
                                  ELSE IF child[c].output = "seen" THEN "moved" ELSE child[c].output]
          BY <3>2 DEF Speak
        <5> QED BY <5>1
      <4> QED BY <1>0, <4>1 DEF Child
    <3> QED BY <1>8, <3>1, <3>2
  <2> QED BY <2>1, <2>2 DEF Idle, TurnsInOrder, ToldIsCounted, RunningIsListed, Forgotten, NothingTold,
        Watching, Alive
<1> QED BY <1>1, <1>2, <1>3, <1>4, <1>5, <1>6, <1>7, <1>8 DEF Environment

\* So does the passing of time: the age of the last activity grows with the round.
LEMMA IdleTick == TypeOK /\ Idle /\ Alive /\ Tick => Idle'
<1> SUFFICES ASSUME TypeOK, Idle, Alive, Tick PROVE Idle'
  OBVIOUS
<1>1. UNCHANGED <<server, turn, turns, child, events, running, told>>
  BY DEF Tick, world
<1>2. main'.pc = main.pc /\ main'.rows = main.rows
      /\ (main.pc = "judge" => main.lag = 0 /\ main'.lag = 1)
  BY DEF Tick, TypeOK, Loop
<1>3. quiet \in Nat /\ (quiet' > 1 => quiet > 0)
  BY Constant DEF Tick, TypeOK, Cap
<1>4. NothingTold'
  BY <1>1, <1>2, <1>3 DEF Idle, NothingTold
<1> QED BY <1>1, <1>2, <1>4 DEF Idle, TurnsInOrder, ToldIsCounted, RunningIsListed, Forgotten, Watching, Alive

\* So do the other threads.
LEMMA IdleThreads == TypeOK /\ Idle /\ Alive /\ Threads => Idle'
<1> SUFFICES ASSUME TypeOK, Idle, Alive, Threads PROVE Idle'
  OBVIOUS
<1>1. CASE Connect \/ CloseComposer \/ EscalationEnds
  BY <1>1, IdleKept DEF Connect, CloseComposer, EscalationEnds, threads
<1>2. CASE HandleEvent
  <2>1. /\ UNCHANGED <<server, turn, turns, main, child>> /\ events # <<>> /\ events' = Tail(events)
        /\ events \in Seq(Event) /\ quiet' = 0
        /\ \/ running' = running + 1 /\ told' = told \cup {Head(events).of}
           \/ UNCHANGED told
    BY <1>2 DEF HandleEvent, threads, TurnStarted, TurnEnded, TypeOK, Event
  <2>2. /\ Len(events) \in Nat /\ Len(events) >= 1 /\ Head(events) = events[1]
        /\ Len(Tail(events)) = Len(events) - 1
        /\ \A i \in 1..Len(Tail(events)) : Tail(events)[i] = events[i + 1] /\ i + 1 \in 1..Len(events)
    BY <2>1
  <2>3. 1 \in 1..Len(events) /\ events[1].of \in 0..turns
    <3>1. events[1] \in Event /\ 1 \in 1..Len(events)
      BY <2>1, <2>2
    <3>2. events[1].of \in Nat
      BY <3>1, Constant DEF Event
    <3> QED BY <3>1, <3>2 DEF Idle, TurnsInOrder, TypeOK
  <2>4. TurnsInOrder'
    <3>1. told' \subseteq 0..turns'
      BY <2>1, <2>2, <2>3 DEF Idle, TurnsInOrder
    <3>2. \A i \in 1..Len(events') :
            /\ events'[i].of <= turns'
            /\ turn' # 0 /\ events'[i].of = turn' => i = Len(events') /\ events'[i].kind # "ended"
      <4> SUFFICES ASSUME NEW i \in 1..Len(events')
                   PROVE  /\ events'[i].of <= turns'
                          /\ turn' # 0 /\ events'[i].of = turn' =>
                               i = Len(events') /\ events'[i].kind # "ended"
        OBVIOUS
      <4>1. i \in Nat /\ events'[i] = events[i + 1] /\ i + 1 \in 1..Len(events)
            /\ Len(events') = Len(events) - 1 /\ Len(events) \in Nat /\ turn' = turn /\ turns' = turns
        BY <2>1, <2>2
      <4>2. events[i + 1].of <= turns
            /\ (turn # 0 /\ events[i + 1].of = turn => i + 1 = Len(events) /\ events[i + 1].kind # "ended")
        BY <4>1 DEF Idle, TurnsInOrder
      <4> QED BY <4>1, <4>2
    <3> QED BY <3>1, <3>2 DEF TurnsInOrder
  <2>5. ToldIsCounted'
    <3>1. SUFFICES ASSUME turn # 0, turn \in told' PROVE running' > 0 /\ events' = <<>>
      BY <2>1 DEF ToldIsCounted
    <3>2. turn \notin told
      BY <2>1, <3>1 DEF Idle, ToldIsCounted
    <3>3. running' = running + 1 /\ turn = events[1].of
      BY <2>1, <2>2, <3>1, <3>2
    <3>4. Len(events) = 1
      BY <2>3, <3>1, <3>3 DEF Idle, TurnsInOrder
    <3>5. Tail(events) = <<>>
      <4>1. Tail(events) \in Seq(Event) /\ Len(Tail(events)) = 0
        BY <2>1, <2>2, <3>4
      <4> QED BY <4>1, EmptySeq
    <3> QED BY <2>1, <3>3, <3>5 DEF TypeOK
  <2>6. NothingTold'
    BY <2>1 DEF NothingTold, TypeOK
  <2> QED BY <2>1, <2>4, <2>5, <2>6 DEF Idle, RunningIsListed, Forgotten, Watching, Alive
<1> QED BY <1>1, <1>2 DEF Threads

\* What the main thread does keeps it.
LEMMA IdleMain == TypeOK /\ Idle /\ Alive /\ (Main \/ Terminate) => Idle'
<1> SUFFICES ASSUME TypeOK, Idle, Alive, Main \/ Terminate PROVE Idle'
  OBVIOUS
<1>1. ASSUME NEW pc \in Over, Exit(pc), UNCHANGED <<turns, turn, told, running, child, server>> PROVE Idle'
  <2>1. main'.pc = pc /\ events' = <<>> /\ ~Watching'
    BY <1>1, ExitTyped DEF Watching, Alive
  <2>2. main'.pc # "judge"
    BY <2>1 DEF Over
  <2> QED BY <1>1, <2>1, <2>2, IdleKept
<1>2. ASSUME NEW pc \in {"post", "waiting", "turn", "finish"}, main'.pc = pc, Watching \/ server.knows,
             UNCHANGED <<turns, turn, told, running, child, server, events>> PROVE Idle'
  BY <1>2, IdleKept
<1>3. /\ "died" \in Over /\ "refused" \in Over /\ "finished" \in Over /\ "terminated" \in Over
  BY DEF Over
<1>4. \A pc : [main EXCEPT !.pc = pc].pc = pc /\ [main EXCEPT !.pc = pc, !.lag = 1].pc = pc
  BY DEF TypeOK
<1>5. CASE Launch
  <2>1. UNCHANGED <<turns, turn, told, running, child, server>>
    BY <1>5 DEF Launch, rest, world
  <2>2. CASE server.knows /\ Goto("post") /\ UNCHANGED links
    BY <1>2, <1>4, <2>1, <2>2 DEF Goto, links
  <2>3. CASE Exit("died")
    BY <1>1, <1>3, <2>1, <2>3
  <2> QED BY <1>5, <2>2, <2>3 DEF Launch
<1>6. CASE PostJob
  <2>1. CASE Exit("died") /\ UNCHANGED <<turn, turns>>
    BY <1>1, <1>3, <1>6, <2>1 DEF PostJob, rest
  <2>2. CASE CanStart /\ Room /\ Begin /\ Goto("turn") /\ Emit([kind |-> "started", of |-> turns + 1])
    <3>1. UNCHANGED <<told, running, child, server>> /\ server.knows /\ main'.pc = "turn"
      BY <1>4, <1>6, <2>2 DEF PostJob, rest, CanStart, Goto
    <3>2. TurnsInOrder' /\ turn' \notin told'
      BY <2>2, <3>1, TurnBegins DEF Idle
    <3> QED BY <3>1, <3>2 DEF Idle, ToldIsCounted, RunningIsListed, Forgotten, NothingTold
  <2> QED BY <1>6, <2>1, <2>2 DEF PostJob
<1>7. CASE JobTurnEnds
  <2>1. UNCHANGED <<turns, turn, told, running, child, server>> /\ Watching
    BY <1>7 DEF JobTurnEnds, rest, world, Watching
  <2>2. CASE Loops /\ UNCHANGED links
    BY <1>2, <1>4, <2>1, <2>2 DEF Loops, links
  <2>3. CASE Exit("died")
    BY <1>1, <1>3, <2>1, <2>3
  <2> QED BY <1>7, <2>2, <2>3 DEF JobTurnEnds
<1>8. CASE Attach
  <2>1. UNCHANGED <<turns, turn, told, running, child, server>>
    BY <1>8 DEF Attach, rest, world
  <2>2. CASE server.knows /\ Loops /\ UNCHANGED links
    BY <1>2, <1>4, <2>1, <2>2 DEF Loops, links
  <2>3. CASE Exit("died") \/ Exit("refused")
    BY <1>1, <1>3, <2>1, <2>3
  <2> QED BY <1>8, <2>2, <2>3 DEF Attach
<1>9. CASE Poll
  <2>1. UNCHANGED <<server, turn, turns, events, running, told>> /\ Watching
    BY <1>9 DEF Poll, polling, Watching
  <2>2. \A c \in Children : child'[c].status = child[c].status /\ child'[c].of = child[c].of
                            /\ child'[c].listed = child[c].listed
    <3>1. \A c \in Children : child[c] \in Child
      BY DEF TypeOK, Child
    <3>2. CASE PollRows
      BY <3>1, <3>2 DEF PollRows, Child
    <3>3. CASE PollRefused \/ PollFails
      BY <3>3 DEF PollRefused, PollFails
    <3> QED BY <1>9, <3>2, <3>3 DEF Poll
  <2>3. main'.pc = "judge" /\ (main'.rows = "none" => \A c \in Children : child[c].status # "running")
    <3>1. \A pc, lag, rows : LET m == [main EXCEPT !.pc = pc, !.lag = lag, !.rows = rows]
                             IN m.pc = pc /\ m.rows = rows
      BY DEF TypeOK
    <3>2. CASE PollRows
      <4>1. main'.pc = "judge" /\ main'.rows = Rows
        BY <3>1, <3>2 DEF PollRows
      <4> QED BY <4>1 DEF Rows, Listed, Idle, RunningIsListed
    <3>3. CASE PollRefused
      <4>1. main'.pc = "judge" /\ main'.rows = IF server.knows THEN "failed" ELSE "none"
        BY <3>1, <3>3 DEF PollRefused
      <4> QED BY <2>1, <4>1 DEF Idle, Forgotten
    <3>4. CASE PollFails
      BY <3>1, <3>4 DEF PollFails
    <3> QED BY <1>9, <3>2, <3>3, <3>4 DEF Poll
  <2> QED BY <2>1, <2>2, <2>3 DEF Idle, TurnsInOrder, ToldIsCounted, RunningIsListed, Forgotten, NothingTold
<1>10. CASE Judge
  <2>1. UNCHANGED <<server, child, running, told>> /\ main'.pc \in {"finish", "waiting"} /\ Watching
    BY <1>10 DEF Judge, Watching
  <2>2. CASE UNCHANGED <<turn, turns, events>>
    BY <1>2, <2>1, <2>2
  <2>3. CASE CanStart /\ Room /\ Begin /\ Emit([kind |-> "started", of |-> turns + 1])
    <3>1. TurnsInOrder' /\ turn' \notin told' /\ server.knows
      BY <2>1, <2>3, TurnBegins DEF Idle, CanStart
    <3> QED BY <2>1, <3>1 DEF Idle, ToldIsCounted, RunningIsListed, Forgotten, NothingTold
  <2> QED BY <1>10, <2>2, <2>3 DEF Judge, Handed
<1>11. CASE EscalationFails \/ Finish \/ Terminate
  BY <1>1, <1>3, <1>11 DEF EscalationFails, Finish, Terminate, rest, world
<1> QED BY <1>5, <1>6, <1>7, <1>8, <1>9, <1>10, <1>11 DEF Main

LEMMA IdleInductive == TypeOK /\ Idle /\ [Next]_vars => Idle'
<1>1. TypeOK /\ Idle /\ Next => Idle'
  BY IdleEnvironment, IdleTick, IdleThreads, IdleMain DEF Next
<1>2. TypeOK /\ Idle /\ UNCHANGED vars => Idle'
  BY IdleKept DEF vars, world
<1> QED BY <1>1, <1>2

\* For any number of children, turns and intervals: supervision that ends for
\* want of activity leaves no turn and no child of a turn behind that the driver
\* was told of, whatever was lost, delayed or begun between the poll and the
\* judgement on it (supervise, on_server_event).
THEOREM QuietDriverIsIdle == Spec => QuietMeansIdle
<1> DEFINE Bare == /\ turn \in told => turn = 0
                   /\ \A c \in Children : child[c].status = "running" => child[c].of \notin told
           Leaves == main.pc = "judge" /\ main'.pc = "finish" /\ Ended
<1>1. TypeOK /\ Idle /\ [Next]_vars => [Leaves => Bare]_vars
  <2>1. SUFFICES ASSUME TypeOK, Idle, Leaves PROVE Bare
    OBVIOUS
  <2>2. running = 0 /\ main.rows = "none" /\ quiet > main.lag /\ main.pc = "judge"
    BY <2>1, Constant DEF Ended, Busy, TypeOK
  <2> QED BY <2>1, <2>2 DEF Idle, ToldIsCounted, NothingTold
<1>2. QuietMeansIdle <=> [][Leaves => Bare]_vars
  BY DEF QuietMeansIdle
<1>3. Spec => [](TypeOK /\ Idle)
  <2>1. Init => TypeOK /\ Idle
    BY IInvInit, IdleInit DEF IInv
  <2>2. TypeOK /\ Idle /\ [Next]_vars => (TypeOK /\ Idle)'
    BY NextTyped, IdleInductive
  <2> QED BY <2>1, <2>2, PTL DEF Spec
<1> QED BY <1>1, <1>2, <1>3, PTL DEF Spec
=============================================================================
