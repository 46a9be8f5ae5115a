----------------------------- MODULE CoddyDriver -----------------------------
(***************************************************************************)
(* The operator's driver of one Coddy session (tools/coddy_driver/         *)
(* driver.py) with its ParentIdleWatchdog, against the Coddy server.  The  *)
(* server runs the parent's turns and the children they spawn; it may stop *)
(* and come back, and every stream to it may break.  The driver's main     *)
(* thread posts the job turn and supervises, one thread reads the event    *)
(* stream, one at most follows the composer, and an escalation may post a  *)
(* turn from a thread of its own.  Time passes in poll intervals, and the  *)
(* state keeps ages, not instants.  Permission prompts are not modelled.   *)
(***************************************************************************)
EXTENDS Naturals, Sequences, FiniteSets

CONSTANTS
  Children,    \* background tasks of the session
  Quiet,       \* QUIET_SECONDS, in poll intervals
  GiveUp,      \* SERVER_LOST_GIVE_UP
  LostAfter,   \* SERVER_LOST_AFTER: consecutive failed polls
  MaxTurns,    \* bound: turns of the session
  MaxEvents,   \* bound: events under way to the driver
  MaxStops     \* bound: times the server stops

ASSUME DriverAssumption ==
  /\ {Quiet, GiveUp, LostAfter, MaxTurns} \subseteq Nat \ {0}
  /\ Quiet <= GiveUp /\ MaxEvents \in Nat /\ MaxStops \in Nat

VARIABLES
  server,    \* the server: up, knows the session, stops so far
  turn,      \* the number of the parent's active turn, or 0
  turns,     \* turns begun so far
  child,     \* each child at the server: status, age and visibility of its output
  events,    \* events under way on GET /coddy/events
  watching,  \* the events stream is connected
  main,      \* the main thread: step, rows of the last poll, age of its clock reading
  seen,      \* Driver.tasks: what the driver last saw of each child
  running,   \* Driver.running_turns
  quiet,     \* the age of Driver.last_activity
  poll,      \* Driver.failed_polls and Driver.server_lost
  watchdog,  \* ParentIdleWatchdog: within IDLE_SECONDS of progress, beyond, or reported
  composer,  \* the thread that holds composer_busy
  escalate,  \* the thread that posts an escalation; Driver.own_turn while it is set
  cut,       \* Driver.incomplete_turns > 0
  outcome,   \* Driver.outcome as recorded
  told,      \* history: turns whose start the events thread has handled
  broken     \* history: a turn stream the driver read ended without [DONE]

world == <<server, turn, turns, child>>
vars == <<world, events, watching, main, seen, running, quiet, poll,
          watchdog, composer, escalate, cut, outcome, told, broken>>

Loop == {"waiting", "judge"}   \* the steps of supervise
Over == {"finished", "died", "refused", "terminated"}
Known == {"reported", "unreported"}   \* parent-reported:..., no-parent-report

Cap(n, limit) == IF n < limit THEN n + 1 ELSE limit
Listed == {c \in Children : child[c].status \in {"running", "ended"} /\ child[c].listed}

Alive == main.pc \notin Over   \* the other threads are daemons
Watching == Alive /\ main.pc \notin {"launch", "attach"}   \* after start_watchers

Absent == [status |-> "none", of |-> 0, listed |-> FALSE, output |-> "silent"]

\* A child that a session may hold when the driver attaches to it
Attachable ==
  {Absent} \cup [status : {"running", "ended"}, of : {0}, listed : {TRUE},
                 output : {"unseen"}]

Init ==
  /\ \/ /\ main = [pc |-> "launch", rows |-> "failed", lag |-> 0] /\ turn = 0
        /\ child = [c \in Children |-> Absent]
     \/ /\ main = [pc |-> "attach", rows |-> "failed", lag |-> 0] /\ turn \in {0, 1}
        /\ child \in [Children -> Attachable]
  /\ turns = turn
  /\ server \in [up : {TRUE}, knows : BOOLEAN, stops : {0}]
  /\ events = <<>> /\ watching = FALSE
  /\ seen = [c \in Children |-> "never"]
  /\ running = 0 /\ quiet = 0
  /\ poll = [failed |-> 0, lost |-> FALSE]
  /\ watchdog = "fresh"
  /\ composer = "none" /\ escalate = "none"
  /\ cut = FALSE /\ outcome = "none"
  /\ told = {0} /\ broken = FALSE

Goto(pc) == main' = [main EXCEPT !.pc = pc]

\* The main thread returns or fails: the process ends, its threads and
\* connections with it.
Exit(pc) ==
  /\ main' = [pc |-> pc, rows |-> "failed", lag |-> 0]
  /\ watching' = FALSE /\ events' = <<>> /\ composer' = "none" /\ escalate' = "none"

\* own_turn: set while the main thread or an escalation posts and reads a turn
Own == main.pc = "turn" \/ escalate = "streaming"

----------------------------------------------------------------------------
\* The server, external to the driver

Room == ~watching \/ Len(events) < MaxEvents   \* bound of the model

Emit(message) == events' = IF watching THEN Append(events, message) ELSE events

Streaming == Own \/ composer = "reading"

drivers == <<main, seen, running, poll, watchdog, composer, escalate,
             cut, outcome, broken>>

\* The server stops: its turn and its children are lost with it, and every
\* connection; afterwards it may or may not know the session.
Stop ==
  /\ server.up /\ server.stops < MaxStops
  /\ \E knows \in {FALSE, server.knows} :
       server' = [up |-> FALSE, knows |-> knows, stops |-> server.stops + 1]
  /\ turn' = 0
  /\ child' = [c \in Children |->
       [child[c] EXCEPT !.status = IF @ = "running" THEN "lost" ELSE @, !.listed = FALSE]]
  /\ watching' = FALSE /\ events' = <<>>
  /\ UNCHANGED <<turns, drivers, quiet, told>>

Return ==
  /\ ~server.up
  /\ server' = [server EXCEPT !.up = TRUE]
  /\ UNCHANGED <<turn, turns, child, events, watching, drivers, quiet, told>>

CanStart == server.up /\ server.knows /\ turn = 0 /\ turns < MaxTurns

Begin == turn' = turns + 1 /\ turns' = turns + 1

\* A child has finished and wakes its parent (notify_on_finish).
WakeTurn ==
  /\ CanStart /\ Room
  /\ \E c \in Children : child[c].status = "ended" /\ child[c].listed
  /\ Begin
  /\ Emit([kind |-> "woken", of |-> turns + 1])
  /\ UNCHANGED <<server, child, watching, drivers, quiet, told>>

TurnEnds ==
  /\ turn # 0 /\ Room
  /\ turn' = 0
  /\ Emit([kind |-> "ended", of |-> turn])
  /\ UNCHANGED <<server, turns, child, watching, drivers, quiet, told>>

Spawn(c) ==
  /\ turn # 0 /\ child[c].status = "none"
  /\ child' = [child EXCEPT ![c] = [Absent EXCEPT !.status = "running", !.of = turn,
                                                  !.listed = TRUE]]
  /\ UNCHANGED <<server, turn, turns, events, watching, drivers, quiet, told>>

\* New visible output: last_output_at moves.
Speak(c) ==
  /\ child[c].status = "running"
  /\ child' = [child EXCEPT ![c].output = IF @ = "silent" THEN "unseen"
                                         ELSE IF @ = "seen" THEN "moved" ELSE @]
  /\ child'[c] # child[c]
  /\ UNCHANGED <<server, turn, turns, events, watching, drivers, quiet, told>>

ChildEnds(c) ==
  /\ child[c].status = "running"
  /\ child' = [child EXCEPT ![c].status = "ended"]
  /\ UNCHANGED <<server, turn, turns, events, watching, drivers, quiet, told>>

\* The events stream breaks; what is under way on it is lost.
Disconnect ==
  /\ watching
  /\ watching' = FALSE /\ events' = <<>>
  /\ UNCHANGED <<world, drivers, quiet, told>>

\* Text, tool and other events of a turn reach a stream the driver reads.
TurnOutput ==
  /\ turn # 0 /\ Streaming /\ quiet # 0
  /\ quiet' = 0
  /\ UNCHANGED <<world, events, watching, drivers, told>>

Environment ==
  \/ Stop \/ Return \/ WakeTurn \/ TurnEnds \/ Disconnect \/ TurnOutput
  \/ \E c \in Children : Spawn(c) \/ Speak(c) \/ ChildEnds(c)

\* One poll interval passes.  A round of supervise takes one interval at most.
Tick ==
  /\ main.pc \in Loop => main.lag = 0
  /\ quiet' = Cap(quiet, GiveUp + 2)
  /\ watchdog' \in {watchdog} \cup IF watchdog = "fresh" THEN {"due"} ELSE {}
  /\ main' = IF main.pc \in Loop THEN [main EXCEPT !.lag = 1] ELSE main
  /\ UNCHANGED <<world, events, watching, seen, running, poll, composer,
                 escalate, cut, outcome, told, broken>>

----------------------------------------------------------------------------
\* launch, attach and the job turn

rest == <<seen, running, quiet, poll, told>>
links == <<events, watching, composer, escalate>>

\* The bootstrap turn and the PATCH of the settings, then the watchdog and the
\* events thread: nothing catches a request that fails.
Launch ==
  /\ main.pc = "launch"
  /\ \/ server.up /\ server.knows /\ Goto("post") /\ UNCHANGED links
     \/ Exit("died")
  /\ UNCHANGED <<rest, world, watchdog, cut, outcome, broken>>

PostJob ==
  /\ main.pc = "post"
  /\ \/ /\ CanStart /\ Room /\ Begin /\ Goto("turn")
        /\ Emit([kind |-> "started", of |-> turns + 1])
        /\ UNCHANGED <<watching, composer, escalate>>
     \/ Exit("died") /\ UNCHANGED <<turn, turns>>
  /\ UNCHANGED <<rest, server, child, watchdog, cut, outcome, broken>>

\* How a stream of a turn ends: with [DONE] after the turn, cleanly before it,
\* or with an exception.
StreamDone(over) == over /\ UNCHANGED <<cut, broken>>
StreamCut  == cut' = TRUE /\ broken' = TRUE
StreamFails == broken' = TRUE /\ UNCHANGED cut

Loops == main' = [main EXCEPT !.pc = "waiting", !.lag = 1]   \* supervise begins

\* The main thread reads the job turn to its end; an exception ends the driver.
JobTurnEnds ==
  /\ main.pc = "turn"
  /\ \/ (StreamDone(turn # 1) \/ StreamCut) /\ Loops /\ UNCHANGED links
     \/ StreamFails /\ Exit("died")
  /\ UNCHANGED <<rest, world, watchdog, outcome>>

Attach ==
  /\ main.pc = "attach"
  /\ \/ server.up /\ server.knows /\ Loops /\ UNCHANGED <<links, outcome>>
     \/ server.up /\ ~server.knows /\ Exit("refused") /\ outcome' = "session-unknown"
     \/ Exit("died") /\ UNCHANGED outcome
  /\ UNCHANGED <<rest, world, watchdog, cut, broken>>

----------------------------------------------------------------------------
\* The events thread, the composer thread and the escalation thread

threads == <<server, turn, turns, main, seen, poll, watchdog, outcome>>

Connect ==
  /\ Watching /\ server.up /\ ~watching
  /\ watching' = TRUE
  /\ UNCHANGED <<threads, child, events, running, quiet, composer, escalate,
                 cut, told, broken>>

\* follow_composer: a second follower finds composer_busy and returns.
Follow == \/ composer' = "reading" /\ server.up
          \/ UNCHANGED composer

TurnStarted(n, woken) ==
  /\ running' = running + 1 /\ quiet' = 0 /\ told' = told \cup {n}
  /\ IF Own /\ ~woken THEN UNCHANGED composer ELSE Follow
  /\ UNCHANGED <<child, watching>>

TurnEnded ==
  /\ running' = IF running > 0 THEN running - 1 ELSE 0
  /\ quiet' = 0
  /\ UNCHANGED <<child, watching, composer, told>>

\* on_server_event
HandleEvent ==
  /\ Watching /\ events # <<>>
  /\ LET event == Head(events)
     IN \/ event.kind \in {"started", "woken"} /\ TurnStarted(event.of, event.kind = "woken")
        \/ event.kind = "ended" /\ TurnEnded
  /\ events' = Tail(events)
  /\ UNCHANGED <<threads, escalate, cut, broken>>

\* An exception on the composer stream is logged and nothing else.
CloseComposer ==
  /\ Alive /\ composer = "reading"
  /\ composer' = "none"
  /\ StreamDone(turn = 0) \/ StreamCut \/ StreamFails
  /\ UNCHANGED <<threads, child, events, watching, running, quiet, escalate,
                 told>>

EscalationEnds ==
  /\ Alive /\ escalate = "streaming"
  /\ escalate' = "none"
  /\ StreamDone(turn = 0) \/ StreamCut \/ StreamFails
  /\ UNCHANGED <<threads, child, events, watching, running, quiet, composer,
                 told>>

----------------------------------------------------------------------------
\* supervise

polling == <<server, turn, turns, events, watching, running, composer,
             escalate, cut, outcome, told, broken>>

\* What the rows of a poll hold: an active child, or none
Rows == IF \E c \in Listed : child[c].status = "running" THEN "active" ELSE "none"

\* record_visible_progress: at the instant of a stamp, or now
RecordVisibleProgress(stamped) == watchdog' \in {"fresh"} \cup IF stamped THEN {"due"} ELSE {}

\* record_visible_progress, once per row that shows output for the first time
\* (at the instant of its stamp) or output that is new; the last row counts.
Progress ==
  LET first == {c \in Listed : child[c].output = "unseen"}
      moved == {c \in Listed : child[c].output = "moved"}
  IN IF first \cup moved = {} THEN UNCHANGED <<watchdog, quiet>>
     ELSE /\ \E c \in first \cup moved : RecordVisibleProgress(c \in first)
          /\ quiet' = IF moved = {} THEN quiet ELSE 0

\* poll_tasks with the session's background tasks
PollRows ==
  /\ server.up /\ server.knows
  /\ poll' = [failed |-> 0, lost |-> FALSE]
  /\ main' = [main EXCEPT !.pc = "judge", !.lag = 0, !.rows = Rows]
  /\ seen' = [c \in Children |-> IF c \notin Listed THEN seen[c]
                                 ELSE IF child[c].status = "running" THEN "active" ELSE "ended"]
  /\ child' = [c \in Children |->
       IF c \in Listed /\ child[c].output # "silent"
       THEN [child[c] EXCEPT !.output = "seen"] ELSE child[c]]
  /\ Progress

\* poll_tasks with an HTTP error: the server is up
PollRefused ==
  /\ server.up
  /\ poll' = [failed |-> Cap(poll.failed, LostAfter), lost |-> FALSE]
  /\ main' = [main EXCEPT !.pc = "judge", !.lag = 0,
                          !.rows = IF server.knows THEN "failed" ELSE "none"]
  /\ UNCHANGED <<seen, child, watchdog, quiet>>

\* poll_tasks without an answer
PollFails ==
  /\ LET failed == Cap(poll.failed, LostAfter)
     IN poll' = [failed |-> failed, lost |-> poll.lost \/ failed = LostAfter]
  /\ main' = [main EXCEPT !.pc = "judge", !.lag = 0, !.rows = "failed"]
  /\ UNCHANGED <<seen, child, watchdog, quiet>>

Poll ==
  /\ main.pc = "waiting" /\ main.lag = 1
  /\ PollRows \/ PollRefused \/ PollFails
  /\ UNCHANGED polling

Due == main.rows = "active" /\ watchdog = "due"

\* escalate: a thread posts a turn for the decision, or the decision is queued to
\* the active turn, refused, or lost with the thread.
Handed ==
  \/ /\ CanStart /\ Room /\ escalate = "none" /\ Begin
     /\ Emit([kind |-> "started", of |-> turns + 1])
     /\ escalate' = "streaming"
  \/ server.up /\ UNCHANGED <<turn, turns, events, escalate>>

BusyWithoutTurns == Own \/ main.rows = "active"

Busy == running > 0 \/ Own \/ main.rows = "active"

Gone  == ~Busy /\ main.rows = "failed" /\ poll.lost /\ quiet > GiveUp + main.lag
Ended == ~Busy /\ main.rows = "none" /\ quiet > Quiet + main.lag

\* The rest of a round: the decision, activity, the ways out of the loop.
Judge ==
  /\ main.pc = "judge"
  /\ IF Due THEN Handed /\ watchdog' = "reported"
     ELSE UNCHANGED <<turn, turns, events, escalate, watchdog>>
  /\ quiet' = IF Busy THEN main.lag ELSE quiet
  /\ \E capped \in BOOLEAN :   \* the clock has passed hard_cap
       main' = [pc |-> IF Gone \/ Ended \/ capped THEN "finish" ELSE "waiting",
                rows |-> "failed", lag |-> 0]
  /\ UNCHANGED <<server, child, watching, seen, running, poll, composer,
                 cut, outcome, told, broken>>

\* Nothing catches an escalation that cannot be sent.
EscalationFails ==
  /\ main.pc = "judge" /\ Due
  /\ Exit("died")
  /\ UNCHANGED <<rest, world, watchdog, cut, outcome, broken>>

FinishForgettingChildren ==
  /\ main.pc = "finish"
  /\ Exit("finished")
  /\ IF poll.lost \/ cut THEN outcome' = "unknown"
     ELSE outcome' = "unreported" \/ (outcome' = "reported" /\ server.up /\ server.knows)
  /\ UNCHANGED <<rest, world, watchdog, cut, broken>>

\* finish: the transcript may hold the parent's report, if it can be read.
Finish ==
  /\ main.pc = "finish"
  /\ Exit("finished")
  /\ IF poll.lost \/ cut \/ \E c \in Children : seen[c] = "active"
     THEN outcome' = "unknown"
     ELSE \/ outcome' = "reported" /\ server.up /\ server.knows
          \/ outcome' = "unreported"
  /\ UNCHANGED <<rest, world, watchdog, cut, broken>>

\* main's handler of SIGTERM and SIGINT
Terminate ==
  /\ Exit("terminated") /\ outcome' = "unknown"
  /\ UNCHANGED <<rest, world, watchdog, cut, broken>>

Main == \/ Launch \/ PostJob \/ JobTurnEnds \/ Attach
        \/ Poll \/ Judge \/ EscalationFails \/ Finish

Threads == Connect \/ HandleEvent \/ CloseComposer \/ EscalationEnds

Next == Alive /\ (Environment \/ Tick \/ Main \/ Threads \/ Terminate)

Spec == Init /\ [][Next]_vars

----------------------------------------------------------------------------
\* Properties

TypeOK ==
  /\ turn \in 0..turns /\ turns \in 0..MaxTurns
  /\ server \in [up : BOOLEAN, knows : BOOLEAN, stops : 0..MaxStops]
  /\ child \in [Children -> [status : {"none", "running", "ended", "lost"},
                             of : 0..MaxTurns, listed : BOOLEAN,
                             output : {"silent", "unseen", "seen", "moved"}]]
  /\ events \in Seq([kind : {"started", "woken", "ended"}, of : 1..MaxTurns])
  /\ Len(events) <= MaxEvents /\ watching \in BOOLEAN
  /\ main \in [pc : Loop \cup Over \cup {"launch", "attach", "post", "turn", "finish"},
               rows : {"failed", "none", "active"}, lag : 0..1]
  /\ seen \in [Children -> {"never", "active", "ended"}]
  /\ running \in Nat /\ quiet \in 0..(GiveUp + 2)
  /\ poll \in [failed : 0..LostAfter, lost : BOOLEAN]
  /\ watchdog \in {"fresh", "due", "reported"}
  /\ composer \in {"none", "reading"}
  /\ escalate \in {"none", "streaming"}
  /\ cut \in BOOLEAN /\ broken \in BOOLEAN
  /\ outcome \in Known \cup {"none", "unknown", "session-unknown"}
  /\ told \subseteq 0..MaxTurns

\* With the state as described, an outcome other than unknown is recorded only
\* when every child the driver has ever seen has really ended at the server:
\* none of them still runs, waits for an answer or was lost when the server
\* stopped, whether or not it came back and answered since (finish, poll_tasks).
KnownOutcomeIsSettled ==
  /\ TypeOK
  /\ outcome \in Known =>
       \A c \in Children : seen[c] # "never" => child[c].status = "ended"

\* Supervision ends for want of activity only when no turn the driver was told
\* of is under way, and no child of such a turn runs or waits: what may still be
\* at work then was begun by a turn whose start never reached it (supervise
\* against on_server_event, between a poll and the judgement on it).
QuietMeansIdle ==
  [][main.pc = "judge" /\ main'.pc = "finish" /\ Ended =>
       /\ turn \in told => turn = 0
       /\ \A c \in Children : child[c].status = "running" => child[c].of \notin told]_vars

\* A turn whose stream the driver read and that ended without [DONE] makes the
\* outcome unknown (incomplete_turns, follow_composer).
CutTurnIsUnknown == broken => outcome \notin Known
=============================================================================
