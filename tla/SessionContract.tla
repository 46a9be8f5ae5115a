---------------------------- MODULE SessionContract ----------------------------
(***************************************************************************)
(* What native jobs and sessions promise, without rows, processes, crashes *)
(* or deadlines.  A job runs when all it depends on has succeeded and it   *)
(* was given each result, in a session whose context is complete, where    *)
(* nothing else runs and no command is sent; what was given up waits for   *)
(* the operator.  A command is sent one at a time, compact first, and one  *)
(* that got lost keeps its session from anything but the operator.         *)
(***************************************************************************)
EXTENDS Naturals, Sequences

CONSTANTS Jobs, Sessions, None, Deps, Mention, ReplaySafe

VARIABLES
  phase, home, runs, given,   \* of a job: its session, its runs, the results it has
  context, sending, unknown   \* of a session: commands it has, that are sent, that got lost

work == <<phase, home, runs, given>>
contexts == <<context, sending, unknown>>

Commands == {"compact", "rpa"}
Needs(j) == {Deps[j][i] : i \in DOMAIN Deps[j]}

Idle(s)  == \A j \in Jobs : phase[j] = "running" => home[j] # s
Quiet(s) == sending[s] = {} /\ unknown[s] = {}

Init ==
  /\ phase = [j \in Jobs |-> "absent"] /\ home = [j \in Jobs |-> None]
  /\ runs = [j \in Jobs |-> 0] /\ given = [j \in Jobs |-> {}]
  /\ context = [s \in Sessions |-> {}] /\ sending = [s \in Sessions |-> {}]
  /\ unknown = [s \in Sessions |-> {}]

\* A session of the job's own begins without context.
Register(j) ==
  /\ phase[j] = "absent" /\ \A i \in Needs(j) : phase[i] # "absent"
  /\ phase' = [phase EXCEPT ![j] = IF Deps[j] = <<>> THEN "ready" ELSE "pending"]
  /\ home' = [home EXCEPT ![j] = IF Deps[j] = <<>> /\ Mention[j] = None THEN j ELSE Mention[j]]
  /\ context' = [s \in Sessions |-> IF s = j /\ home'[j] = j THEN {} ELSE context[s]]
  /\ UNCHANGED <<runs, given, sending, unknown>>

\* the jobs that wait for nothing any more
Ripe(ph) == {j \in Jobs : ph[j] = "pending" /\ Deps[j] # <<>> /\ \A i \in Needs(j) : ph[i] = "succeeded"}

\* A job gets the session it names, that of the only job it depends on, or one
\* of its own; and with it the result of the run by which each dependency succeeded.
HomeOf(j) == IF Mention[j] # None THEN {Mention[j]}
             ELSE {j} \cup {home[i] : i \in {i \in Needs(j) : Len(Deps[j]) = 1}}

Receive(J) ==
  /\ \E to \in [J -> Sessions] :
       /\ \A j \in J : to[j] \in HomeOf(j)
       /\ home' = [j \in Jobs |-> IF j \in J THEN to[j] ELSE home[j]]
       /\ context' = [s \in Sessions |-> IF s \in J /\ to[s] = s THEN {} ELSE context[s]]
  /\ given' = [j \in Jobs |-> IF j \in J THEN {<<i, runs[i]>> : i \in Needs(j)} ELSE given[j]]
  /\ UNCHANGED <<runs, sending, unknown>>

Ready(J, ph) == phase' = [j \in Jobs |-> IF j \in J THEN "ready" ELSE ph[j]]

Release == Ready(Ripe(phase), phase) /\ Receive(Ripe(phase))

Start(j) ==
  /\ phase[j] = "ready" /\ Idle(home[j]) /\ Quiet(home[j]) /\ context[home[j]] = Commands
  /\ phase' = [phase EXCEPT ![j] = "running"] /\ runs' = [runs EXCEPT ![j] = @ + 1]
  /\ UNCHANGED <<home, given, contexts>>

\* A success releases at once whatever waited for it last.
End(j, end) ==
  LET ended == [phase EXCEPT ![j] = end]
      freed == IF end = "succeeded" THEN {k \in Ripe(ended) : j \in Needs(k)} ELSE {}
  IN phase[j] = "running" /\ Ready(freed, ended) /\ Receive(freed)

GiveUp ==
  /\ phase' = [j \in Jobs |-> IF phase[j] = "running" THEN "needs_operator" ELSE phase[j]]
  /\ UNCHANGED <<home, runs, given, contexts>>

Retry(j) ==
  /\ phase[j] = "failed" /\ j \in ReplaySafe
  /\ phase' = [phase EXCEPT ![j] = "ready"]
  /\ UNCHANGED <<home, runs, given, contexts>>

Send(s, c) ==
  /\ Idle(s) /\ Quiet(s) /\ c \notin context[s] /\ (c = "rpa" => "compact" \in context[s])
  /\ sending' = [sending EXCEPT ![s] = {c}]
  /\ UNCHANGED <<work, context, unknown>>

\* The command sent had its effect, had none, or nobody knows.
Learn(s) ==
  /\ sending[s] # {} /\ sending' = [sending EXCEPT ![s] = {}]
  /\ \/ context' = [context EXCEPT ![s] = @ \cup sending[s]] /\ UNCHANGED unknown
     \/ UNCHANGED <<context, unknown>>
     \/ unknown' = [unknown EXCEPT ![s] = sending[s]] /\ UNCHANGED context
  /\ UNCHANGED work

\* A warm-up begins again, without one of its commands; only the operator does
\* so when one got lost, and answers for it.
Again(s, c) ==
  /\ Idle(s) /\ sending[s] = {}
  /\ unknown' = [unknown EXCEPT ![s] = {}] /\ context' = [context EXCEPT ![s] = @ \ {c}]
  /\ UNCHANGED <<work, sending>>

Adopt(s) ==
  /\ Idle(s) /\ Quiet(s) /\ context' = [context EXCEPT ![s] = Commands]
  /\ UNCHANGED <<work, sending, unknown>>

Next ==
  \/ \E j \in Jobs : Register(j) \/ Start(j) \/ Retry(j)
  \/ \E j \in Jobs, end \in {"succeeded", "failed", "cancelled"} : End(j, end)
  \/ Release \/ GiveUp
  \/ \E s \in Sessions : Learn(s) \/ Adopt(s) \/ \E c \in Commands : Send(s, c) \/ Again(s, c)

Spec == Init /\ [][Next]_<<work, contexts>>
=============================================================================
