---------------------------- MODULE Cancellation ----------------------------
(***************************************************************************)
(* acp.CancellationSupervisor: one ACP attempt is asked to stop, then its  *)
(* process group is signalled twice, and capacity is kept until the group  *)
(* is gone and the adapter has given a terminal stop reason.  The group,   *)
(* the adapter and the caller that polls run independently.                *)
(***************************************************************************)
EXTENDS Integers, Sequences

CONSTANT Grace   \* grace_seconds, in steps of the clock

ASSUME GraceAssumption == Grace \in Nat \ {0}

VARIABLES
  requested,  \* time since the request, counted to 2 * Grace; -1 before it
  termed,     \* time since term_sent_at was set, counted to Grace; -1 before
  killed,     \* kill_sent_at is set
  reason,     \* adapter_stop_reason
  signals,    \* the signals sent
  group,      \* the process group exists
  answer      \* the last dictionary returned to the caller

vars == <<requested, termed, killed, reason, signals, group, answer>>

Running   == [status |-> "Running", reserved |-> TRUE]
Unknown   == [status |-> "Unknown", reserved |-> TRUE]
Cancelled == [status |-> "Cancelled", reserved |-> FALSE]

Init == /\ requested = -1 /\ termed = -1 /\ killed = FALSE
        /\ reason = "none" /\ signals = <<>>
        /\ group = TRUE /\ answer = Running

\* Seeded fault: one kind of evidence is enough.
FaultyConfirmed(gone, why) == gone \/ why = "terminal"

\* both kinds of evidence
Confirmed(gone, why) == gone /\ why = "terminal"

\* Seeded fault: SIGTERM is sent at one moment only.
FaultyTermDue(req) == termed = -1 /\ req = Grace

TermDue(req) == termed = -1 /\ req >= Grace

\* Seeded fault: the second grace period is counted from the request.
FaultyKillDue(req) == ~killed /\ req >= Grace

\* term_sent_at is set by this very poll when TermDue holds
KillDue(req) == ~killed /\ ~TermDue(req) /\ termed >= Grace

Status(req, gone, why) ==
  IF req = -1 THEN Running ELSE IF Confirmed(gone, why) THEN Cancelled ELSE Unknown

Sent(due, s) == IF due /\ group THEN <<s>> ELSE <<>>

\* poll, after the caller has set the request time and the stop reason
Polled(req, why) ==
  LET active == req # -1 /\ ~Confirmed(~group, why)
      term == active /\ TermDue(req)
      kill == active /\ KillDue(req)
  IN /\ signals' = signals \o Sent(term, "TERM") \o Sent(kill, "KILL")
     /\ termed' = IF term THEN 0 ELSE termed
     /\ killed' = (killed \/ kill)
     /\ answer' = Status(req, ~group, why)

\* The caller's timer; poll and its alias tick.
Poll == Polled(requested, reason) /\ UNCHANGED <<requested, reason, group>>

\* request: only the first one sends the cooperative cancellation.
Request ==
  /\ requested' = IF requested = -1 THEN 0 ELSE requested
  /\ Polled(requested', reason)
  /\ UNCHANGED <<reason, group>>

\* cooperative_cancel raises: the request time is set, nothing else happens,
\* and the notification is not sent again.
RequestRaises ==
  /\ requested = -1 /\ requested' = 0
  /\ UNCHANGED <<termed, killed, reason, signals, group, answer>>

\* The adapter reports a stop reason; only some are terminal.
AdapterStopped ==
  \E why \in {"terminal", "other"} :
    /\ reason' = why
    /\ Polled(requested, why)
    /\ UNCHANGED <<requested, group>>

\* The group ends between the existence check and the signal: killpg raises
\* out of poll, or the call that polls, before the time of the signal is stored.
PollRaises ==
  /\ requested # -1 /\ group
  /\ TermDue(requested) \/ KillDue(requested)
  /\ group' = FALSE
  /\ reason' \in {reason, "terminal", "other"}
  /\ UNCHANGED <<requested, termed, killed, signals, answer>>

\* The processes end by themselves, because they were asked to, or by SIGTERM.
GroupEnds ==
  /\ group /\ group' = FALSE
  /\ UNCHANGED <<requested, termed, killed, reason, signals, answer>>

\* No process survives SIGKILL; the caller reaps the group's leader.
GroupKilled == "KILL" \in {signals[i] : i \in DOMAIN signals} /\ GroupEnds

Older(age, cap) == IF age = -1 \/ age = cap THEN age ELSE age + 1

ClockTick ==
  /\ requested' = Older(requested, 2 * Grace)
  /\ termed' = Older(termed, Grace)
  /\ <<requested, termed>>' # <<requested, termed>>
  /\ UNCHANGED <<killed, reason, signals, group, answer>>

Next == \/ Request \/ RequestRaises \/ AdapterStopped \/ Poll \/ PollRaises
        \/ GroupEnds \/ GroupKilled \/ ClockTick

Spec == Init /\ [][Next]_vars

\* The caller polls on a schedule, time passes, and a killed group goes away.
FairSpec == Spec /\ WF_vars(Poll \/ PollRaises) /\ WF_vars(ClockTick) /\ WF_vars(GroupKilled)

----------------------------------------------------------------------------
\* Properties

\* Timers, evidence, signals and answers are as described.
TypeOK == /\ requested \in -1..(2 * Grace) /\ termed \in -1..Grace
          /\ killed \in BOOLEAN /\ group \in BOOLEAN
          /\ reason \in {"none", "terminal", "other"}
          /\ signals \in Seq({"TERM", "KILL"})
          /\ answer \in {Running, Unknown, Cancelled}

\* Capacity is given back only when nothing of the group is left, and it was
\* asked to stop, whatever the order of evidence, signals and calls (poll).
ReleaseIsSafe == ~answer.reserved => ~group /\ requested # -1

\* SIGKILL follows SIGTERM's time by a full grace period, so by two the request,
\* and each signal is sent at most once (poll, however late it is called).
KillIsLast ==
  [][signals' # signals =>
       \/ signals' = <<"TERM">> /\ requested >= Grace
       \/ /\ signals' = <<"TERM", "KILL">>
          /\ termed >= Grace /\ requested = 2 * Grace]_vars

\* Once asked to stop, the group is eventually gone, even if the adapter
\* ignores the request, or sending it failed (request, poll).
EventuallyStopped == requested # -1 ~> ~group
=============================================================================
