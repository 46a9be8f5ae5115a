------------------------------ MODULE Providers ------------------------------
(***************************************************************************)
(* The calls of one client to a model provider (providers.py): a runner's  *)
(* attempts (Controller.llm and request in runner.py), each with a warm-up *)
(* command and work turns in a Coddy session, or the request of a          *)
(* discovery probe.  The remote works on a turn whether or not its answer  *)
(* arrives; bodies may be cut anywhere, and other clients change the       *)
(* session's permission mode.                                              *)
(***************************************************************************)
EXTENDS Naturals, Sequences, FiniteSets, FiniteSetsExt, Functions

CONSTANTS
  Forms,        \* configurations of a client
  MaxAttempts,  \* bound: attempts of the task
  MaxRequests,  \* bound: turns of an attempt
  MaxBlocks,    \* bound: blocks of a stream before its end
  MaxChanges    \* bound: changes of the session's mode by other clients

Modes == {"ask", "accept_edits", "bypass"}
Refusals == {"invalid", "busy", "limited"}    \* HTTP 400 and its like, 409, 429
Statuses == Refusals \cup {"error"}           \* 500 and its like
Kinds == {"transient", "permanent", "unknown"}

\* Only Coddy streams, has sessions, and takes the options of a task.
ClientForm ==
  {f \in [client : {"runner", "probe"}, kind : {"http", "coddy"}, stream : BOOLEAN,
          resumed : BOOLEAN, asked : Modes \cup {"none"}, mention : Modes \cup {"none", "no"}] :
     f.kind = "http" => ~f.stream /\ ~f.resumed /\ f.asked = "none" /\ f.mention = "no"}

ASSUME ProviderAssumption ==
  /\ Forms \subseteq ClientForm
  /\ {MaxAttempts, MaxRequests, MaxBlocks, MaxChanges} \subseteq Nat

VARIABLES
  form,      \* the client's configuration
  session,   \* the Coddy session at the server: exists, mode, changes by others
  remote,    \* the turn of the current request: state, effects, HTTP status
  wire,      \* blocks of the response sent so far
  call,      \* the client: step, attempt, turns of the attempt, mode to set
  mode,      \* Provider.permission_mode
  result,    \* how the last request or lookup ended
  observed   \* history: the mode last read in a snapshot of this attempt

providerVars == <<form, session, remote, wire, call, mode, result, observed>>

Idle == [state |-> "none", acted |-> FALSE, status |-> "ok"]

InitProvider ==
  /\ form \in Forms
  /\ session \in [exists : BOOLEAN, mode : Modes, changes : {0}]
  /\ form.client = "probe" => session.mode = "ask" /\ ~session.exists
  /\ remote = Idle /\ wire = <<>>
  /\ call = [pc |-> IF form.client = "runner" THEN "begin" ELSE "off",
             attempt |-> 1, turns |-> 0, target |-> "ask"]
  /\ mode = "none" /\ result = "none" /\ observed = "none"

----------------------------------------------------------------------------
\* Modes, and the verdicts on answers

Rank == [ask |-> 0, accept_edits |-> 1, bypass |-> 2]

\* narrow_permission_mode
Narrow(parent, requested) == IF Rank[requested] < Rank[parent] THEN requested ELSE parent

Or(m, other) == IF m = "none" THEN other ELSE m

\* The mode that _normalize_mention makes of the parent's and the mention's
ChildMode(parent, requested) == Narrow(Or(parent, "ask"), Or(requested, Or(parent, "ask")))

ErrorKind(status) ==
  IF status = "limited" \/ (status = "busy" /\ form.kind = "coddy") THEN "transient"
  ELSE IF status = "invalid" THEN "permanent" ELSE "unknown"

FaultyStreamVerdict(blocks) ==
  LET bad == Range(blocks) \cap (Statuses \cup {"malformed"})
  IN IF bad # {}
     THEN IF "malformed" \in bad THEN "unknown" ELSE ErrorKind(CHOOSE s \in bad : TRUE)
     ELSE IF "done" \in Range(blocks) THEN "completed" ELSE "unknown"

\* _parse_coddy_stream: a status among the blocks is an error event.  The first
\* error or malformed block decides; what precedes it may have had effects.
StreamVerdict(blocks) ==
  LET bad == {i \in DOMAIN blocks : blocks[i] \in Statuses \cup {"malformed"}}
      all == Range(blocks)
  IN IF bad # {}
     THEN IF blocks[Min(bad)] = "malformed" \/ \E i \in 1..Min(bad) : blocks[i] \in {"text", "tool"}
          THEN "unknown" ELSE ErrorKind(blocks[Min(bad)])
     ELSE IF "done" \notin all \/ all \cap {"reason", "elsewhere"} = {} THEN "unknown"
     ELSE IF "elsewhere" \in all THEN "permanent" ELSE "completed"

\* _parse_coddy_json, and complete's reading of the other providers' bodies, none
\* of which looks for an error object; only Ollama says that it is not done.
BodyVerdicts(blocks) ==
  IF blocks = <<"body">> THEN {"completed"}
  ELSE IF form.kind = "coddy"
       THEN {IF \E s \in Statuses : blocks = <<s>> THEN ErrorKind(blocks[1]) ELSE "permanent"}
       ELSE {"permanent", "unknown"}

Verdicts(blocks) == IF form.stream THEN {StreamVerdict(blocks)} ELSE BodyVerdicts(blocks)

----------------------------------------------------------------------------
\* The remote, external to the client

remoteOnly == <<form, call, mode, result, observed>>

\* An answer that refuses the request means that nothing was begun.
Refuse ==
  /\ remote.state = "sent"
  /\ \E s \in Refusals : remote' = [remote EXCEPT !.state = "refused", !.status = s]
  /\ UNCHANGED <<remoteOnly, session, wire>>

Accept ==
  /\ remote.state = "sent"
  /\ remote' = [remote EXCEPT !.state = "running"]
  /\ session' = [session EXCEPT !.exists = TRUE]
  /\ UNCHANGED <<remoteOnly, wire>>

\* A proxy answers for a turn that it has passed on.
Gateway ==
  /\ remote.state = "running" /\ wire = <<>> /\ remote.status = "ok"
  /\ remote' = [remote EXCEPT !.status = "error"]
  /\ UNCHANGED <<remoteOnly, session, wire>>

\* Text, a tool call or any other effect; a stream shows it.
Act ==
  /\ remote.state = "running" /\ (form.stream => Len(wire) < MaxBlocks)
  /\ remote' = [remote EXCEPT !.acted = TRUE]
  /\ IF form.stream THEN \E b \in {"text", "tool"} : wire' = Append(wire, b) ELSE UNCHANGED wire
  /\ UNCHANGED <<remoteOnly, session>>

Close(state, blocks) ==
  /\ remote.state = "running"
  /\ remote' = [remote EXCEPT !.state = state]
  /\ wire' = wire \o blocks
  /\ UNCHANGED <<remoteOnly, session>>

Finish ==
  IF form.stream THEN \E r \in {"reason", "elsewhere"} : Close("finished", <<r, "done">>)
  ELSE Close("finished", <<"body">>)

\* The turn ends before it is complete: with an error of its model's server, or
\* in a stream without a terminal reason.
Break ==
  \/ \E s \in Statuses : Close("failed", <<s>>)
  \/ form.stream /\ Close("failed", <<"done">>)

\* Another client of the session sets its mode.
ModeChange ==
  /\ session.exists /\ form.client = "runner" /\ session.changes < MaxChanges
  /\ \E m \in Modes \ {session.mode} :
       session' = [session EXCEPT !.mode = m, !.changes = @ + 1]
  /\ UNCHANGED <<remoteOnly, remote, wire>>

Remote == Refuse \/ Accept \/ Gateway \/ Act \/ Finish \/ Break \/ ModeChange

----------------------------------------------------------------------------
\* The client

Goto(pc) == call' = [call EXCEPT !.pc = pc]

\* The attempt ends; only a confirmed temporary rejection is retried.
End(kind) ==
  /\ result' = kind
  /\ Goto(IF kind = "transient" /\ form.client = "runner" /\ call.attempt < MaxAttempts
          THEN "retry" ELSE "ended")

Retry ==
  /\ call.pc = "retry"
  /\ call' = [call EXCEPT !.pc = "begin", !.attempt = @ + 1, !.turns = 0]
  /\ remote' = Idle /\ wire' = <<>> /\ result' = "none" /\ observed' = "none" /\ mode' = "none"
  /\ UNCHANGED <<form, session>>

\* llm, and the lookup of the model catalog (model_contexts) in _warm_coddy
Begin ==
  /\ call.pc = "begin"
  /\ mode' = form.asked
  /\ Goto(IF form.kind = "http" THEN "send" ELSE IF form.resumed THEN "inspect" ELSE "ensure")
  /\ UNCHANGED <<form, session, remote, wire, result, observed>>

\* A lookup that fails has no effect.
LookupFails ==
  /\ call.pc \in {"begin", "inspect", "mention"} /\ form.kind = "coddy"
  /\ call.pc = "mention" => mode = "none"
  /\ \E kind \in Kinds : End(kind)
  /\ UNCHANGED <<form, session, remote, wire, mode, observed>>

FaultySnapshot ==
  IF session.exists
  THEN \/ mode' = session.mode /\ observed' = mode'
       \/ UNCHANGED mode /\ observed' = "ask"
  ELSE UNCHANGED <<mode, observed>>

\* session_snapshot: the mode that was read, where one is reported
Snapshot ==
  IF session.exists
  THEN \E m \in {session.mode, "ask"} : mode' = m /\ observed' = m
  ELSE UNCHANGED <<mode, observed>>

\* _warm_coddy's look at a resumed session
Inspect ==
  /\ call.pc = "inspect"
  /\ Snapshot
  /\ LET narrowed == Narrow(Or(mode', "ask"), Or(form.asked, Or(mode', "ask")))
     IN call' = IF mode' # "none" /\ narrowed # mode'
                THEN [call EXCEPT !.pc = "narrow", !.target = narrowed]
                ELSE [call EXCEPT !.pc = "ensure"]
  /\ UNCHANGED <<form, session, remote, wire, result>>

\* ensure_session refuses a bypass that no snapshot showed; a session that is
\* already prepared is not warmed again.
Ensure ==
  /\ call.pc = "ensure"
  /\ IF mode = "bypass" /\ observed = "none"
     THEN End("permanent")
     ELSE (Goto("warm") \/ Goto("turn")) /\ UNCHANGED result
  /\ UNCHANGED <<form, session, remote, wire, mode, observed>>

\* _complete_coddy: a mention in the first work turn looks the mode up, unless it
\* is known, and sets it.
Turn ==
  /\ call.pc = "turn"
  /\ Goto(IF form.mention # "no" /\ call.turns = 0 THEN "mention" ELSE "send")
  /\ remote' = Idle /\ wire' = <<>> /\ result' = "none"
  /\ UNCHANGED <<form, session, mode, observed>>

Mention ==
  /\ call.pc = "mention"
  /\ IF mode = "none" THEN Snapshot ELSE UNCHANGED <<mode, observed>>
  /\ call' = [call EXCEPT !.pc = "delegate", !.target = ChildMode(mode', form.mention)]
  /\ UNCHANGED <<form, session, remote, wire, result>>

\* _set_permission_mode, whose answer may be lost
SetMode ==
  /\ call.pc \in {"narrow", "delegate"}
  /\ \/ /\ session.exists /\ session' = [session EXCEPT !.mode = call.target]
        /\ mode' = call.target
        /\ Goto(IF call.pc = "narrow" THEN "ensure" ELSE "send") /\ UNCHANGED result
     \/ /\ session.exists /\ session' = [session EXCEPT !.mode = call.target]
        /\ End("unknown") /\ UNCHANGED mode
     \/ \E kind \in Kinds : End(kind) /\ UNCHANGED <<session, mode>>
  /\ UNCHANGED <<form, remote, wire, observed>>

\* POST: a warm-up command or a work turn
Send ==
  /\ call.pc \in {"warm", "send"}
  /\ remote' = [Idle EXCEPT !.state = "sent"]
  /\ call' = IF call.pc = "warm" THEN [call EXCEPT !.pc = "warming"]
             ELSE [call EXCEPT !.pc = "waiting", !.turns = @ + 1]
  /\ UNCHANGED <<form, session, wire, mode, result, observed>>

Waiting == call.pc \in {"warming", "waiting"}

Completed ==
  /\ result' = "completed"
  /\ Goto(IF call.pc = "warming" \/ (call.turns < MaxRequests /\ form.client = "runner")
          THEN "turn" ELSE "ended")

Judged(kind) == IF kind = "completed" THEN Completed ELSE End(kind)

\* The answer is read to its end, or to where the connection broke; a break that
\* the client notices, and a body beyond its size, are unknown.
Receive ==
  /\ Waiting
  /\ \/ remote.status # "ok" /\ End(ErrorKind(remote.status))
     \/ /\ remote.state \in {"running", "finished", "failed"} /\ remote.status = "ok"
        /\ \E n \in 0..Len(wire), cut \in {<<>>, <<"malformed">>} :
             /\ remote.state # "running" \/ n = Len(wire)
             /\ cut # <<>> => n < Len(wire) \/ remote.state = "running"
             /\ \E kind \in Verdicts(SubSeq(wire, 1, n) \o cut) : Judged(kind)
     \/ remote.state # "sent" /\ form.kind = "coddy" /\ End("permanent")  \* another session's ID
     \/ End("unknown")
  /\ UNCHANGED <<form, session, remote, wire, mode, observed>>

\* Controller.request stops waiting, Controller.checkpoint stops between steps.
GiveUp ==
  /\ call.pc \notin {"off", "ended", "retry"} /\ form.client = "runner"
  /\ End(IF Waiting THEN "unknown" ELSE "permanent")
  /\ UNCHANGED <<form, session, remote, wire, mode, observed>>

\* A runner with a last answer does not go on.
Final ==
  /\ call.pc = "turn" /\ call.turns > 0
  /\ Goto("ended")
  /\ UNCHANGED <<form, session, remote, wire, mode, result, observed>>

Client == \/ Retry \/ Begin \/ LookupFails \/ Inspect \/ Ensure \/ Turn \/ Mention
          \/ SetMode \/ Send \/ Receive \/ GiveUp \/ Final

----------------------------------------------------------------------------
\* Properties

\* A request counts as completed only when the remote finished the turn, and as
\* a temporary rejection, which the manager retries, only when the remote did
\* nothing for it and does nothing any more; however streams are cut, and
\* whatever errors come in the middle of them.  A Coddy answer that is not
\* streamed does not show what preceded its error.
KnownOutcomeIsTrue ==
  /\ result = "completed" => remote.state = "finished"
  /\ result = "transient" /\ (form.stream \/ form.kind = "http") =>
       /\ remote.state \in {"none", "refused", "failed"}
       /\ ~remote.acted

\* A client sets no mode above the one that it read from the session in the same
\* attempt, and none without having read it that bypasses permissions: whatever
\* the task asks for, the mention asks for, a lost session or a retry leaves
\* behind (session_snapshot, _warm_coddy, ensure_session, _complete_coddy).
ModeNotWidened ==
  [][call.pc \in {"narrow", "delegate"} /\ session' # session /\ session'.changes = session.changes =>
       IF observed = "none" THEN session'.mode # "bypass"
       ELSE Rank[session'.mode] <= Rank[observed]]_providerVars
=============================================================================
