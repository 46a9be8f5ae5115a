--------------------------- MODULE SessionRefinement ---------------------------
(***************************************************************************)
(* The native session lifecycle implements SessionContract: what its rows, *)
(* callers and doubts mean to those who rely on it.                        *)
(***************************************************************************)
EXTENDS SessionProperties

\* a caller that has sent a command and not learned what became of it
Out(row) == row.pc \in {"executing", "returned"}

Phase == [j \in Jobs |-> job[j].state]
Home == [j \in Jobs |-> job[j].session]
Attempts == [j \in Jobs |-> job[j].attempts]
Results == [j \in Jobs |->
  {<<i, transfer[i][j].attempt>> : i \in {i \in Jobs : transfer[i][j] # Nothing}}]
Context == [s \in Sessions |-> {c \in Commands : session[s].status[c] = "succeeded"}]
Sending == [s \in Sessions |-> {c \in Commands : \E p \in Callers :
  Out(caller[p]) /\ caller[p].session = s /\ Head(caller[p].todo) = c}]
Unknown == [s \in Sessions |-> {c \in Commands : <<s, c>> \in doubt}]

Contract == INSTANCE SessionContract WITH
  phase <- Phase, home <- Home, runs <- Attempts, given <- Results,
  context <- Context, sending <- Sending, unknown <- Unknown

\* Whatever dies between two transactions, comes late or is tried again: jobs run
\* one at a time in a session, in a context that is complete, with every result
\* they need; a success frees at once what waited for it; and nothing but the
\* operator takes up a session whose command got lost (start_job, complete_run,
\* _prepare_dependents_locked, warm_session, retry_warmup, recover).
KeepsJobContract == Contract!Spec
=============================================================================
