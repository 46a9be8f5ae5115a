------------------------------- MODULE MCTask -------------------------------
(***************************************************************************)
(* Small instances of the task core for TLC.                               *)
(***************************************************************************)
EXTENDS TaskProperties, TaskRefinement, TLC

Plain == [needs |-> {"run"}, deadline |-> 2, replaySafe |-> FALSE,
          on |-> {"transient"}, maxAttempts |-> 1, backoff |-> 1,
          maxTokens |-> 0, maxSteps |-> 0]

Retried == [Plain EXCEPT !.replaySafe = TRUE, !.maxAttempts = 2]

KeySymmetry == Permutations(Keys)

OneForm == {[slots |-> 1, offers |-> {"run"}]}
TwoForms == {[slots |-> 1, offers |-> {"run"}], [slots |-> 2, offers |-> {"run", "write"}]}

\* one task that is retried within a token budget
BudgetedSpecs == [t \in Tasks |-> [Retried EXCEPT !.maxSteps = 2, !.maxTokens = 2]]

\* one heartbeat in a first attempt; no heartbeat at all
FirstBeats == <<3, 2>>
NoBeats    == <<2, 2>>

\* two tasks with a short deadline, the second of which needs write access
SharedSpecs == [t \in Tasks |->
  IF t = 1 THEN [Retried EXCEPT !.deadline = 1, !.on = {"transient", "validation"}]
  ELSE [Plain EXCEPT !.deadline = 1, !.needs = {"run", "write"}]]
=============================================================================
