---------------------------- MODULE TaskContract ----------------------------
(***************************************************************************)
(* What the task core promises its callers, without rows, workers, runners *)
(* or transactions.  An accepted task waits for a slot or holds one, may   *)
(* give it back, and ends once.  At most MaxActive slots are held.  A stop *)
(* (a user's cancel or the deadline) is final: from then on the task gets  *)
(* no slot it does not hold and cannot succeed; and only a task asked to   *)
(* stop is ever reported Cancelled.  One step may move several tasks: the  *)
(* manager settles and admits in one commit.                               *)
(***************************************************************************)
EXTENDS Naturals, FiniteSets

CONSTANTS Tasks, MaxActive

VARIABLES phase, stopped

Phases == {"absent", "waiting", "holding", "succeeded", "failed", "cancelled"}
Ended  == {"succeeded", "failed", "cancelled"}

Holding == {t \in Tasks : phase[t] = "holding"}

Init == /\ phase = [t \in Tasks |-> "absent"]
        /\ stopped = [t \in Tasks |-> FALSE]

Stays(t)   == phase'[t] = phase[t] /\ stopped'[t] = stopped[t]

Accept(t)  == /\ phase[t] = "absent" /\ phase'[t] = "waiting"
              /\ ~stopped[t] /\ ~stopped'[t]

Grant(t)   == /\ phase[t] = "waiting" /\ phase'[t] = "holding"
              /\ ~stopped[t] /\ ~stopped'[t]

GiveBack(t) == /\ phase[t] = "holding" /\ phase'[t] = "waiting"
               /\ ~stopped[t] /\ ~stopped'[t]

Succeed(t) == /\ phase[t] = "holding" /\ phase'[t] = "succeeded"
              /\ ~stopped[t] /\ ~stopped'[t]

Fail(t)    == /\ phase[t] \in {"waiting", "holding"} /\ phase'[t] = "failed"
              /\ stopped[t] => stopped'[t]

StopNow(t) == /\ phase[t] \in {"waiting", "holding"} /\ stopped'[t]
              /\ phase'[t] \in {phase[t], "cancelled"}

Move(t) == \/ Stays(t) \/ Accept(t) \/ Grant(t) \/ GiveBack(t) \/ Succeed(t)
           \/ Fail(t) \/ StopNow(t)

Next == /\ phase' \in [Tasks -> Phases]
        /\ stopped' \in [Tasks -> BOOLEAN]
        /\ \A t \in Tasks : Move(t)
        /\ Cardinality(Holding') <= MaxActive

Spec == Init /\ [][Next]_<<phase, stopped>>
=============================================================================
