--------------------------- MODULE WorkflowContract ---------------------------
(***************************************************************************)
(* What a workflow promises its owner, without rows, attempts, transfers   *)
(* or ticks.  The owner may replace the plan: that stops everything not    *)
(* finished, and inserts work only for keys nothing has succeeded for, out *)
(* of tokens that neither were used nor may still be used by what runs.  A *)
(* child begins only when what it needs has succeeded and the budgets are  *)
(* not spent; one that was stopped neither begins nor succeeds; and no key *)
(* succeeds twice.                                                         *)
(***************************************************************************)
EXTENDS Naturals, Functions

CONSTANTS Revisions, Keys, MaxTokens, MaxAttempts

Children == Revisions \X Keys

VARIABLES
  phase, stopped,  \* of each child
  needs,           \* the keys a child waits for
  reserve,         \* the tokens a child may still use
  used, begun      \* tokens used and attempts begun, by all children

books == <<used, begun>>

Phases == {"absent", "waiting", "holding", "succeeded", "failed", "cancelled"}
Unfinished == {t \in Children : phase[t] \in {"waiting", "holding"}}
Done(k) == \E t \in Children : t[2] = k /\ phase[t] = "succeeded"
Affordable == used < MaxTokens /\ begun < MaxAttempts

Init ==
  /\ phase = [t \in Children |-> "absent"] /\ stopped = [t \in Children |-> FALSE]
  /\ needs = [t \in Children |-> {}] /\ reserve = [t \in Children |-> 0]
  /\ used = 0 /\ begun = 0

Insert(t, kids) ==
  /\ phase[t] = "absent" /\ ~Done(t[2])
  /\ phase'[t] = "waiting" /\ ~stopped'[t]
  /\ \A k \in needs'[t] : k \in kids \/ Done(k)

\* A child that may have begun is asked to stop, any other is cancelled.
Drop(t) ==
  /\ stopped'[t] /\ needs'[t] = needs[t]
  /\ \/ phase'[t] = "cancelled" /\ reserve'[t] = 0
     \/ phase[t] = "holding" /\ phase'[t] = "holding" /\ reserve'[t] = reserve[t]

Keep(t) == /\ phase'[t] = phase[t] /\ stopped'[t] = stopped[t]
           /\ needs'[t] = needs[t] /\ reserve'[t] = reserve[t]

Plan(r, kids) ==
  /\ Affordable
  /\ phase' \in [Children -> Phases] /\ stopped' \in [Children -> BOOLEAN]
  /\ needs' \in [Children -> SUBSET Keys] /\ reserve' \in [Children -> Nat]
  /\ \A t \in Children : IF t \in {r} \X kids THEN Insert(t, kids)
                         ELSE IF t \in Unfinished THEN Drop(t) ELSE Keep(t)
  /\ used + SumFunctionOnSet(reserve', Children) <= MaxTokens
  /\ UNCHANGED books

Begin(t) ==
  /\ phase[t] = "waiting" /\ ~stopped[t] /\ Affordable
  /\ \A k \in needs[t] : Done(k)
  /\ phase' = [phase EXCEPT ![t] = "holding"]
  /\ begun' = begun + 1
  /\ UNCHANGED <<stopped, needs, reserve, used>>

Return(t) ==
  /\ phase[t] = "holding" /\ ~stopped[t]
  /\ phase' = [phase EXCEPT ![t] = "waiting"]
  /\ UNCHANGED <<stopped, needs, reserve, books>>

\* the child ends, and gives back what it did not use
Leave(t, end) ==
  /\ phase' = [phase EXCEPT ![t] = end]
  /\ reserve' = [reserve EXCEPT ![t] = 0]

GiveUp(t) ==
  /\ phase[t] = "waiting" /\ ~stopped[t]
  /\ Leave(t, "failed")
  /\ UNCHANGED <<stopped, needs, books>>

Stop(t) ==
  /\ t \in Unfinished
  /\ stopped' = [stopped EXCEPT ![t] = TRUE]
  /\ IF phase[t] = "holding" THEN UNCHANGED <<phase, reserve>>
     ELSE Leave(t, "failed") \/ Leave(t, "cancelled")
  /\ UNCHANGED <<needs, books>>

\* What an attempt used is charged, whatever becomes of the child; only one that
\* has tokens left may try again.
End(t) ==
  /\ phase[t] = "holding"
  /\ used' \in Nat /\ used' >= used
  /\ LET left == reserve[t] - (used' - used)
     IN \/ /\ ~stopped[t] /\ left > 0
           /\ phase' = [phase EXCEPT ![t] = "waiting"]
           /\ reserve' = [reserve EXCEPT ![t] = left]
        \/ ~stopped[t] /\ ~Done(t[2]) /\ Leave(t, "succeeded")
        \/ stopped[t] /\ Leave(t, "cancelled")
        \/ Leave(t, "failed")
  /\ UNCHANGED <<stopped, needs, begun>>

Next ==
  \/ \E r \in Revisions, kids \in SUBSET Keys : Plan(r, kids)
  \/ \E t \in Children : Begin(t) \/ Return(t) \/ GiveUp(t) \/ Stop(t) \/ End(t)

Spec == Init /\ [][Next]_<<phase, stopped, needs, reserve, books>>
=============================================================================
