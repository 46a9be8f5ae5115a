----------------------------- MODULE MCWorkflow -----------------------------
(***************************************************************************)
(* Plans of the workflow instances for TLC.                                 *)
(***************************************************************************)
EXTENDS WorkflowRefinement, TLC

CONSTANTS extract, review

NoNeeds == [k \in Keys |-> <<>>]
NoCeiling == [k \in Keys |-> 0]

\* review takes what extract delivers; both share the budget
Pipeline == [kids |-> {extract, review}, needs |-> [NoNeeds EXCEPT ![review] = <<extract>>],
             ceiling |-> NoCeiling, files |-> {extract}, narrow |-> TRUE]
\* review alone, with a ceiling of its own
Single == [kids |-> {review}, needs |-> NoNeeds, ceiling |-> [NoCeiling EXCEPT ![review] = 2],
           files |-> {}, narrow |-> TRUE]
\* the two wait for one another
Ring == [kids |-> {extract, review},
         needs |-> [NoNeeds EXCEPT ![review] = <<extract>>, ![extract] = <<review>>],
         ceiling |-> NoCeiling, files |-> {}, narrow |-> TRUE]

ThreePlans == {Pipeline, Single, Ring}
CommandSymmetry == Permutations(CommandKeys)
=============================================================================
