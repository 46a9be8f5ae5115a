------------------------------ MODULE MCSession ------------------------------
(***************************************************************************)
(* Instances of the native session lifecycle for TLC.                       *)
(***************************************************************************)
EXTENDS SessionRefinement, TLC

CONSTANTS first, second, next, both, main

\* first and second share a session; next follows first, in its session; both
\* needs second and next, in a session of its own
Following == [j \in Jobs |-> IF j = both THEN <<second, next>>
                            ELSE IF j = next THEN <<first>> ELSE <<>>]
SharedMention == [j \in Jobs |-> IF j \in {first, second} THEN main ELSE None]
=============================================================================
